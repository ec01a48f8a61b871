------------------------------ MODULE MqttClient ------------------------------
(***************************************************************************)
(* The life of the MQTT connection: the goroutine Start launches, the      *)
(* callbacks, Stop, and the paho library underneath as this code uses it.  *)
(* Paho runs every OnConnect and OnConnectionLost handler in a goroutine   *)
(* of its own, so handlers of successive events may run in any order.      *)
(***************************************************************************)
EXTENDS Naturals

CONSTANTS MaxDrops,    \* BOUND: how often the connection is lost
          MaxFailures  \* BOUND: how often a connection attempt fails

ASSUME BoundsAssumption == MaxDrops \in Nat /\ MaxFailures \in Nat

VARIABLES
  lpc,         \* where the goroutine of Start is
  cancelled,   \* whether its context is cancelled
  stop,        \* where the caller of Stop is
  connected,   \* Client.connected
  paho,        \* the library's connection status
  token,       \* the token of the Connect call the loop waits for
  lostCbs, connCbs, subCbs,  \* handlers launched, and OnConnects about to subscribe
  subscribed,  \* whether the broker sends this connection the subscribe topic
  refused,     \* history variable: it refused the subscription of this connection
  drops, failures,           \* counters of the bounds
  pub,         \* where the scheduler's call of Publish is, or how the last one ended
  text,        \* where the text of that call is
  ptoken       \* its token

external == <<paho, token, lostCbs, drops, failures>>
publisher == <<pub, text, ptoken>>
vars == <<lpc, cancelled, stop, connected, connCbs, subCbs, subscribed, refused, external,
          publisher>>

TypeOK ==
  /\ lpc \in {"check", "connect", "dial", "retry", "parked", "done"}
  /\ stop \in {"none", "cancel", "disconnect", "join", "returned"}
  /\ paho \in {"off", "dialing", "up", "reconnecting"}
  /\ token \in {"none", "ok", "error"}
  /\ {cancelled, connected, subscribed, refused} \subseteq BOOLEAN
  /\ lostCbs \in 0 .. MaxDrops /\ connCbs \in 0 .. MaxDrops + 1
  /\ subCbs \in 0 .. MaxDrops + 1 /\ drops \in 0 .. MaxDrops
  /\ failures \in 0 .. MaxFailures /\ ptoken \in {"none", "ok", "error"}
  /\ pub \in {"idle", "hand", "wait", "nil", "error"}
  /\ text \in {"none", "queued", "sent", "skipped", "lost"}

\* main has called New and Start.
Init ==
  /\ lpc = "check" /\ stop = "none" /\ paho = "off" /\ token = "none"
  /\ cancelled = FALSE /\ connected = FALSE /\ subscribed = FALSE /\ refused = FALSE
  /\ lostCbs = 0 /\ connCbs = 0 /\ subCbs = 0 /\ drops = 0 /\ failures = 0
  /\ pub = "idle" /\ text = "none" /\ ptoken = "none"

-----------------------------------------------------------------------------
(* The goroutine of Start.                                                 *)

LoopCheck ==
  /\ lpc = "check" /\ lpc' = IF cancelled THEN "done" ELSE "connect"
  /\ UNCHANGED <<cancelled, stop, connected, connCbs, subCbs, subscribed, refused,
                 external, publisher>>

\* client.Connect returns a token and goes on in the background.
LoopConnect ==
  /\ lpc = "connect" /\ lpc' = "dial"
  /\ paho' = "dialing" /\ token' = "none"
  /\ UNCHANGED <<cancelled, stop, connected, connCbs, subCbs, subscribed, refused,
                 lostCbs, drops, failures, publisher>>

\* Mutants: a failed first connect is final; a successful one is repeated.
GiveUp(t)     == IF t = "error" THEN "done" ELSE "parked"
Again(t)      == IF t = "error" THEN "retry" ELSE "check"
AfterToken(t) == IF t = "error" THEN "retry" ELSE "parked"

LoopToken ==
  /\ lpc = "dial" /\ token # "none" /\ lpc' = AfterToken(token)
  /\ UNCHANGED <<cancelled, stop, connected, connCbs, subCbs, subscribed, refused,
                 external, publisher>>

\* Five seconds pass.
LoopRetries ==
  /\ lpc = "retry" /\ lpc' = "check"
  /\ UNCHANGED <<cancelled, stop, connected, connCbs, subCbs, subscribed, refused,
                 external, publisher>>

\* Mutant: once connected the goroutine forgets its context.
WaitsBlindly    == {"dial", "retry"}
WaitsForContext == {"dial", "retry", "parked"}

LoopCancelled ==
  /\ lpc \in WaitsForContext /\ cancelled /\ lpc' = "done"
  /\ UNCHANGED <<cancelled, stop, connected, connCbs, subCbs, subscribed, refused,
                 external, publisher>>

LoopStep == LoopCheck \/ LoopConnect \/ LoopToken \/ LoopRetries \/ LoopCancelled

-----------------------------------------------------------------------------
(* Publish, as the scheduler's loop calls it, one call after the other.    *)

connection == <<lpc, cancelled, stop, connected, connCbs, subCbs, subscribed, refused,
                external>>

CallPublish ==
  /\ pub \in {"idle", "nil", "error"} /\ pub' = IF connected THEN "hand" ELSE "error"
  /\ text' = "none" /\ ptoken' = "none"
  /\ UNCHANGED connection

\* The flag may be out of date by now.  Paho queues the text for its connection; while
\* it reconnects a text of QoS 0 is not sent, yet its token completes; otherwise the
\* token holds an error.
PublishHands ==
  /\ pub = "hand" /\ pub' = "wait"
  /\ \/ paho = "up" /\ text' = "queued" /\ ptoken' = "none"
     \/ paho = "reconnecting" /\ text' = "skipped" /\ ptoken' = "ok"
     \/ paho \in {"off", "dialing"} /\ text' = "lost" /\ ptoken' = "error"
  /\ UNCHANGED connection

\* Mutants: a timeout counts as success; the token is waited for without a timeout.
SaysNil   == "nil"
WaitsOn   == "wait"
OnTimeout == "error"

PublishReturns ==
  /\ pub = "wait"
  /\ pub' = CASE ptoken = "none" -> OnTimeout
             [] ptoken = "ok" -> "nil"
             [] ptoken = "error" -> "error"
  /\ UNCHANGED <<connection, text, ptoken>>

PublishStep == PublishHands \/ PublishReturns

\* Paho, external: a queued text is written to the connection also after Publish gave
\* up on it, or is lost with the connection, in which case its token may never complete.
TextSent ==
  /\ paho = "up" /\ text = "queued" /\ text' = "sent" /\ ptoken' = "ok"
  /\ UNCHANGED <<connection, pub>>

LosesText ==
  /\ IF text = "queued" THEN text' = "lost" /\ ptoken' \in {"none", "error"}
                        ELSE UNCHANGED <<text, ptoken>>
  /\ UNCHANGED pub

-----------------------------------------------------------------------------
(* Stop: the loop's context, then the library, then the goroutine.         *)

CallStop ==
  /\ stop = "none" /\ stop' = "cancel"
  /\ UNCHANGED <<lpc, cancelled, connected, connCbs, subCbs, subscribed, refused,
                 external, publisher>>

StopCancels ==
  /\ stop = "cancel" /\ stop' = "disconnect" /\ cancelled' = TRUE
  /\ UNCHANGED <<lpc, connected, connCbs, subCbs, subscribed, refused, external, publisher>>

\* Disconnect aborts an attempt under way, announces nothing and forgets the session.
StopDisconnects ==
  /\ stop = "disconnect" /\ stop' = "join"
  /\ paho' = "off" /\ subscribed' = FALSE
  /\ token' = IF paho = "dialing" THEN "error" ELSE token
  /\ LosesText
  /\ UNCHANGED <<lpc, cancelled, connected, connCbs, subCbs, refused, lostCbs, drops,
                 failures>>

StopJoins ==
  /\ stop = "join" /\ lpc = "done" /\ stop' = "returned"
  /\ UNCHANGED <<lpc, cancelled, connected, connCbs, subCbs, subscribed, refused,
                 external, publisher>>

StopStep == StopCancels \/ StopDisconnects \/ StopJoins

-----------------------------------------------------------------------------
(* The library, external to this code.                                     *)

DialSucceeds ==
  /\ paho = "dialing"
  /\ paho' = "up" /\ token' = "ok" /\ connCbs' = connCbs + 1 /\ refused' = FALSE
  /\ UNCHANGED <<lpc, cancelled, stop, connected, subCbs, subscribed, lostCbs, drops,
                 failures, publisher>>

DialFails ==
  /\ paho = "dialing" /\ failures < MaxFailures
  /\ paho' = "off" /\ token' = "error" /\ failures' = failures + 1
  /\ UNCHANGED <<lpc, cancelled, stop, connected, connCbs, subCbs, subscribed, refused,
                 lostCbs, drops, publisher>>

ConnectionLost ==
  /\ paho = "up" /\ drops < MaxDrops
  /\ paho' = "reconnecting" /\ lostCbs' = lostCbs + 1 /\ drops' = drops + 1
  /\ subscribed' = FALSE /\ LosesText
  /\ UNCHANGED <<lpc, cancelled, stop, connected, connCbs, subCbs, refused, token,
                 failures>>

\* SetAutoReconnect(true); failed attempts repeat inside the library.
Reconnected ==
  /\ paho = "reconnecting"
  /\ paho' = "up" /\ connCbs' = connCbs + 1 /\ refused' = FALSE
  /\ UNCHANGED <<lpc, cancelled, stop, connected, subCbs, subscribed, lostCbs, token,
                 drops, failures, publisher>>

-----------------------------------------------------------------------------
(* The handlers New installs.                                              *)

\* Mutants: the topic is not subscribed again after a reconnect; it is subscribed twice.
FirstTimeOnly  == IF drops = 0 THEN 1 ELSE 0
Twice          == 2
SubscribesToDo == 1

OnConnectStores ==
  /\ connCbs > 0 /\ connCbs' = connCbs - 1
  /\ connected' = TRUE /\ subCbs' = subCbs + SubscribesToDo
  /\ UNCHANGED <<lpc, cancelled, stop, subscribed, refused, external, publisher>>

OnConnectSubscribes ==
  /\ subCbs > 0 /\ subCbs' = subCbs - 1
  /\ \/ paho = "up" /\ subscribed' = TRUE /\ UNCHANGED refused
     \/ paho = "up" /\ refused' = TRUE /\ UNCHANGED subscribed
     \/ paho # "up" /\ UNCHANGED <<subscribed, refused>>
  /\ UNCHANGED <<lpc, cancelled, stop, connected, connCbs, external, publisher>>

OnConnectionLost ==
  /\ lostCbs > 0 /\ lostCbs' = lostCbs - 1 /\ connected' = FALSE
  /\ UNCHANGED <<lpc, cancelled, stop, connCbs, subCbs, subscribed, refused, paho,
                 token, drops, failures, publisher>>

Callback == OnConnectStores \/ OnConnectSubscribes \/ OnConnectionLost

Next == LoopStep \/ CallPublish \/ PublishStep \/ TextSent \/ CallStop \/ StopStep \/ Callback
        \/ DialSucceeds \/ DialFails \/ ConnectionLost \/ Reconnected

Spec == Init /\ [][Next]_vars

\* Goroutines run, sleeps end, and an attempt to connect has an outcome; nobody
\* has to stop the client or to drop the connection.
FairSpec ==
  /\ Spec /\ WF_vars(LoopStep) /\ WF_vars(StopStep) /\ WF_vars(Callback)
  /\ WF_vars(PublishStep)
  /\ WF_vars(DialSucceeds \/ DialFails) /\ WF_vars(Reconnected)

-----------------------------------------------------------------------------
\* The loop calls Connect only on a client that is not connected or connecting,
\* whatever failed and reconnected before.
ConnectsWhenOff == lpc \in {"check", "connect"} => paho = "off"

\* The client keeps trying until it is connected, unless it is stopped.
KeepsTrying == <>(paho = "up" \/ cancelled)

\* A connection that stays up is subscribed in the end, also after reconnects and
\* with handlers delayed past them, unless the broker refuses.
Resubscribes == <>[](paho = "up") => <>[](subscribed \/ refused)

\* Stop returns wherever the loop is.
StopReturns == stop = "cancel" ~> stop = "returned"

\* A call of Publish that returned nil sent its text; only one handed over while the
\* library reconnects, between the loss and its handler or under a flag that handlers
\* in the wrong order have set again, is counted as shown and never sent.
NilMeansSent == pub = "nil" => text \in {"sent", "skipped"}

\* The scheduler's loop is never held by Publish, whatever becomes of the connection.
PublishEnds == pub = "hand" ~> pub \in {"nil", "error"}

-----------------------------------------------------------------------------
(* Statements of comments that the code does not keep.                     *)

\* client.go:143: "Stop disconnects cleanly and waits for the background goroutine."
StoppedIsDisconnected == stop = "returned" => paho # "up"

\* client.go:187: "Connected reports whether the broker connection is currently
\* active", asked while no handler is under way. The handlers of a loss and of the
\* reconnect after it may run in the wrong order: the flag then stays wrong.
ConnectedIsCurrent ==
  stop = "none" /\ connCbs + lostCbs = 0 => (connected <=> paho = "up")
=============================================================================
