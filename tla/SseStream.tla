------------------------------- MODULE SseStream -------------------------------
(***************************************************************************)
(* One event stream, handleSSE: the request handler that sets it up, the   *)
(* two relays that merge its subscriptions into one queue, the writer that *)
(* sends the merged events to the client, the fallback for a writer that   *)
(* never runs, and Shutdown, which cancels every registered stream.  Times *)
(* are not modelled: the fallback's 30 seconds may pass at any moment.     *)
(*                                                                         *)
(* An event is its number in the order its source pushed them.  A push and *)
(* its signal are one step: module Queue shows what is between them, and   *)
(* EventFeed and DisplayFeed what a subscription may miss while it starts. *)
(***************************************************************************)
EXTENDS Naturals, Sequences

CONSTANTS
  Capacity,        \* per source, the size of its subscriber queue: 500 and 100
  MergedCapacity,  \* size of the merged queue, 1000
  Seeds,           \* per source, how many seeds a subscription may start with: 3, and
                   \* 0 or 1
  MaxEvents        \* BOUND: per source, events announced

Sources == {"sched", "display"}
Numbers == [Sources -> Nat]

ASSUME CapacityAssumption ==
  Capacity \in [Sources -> Nat \ {0}] /\ MergedCapacity \in Nat \ {0}
ASSUME BoundAssumption ==
  MaxEvents \in Numbers /\ Seeds \in [Sources -> SUBSET Nat]

VARIABLES
  hpc,         \* where the handler is
  subs,        \* the sources that have the stream's queue in their set
  buf, token,  \* per source, its queue and the notification
  rpc, hand,   \* per source, where its relay is, and the event it holds
  merged, mtoken,  \* the merged queue and its notification
  wpc, wire,   \* where the writer is, and the event it is writing
  fpc,         \* where the fallback goroutine is
  cleanup,     \* of the writer and the fallback, the cleanup calls that remain
  cancelled,   \* whether the stream's context is cancelled
  registered,  \* whether sseCancels holds it
  gone,        \* whether the client is gone
  sweep,       \* Shutdown's one sweep of the registry: none yet, or one that came
               \* early, before the stream was registered, or late, after that
  sent, last   \* history variables: per source, the event announced last and the
               \* one written last

control == <<hpc, subs, fpc, cleanup, cancelled, registered, sweep>>
sources == <<buf, token, sent>>
relays  == <<rpc, hand>>
writer  == <<wpc, wire, last>>
vars    == <<control, sources, relays, merged, mtoken, writer, gone>>

None == <<"none", 0>>

TypeOK ==
  /\ hpc \in {"sched", "display", "register", "spawn", "respond", "returned"}
  /\ subs \subseteq Sources
  /\ buf \in [Sources -> Seq(Nat)] /\ \A s \in Sources : Len(buf[s]) <= Capacity[s]
  /\ token \in [Sources -> BOOLEAN] /\ hand \in Numbers
  /\ rpc \in [Sources -> {"off", "wait", "drain", "push", "done"}]
  /\ merged \in Seq(Sources \X Nat) /\ Len(merged) <= MergedCapacity
  /\ wpc \in {"off", "drain", "write", "blocked", "select", "cleanup", "done"}
  /\ wire \in (Sources \X Nat) \cup {None}
  /\ fpc \in {"off", "sleep", "cleanup", "done"}
  /\ cleanup \in [{"writer", "fallback"} -> Seq({"sched", "display", "unregister", "cancel"})]
  /\ {mtoken, cancelled, registered, gone} \subseteq BOOLEAN
  /\ sweep \in {"none", "early", "late"}
  /\ sent \in Numbers /\ last \in Numbers

\* In the order of the deferred calls, last deferred first.  Mutant: the stream is
\* forgotten before its subscriptions are dropped.
UnregisterFirst == <<"unregister", "display", "sched", "cancel">>
WriterCleanup   == <<"display", "sched", "unregister", "cancel">>

\* Mutants: the fallback cancels last; it only cancels.
CancelLast      == <<"sched", "display", "unregister", "cancel">>
CancelOnly      == <<"cancel">>
FallbackCleanup == <<"cancel", "sched", "display", "unregister">>

\* A request for the stream has reached its handler.
Init ==
  /\ hpc = "sched" /\ subs = {}
  /\ buf = [s \in Sources |-> <<>>] /\ token = [s \in Sources |-> FALSE]
  /\ rpc = [s \in Sources |-> "off"] /\ hand = [s \in Sources |-> 0]
  /\ merged = <<>> /\ mtoken = FALSE
  /\ wpc = "off" /\ wire = None /\ fpc = "off"
  /\ cleanup = [writer |-> WriterCleanup, fallback |-> FallbackCleanup]
  /\ cancelled = FALSE /\ registered = FALSE /\ gone = FALSE
  /\ sweep = "none"
  /\ sent = [s \in Sources |-> 0] /\ last = [s \in Sources |-> 0]

-----------------------------------------------------------------------------
(* Sources: a subscription's queue, its seeds and what is announced later.  *)

\* Mutant: a full queue keeps everything.
KeepAll(q, size)  == q
MakeRoom(q, size) == IF Len(q) < size THEN q ELSE Tail(q)

Push(s) ==
  /\ sent[s] < MaxEvents[s] /\ sent' = [sent EXCEPT ![s] = @ + 1]
  /\ buf' = [buf EXCEPT ![s] = Append(MakeRoom(@, Capacity[s]), sent[s] + 1)]
  /\ token' = [token EXCEPT ![s] = TRUE]
  /\ UNCHANGED <<control, relays, merged, mtoken, writer, gone>>

\* The handler seeds a queue before it registers it.
Seed(s) == hpc = s /\ (\E n \in Seeds[s] : sent[s] < n) /\ Push(s)

Subscribe(s) ==
  /\ hpc = s /\ sent[s] \in Seeds[s]
  /\ hpc' = IF s = "sched" THEN "display" ELSE "register"
  /\ subs' = subs \cup {s}
  /\ UNCHANGED <<fpc, cleanup, cancelled, registered, sweep, sources, relays,
                 merged, mtoken, writer, gone>>

\* Also a source that collected the queue before it was unsubscribed pushes to it; what
\* arrives in it then reaches nobody.
Announce(s) == hpc \notin {"sched", s} /\ Push(s)

-----------------------------------------------------------------------------
(* The rest of the handler.                                                *)

RegisterSSE ==
  /\ hpc = "register" /\ hpc' = "spawn" /\ registered' = TRUE
  /\ UNCHANGED <<subs, fpc, cleanup, cancelled, sweep, sources, relays, merged,
                 mtoken, writer, gone>>

\* The fallback and the relays.
Spawn ==
  /\ hpc = "spawn" /\ hpc' = "respond"
  /\ fpc' = "sleep" /\ rpc' = [s \in Sources |-> "wait"]
  /\ UNCHANGED <<subs, cleanup, cancelled, registered, sweep, sources, hand,
                 merged, mtoken, writer, gone>>

\* SetBodyStreamWriter: from here on the library may run the writer.
Respond ==
  /\ hpc = "respond" /\ hpc' = "returned"
  /\ UNCHANGED <<subs, fpc, cleanup, cancelled, registered, sweep, sources, relays,
                 merged, mtoken, writer, gone>>

Handler == RegisterSSE \/ Spawn \/ Respond
           \/ \E s \in Sources : Subscribe(s) \/ (Seed(s) /\ sent[s] \notin Seeds[s])

-----------------------------------------------------------------------------
(* The relay of a source.                                                  *)

RelayNotified(s) ==
  /\ rpc[s] = "wait" /\ token[s]
  /\ rpc' = [rpc EXCEPT ![s] = "drain"] /\ token' = [token EXCEPT ![s] = FALSE]
  /\ UNCHANGED <<control, buf, sent, hand, merged, mtoken, writer, gone>>

RelayPops(s) ==
  /\ rpc[s] = "drain" /\ buf[s] # <<>> /\ rpc' = [rpc EXCEPT ![s] = "push"]
  /\ hand' = [hand EXCEPT ![s] = Head(buf[s])] /\ buf' = [buf EXCEPT ![s] = Tail(@)]
  /\ UNCHANGED <<control, token, sent, merged, mtoken, writer, gone>>

RelayPushes(s) ==
  /\ rpc[s] = "push" /\ rpc' = [rpc EXCEPT ![s] = "drain"]
  /\ hand' = [hand EXCEPT ![s] = 0]
  /\ merged' = Append(MakeRoom(merged, MergedCapacity), <<s, hand[s]>>)
  /\ mtoken' = TRUE
  /\ UNCHANGED <<control, sources, writer, gone>>

RelayFoundEmpty(s) ==
  /\ rpc[s] = "drain" /\ buf[s] = <<>> /\ rpc' = [rpc EXCEPT ![s] = "wait"]
  /\ UNCHANGED <<control, sources, hand, merged, mtoken, writer, gone>>

\* The context is looked at only while waiting: an event in hand is still merged.
RelayCancelled(s) ==
  /\ rpc[s] = "wait" /\ cancelled /\ rpc' = [rpc EXCEPT ![s] = "done"]
  /\ UNCHANGED <<control, sources, hand, merged, mtoken, writer, gone>>

Relay(s) == \/ RelayNotified(s) \/ RelayPops(s) \/ RelayPushes(s)
            \/ RelayFoundEmpty(s) \/ RelayCancelled(s)

-----------------------------------------------------------------------------
(* The writer.                                                             *)

\* It sets writerStarted and pops what is already merged.
WriterStarts ==
  /\ hpc = "returned" /\ wpc = "off" /\ wpc' = "drain"
  /\ UNCHANGED <<control, sources, relays, merged, mtoken, wire, last, gone>>

WriterPops ==
  /\ wpc = "drain" /\ merged # <<>> /\ wpc' = "write"
  /\ wire' = Head(merged) /\ merged' = Tail(merged)
  /\ UNCHANGED <<control, sources, relays, mtoken, last, gone>>

\* Mutant: one event per notification.
BackToSelect == "select"
AfterWrite   == "drain"

\* Also to a client that is gone: the write may end in a buffer.
WriteSucceeds ==
  /\ wpc = "write" /\ wpc' = AfterWrite
  /\ wire' = None /\ last' = [last EXCEPT ![wire[1]] = wire[2]]
  /\ UNCHANGED <<control, sources, relays, merged, mtoken, gone>>

\* Mutant: the writer goes on with the next event.
CarryOn ==
  /\ wpc \in {"write", "select"} /\ gone /\ wpc' = "drain" /\ wire' = None
  /\ UNCHANGED <<control, sources, relays, merged, mtoken, last, gone>>

\* An event, or the keepalive that a waiting writer sends every 15 seconds.
WriteFails ==
  /\ wpc \in {"write", "select"} /\ gone /\ wpc' = "cleanup"
  /\ UNCHANGED <<control, sources, relays, merged, mtoken, wire, last, gone>>

\* A write to a client that does not read, a keepalive too, blocks until the client does:
\* no timeout and no cancellation ends it.
WriteBlocks ==
  /\ wpc \in {"write", "select"} /\ wpc' = "blocked"
  /\ UNCHANGED <<control, sources, relays, merged, mtoken, wire, last, gone>>

WriteUnblocks ==
  /\ wpc = "blocked" /\ wpc' = IF wire = None THEN "select" ELSE "write"
  /\ UNCHANGED <<control, sources, relays, merged, mtoken, wire, last, gone>>

WriterFoundEmpty ==
  /\ wpc = "drain" /\ merged = <<>> /\ wpc' = "select"
  /\ UNCHANGED <<control, sources, relays, merged, mtoken, wire, last, gone>>

WriterNotified ==
  /\ wpc = "select" /\ mtoken /\ mtoken' = FALSE /\ wpc' = "drain"
  /\ UNCHANGED <<control, sources, relays, merged, wire, last, gone>>

WriterCancelled ==
  /\ wpc = "select" /\ cancelled /\ wpc' = "cleanup"
  /\ UNCHANGED <<control, sources, relays, merged, mtoken, wire, last, gone>>

\* One call of the cleanup: unsubscribe from a source, unregister or cancel.
CleanUp(who) ==
  LET call == Head(cleanup[who])
  IN /\ cleanup[who] # <<>> /\ cleanup' = [cleanup EXCEPT ![who] = Tail(@)]
     /\ subs' = subs \ {call}
     /\ registered' = (registered /\ call # "unregister")
     /\ cancelled' = (cancelled \/ call = "cancel")
     /\ UNCHANGED <<hpc, sweep, sources, relays, merged, mtoken, wire, last, gone>>

WriterCleansUp == wpc = "cleanup" /\ CleanUp("writer") /\ UNCHANGED <<wpc, fpc>>

WriterReturns ==
  /\ wpc = "cleanup" /\ cleanup["writer"] = <<>> /\ wpc' = "done"
  /\ UNCHANGED <<control, sources, relays, merged, mtoken, wire, last, gone>>

Writer == \/ WriterPops \/ WriteSucceeds \/ WriteFails \/ WriterFoundEmpty
          \/ WriterNotified \/ WriterCancelled \/ WriterCleansUp \/ WriterReturns

-----------------------------------------------------------------------------
(* The fallback, Shutdown and the client.                                  *)

FallbackReturns ==
  /\ \/ fpc = "sleep" /\ (cancelled \/ wpc # "off")
     \/ fpc = "cleanup" /\ cleanup["fallback"] = <<>>
  /\ fpc' = "done"
  /\ UNCHANGED <<hpc, subs, cleanup, cancelled, registered, sweep, sources, relays,
                 merged, mtoken, writer, gone>>

\* The 30 seconds are over and writerStarted is false; it may be true a moment later.
FallbackFires ==
  /\ fpc = "sleep" /\ wpc = "off" /\ fpc' = "cleanup"
  /\ UNCHANGED <<hpc, subs, cleanup, cancelled, registered, sweep, sources, relays,
                 merged, mtoken, writer, gone>>

FallbackCleansUp == fpc = "cleanup" /\ CleanUp("fallback") /\ UNCHANGED <<wpc, fpc>>

Fallback == FallbackReturns \/ FallbackFires \/ FallbackCleansUp

\* Shutdown, under sseMu, once in the life of the process: it cancels the streams that
\* are registered, empties the registry and never looks at it again; it then waits up to
\* five seconds for the streams to end.  A stream it finds nothing of may be one that
\* registers later.
CancelStreams ==
  /\ sweep = "none"
  /\ sweep' = IF hpc \in {"sched", "display", "register"} THEN "early" ELSE "late"
  /\ registered' = FALSE /\ cancelled' = (cancelled \/ registered)
  /\ UNCHANGED <<hpc, subs, fpc, cleanup, sources, relays, merged, mtoken, writer, gone>>

ClientLeaves ==
  /\ ~gone /\ gone' = TRUE
  /\ UNCHANGED <<control, sources, relays, merged, mtoken, writer>>

Next ==
  \/ Handler \/ \E s \in Sources : Seed(s) \/ Announce(s) \/ Relay(s)
  \/ WriterStarts \/ Writer \/ WriteBlocks \/ WriteUnblocks
  \/ Fallback \/ CancelStreams \/ ClientLeaves

Spec == Init /\ [][Next]_vars

\* Goroutines run and the fallback's time passes.  The library need not run the
\* writer, the client need not stay, and nobody need announce or shut down.
FairSpec ==
  /\ Spec /\ WF_vars(Handler) /\ WF_vars(Writer) /\ WF_vars(Fallback)
  /\ \A s \in Sources : WF_vars(Relay(s))

-----------------------------------------------------------------------------
Writing == wpc \in {"drain", "write", "blocked", "select"}

\* A stream that is being written and has a live context is subscribed to both sources,
\* also when the fallback fires while the library starts the writer.
FedWhileLive ==
  Writing /\ ~cancelled => subs = Sources /\ \A s \in Sources : rpc[s] # "done"

\* Shutdown's one sweep misses no stream that has registered before it: such a stream,
\* when it is live, is in the registry and the sweep is still to come, or a goroutine
\* that has unregistered it is about to cancel it.  Only a stream that registers after
\* the sweep is left without anybody who would cancel it while its client stays.
CanBeCancelled ==
  ~cancelled /\ hpc \in {"spawn", "respond", "returned"} =>
    \/ registered /\ sweep \in {"none", "early"}
    \/ \E w \in {"writer", "fallback"} : cleanup[w] = <<"cancel">>

\* Nothing is lost on the way but to a backlog, and order is kept.
Under(s) ==
  {buf[s][i] : i \in DOMAIN buf[s]} \cup ({hand[s]} \ {0})
  \cup {e[2] : e \in {f \in {wire} \cup {merged[i] : i \in DOMAIN merged} : f[1] = s}}

Promise == INSTANCE LossyStream
             WITH pending <- [s \in Sources |-> Under(s)]
ImplementsLossyStream == Promise!Spec

\* While the client reads and the stream is live, no event is stuck in a queue: when
\* nothing new is announced everything reaches the client.
UnderWay == merged # <<>> \/ wire # None \/ \E s \in Sources : buf[s] # <<>> \/ hand[s] # 0
NothingStuck == UnderWay ~> ~UnderWay \/ cancelled \/ gone \/ wpc \in {"off", "blocked"}

\* Once the client is gone, the context cancelled or the registry swept with the stream
\* in it, every subscription, entry and goroutine of the stream ends, whether its writer
\* ever ran or not.  Two cases are excepted: a write blocked by a stalled client, and a
\* writer that has not run when Shutdown cancels the stream, upon which the fallback
\* returns without cleaning up.  An early sweep ends nothing.
Over ==
  /\ subs = {} /\ ~registered /\ cancelled /\ fpc = "done"
  /\ \A s \in Sources : rpc[s] = "done"
LeftToWriter ==
  wpc = "off" /\ fpc = "done" /\ cleanup["fallback"] = FallbackCleanup
StreamEnds ==
  gone \/ cancelled \/ sweep = "late" ~> Over \/ wpc = "blocked" \/ LeftToWriter
=============================================================================
