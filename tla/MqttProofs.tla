------------------------------ MODULE MqttProofs ------------------------------
(***************************************************************************)
(* The connect loop, the handlers and Publish of MqttClient, for any       *)
(* number of losses and failures.                                          *)
(***************************************************************************)
EXTENDS MqttClient, TLAPS

\* A failed attempt leaves the library off until the loop calls Connect again.
IInv ==
  /\ paho \in {"off", "dialing", "up", "reconnecting"}
  /\ lpc \in {"check", "connect", "retry"} => paho = "off"
  /\ lpc = "dial" /\ token = "error" => paho = "off"
  /\ paho = "dialing" => token = "none"

LEMMA LoopInit == Init => IInv
BY DEF Init, IInv

LEMMA LoopKept == IInv /\ [Next]_vars => IInv'
<1> SUFFICES ASSUME IInv, [Next]_vars PROVE IInv'
  OBVIOUS
<1> USE DEF IInv, external
<1>1. CASE LoopStep
  BY <1>1 DEF LoopStep, LoopCheck, LoopConnect, LoopToken, AfterToken, LoopRetries,
              LoopCancelled
<1>2. CASE CallStop \/ StopStep
  BY <1>2 DEF CallStop, StopStep, StopCancels, StopDisconnects, StopJoins
<1>3. CASE Callback
  BY <1>3 DEF Callback, OnConnectStores, OnConnectSubscribes, OnConnectionLost
<1>4. CASE DialSucceeds
  BY <1>4 DEF DialSucceeds
<1>5. CASE DialFails
  BY <1>5 DEF DialFails
<1>6. CASE ConnectionLost
  BY <1>6 DEF ConnectionLost
<1>7. CASE Reconnected
  BY <1>7 DEF Reconnected
<1>8. CASE CallPublish \/ PublishStep \/ TextSent
  BY <1>8 DEF CallPublish, PublishStep, PublishHands, PublishReturns, TextSent, connection
<1>9. CASE UNCHANGED vars
  BY <1>9 DEF vars
<1> QED
  BY <1>1, <1>2, <1>3, <1>4, <1>5, <1>6, <1>7, <1>8, <1>9 DEF Next

\* ConnectsWhenOff: Connect is never called on a client that is connected, connecting
\* or reconnecting, however often attempts fail and Stop interferes.
THEOREM ConnectOnlyWhenOff == Spec => []ConnectsWhenOff
<1>1. IInv => ConnectsWhenOff
  BY DEF IInv, ConnectsWhenOff
<1> QED BY <1>1, LoopInit, LoopKept, PTL DEF Spec

-----------------------------------------------------------------------------
(* Publish.                                                                *)

PInv ==
  /\ ptoken \in {"none", "ok", "error"}
  /\ ptoken = "ok" => text \in {"sent", "skipped"}
  /\ pub = "nil" => text \in {"sent", "skipped"}

LEMMA PublishInit == Init => PInv
BY DEF Init, PInv

LEMMA PublishKept == PInv /\ [Next]_vars => PInv'
<1> SUFFICES ASSUME PInv, [Next]_vars PROVE PInv'
  OBVIOUS
<1> USE DEF PInv, publisher
<1>1. CASE LoopStep
  BY <1>1 DEF LoopStep, LoopCheck, LoopConnect, LoopToken, LoopRetries, LoopCancelled
<1>2. CASE StopDisconnects
  BY <1>2 DEF StopDisconnects, LosesText
<1>3. CASE CallStop \/ StopCancels \/ StopJoins
  BY <1>3 DEF CallStop, StopCancels, StopJoins
<1>4. CASE Callback
  BY <1>4 DEF Callback, OnConnectStores, OnConnectSubscribes, OnConnectionLost
<1>5. CASE DialSucceeds \/ DialFails \/ Reconnected
  BY <1>5 DEF DialSucceeds, DialFails, Reconnected
<1>6. CASE ConnectionLost
  BY <1>6 DEF ConnectionLost, LosesText
<1>7. CASE CallPublish \/ PublishHands
  BY <1>7 DEF CallPublish, PublishHands
<1>8. CASE PublishReturns
  <2>1. pub' = "nil" => ptoken = "ok"
    BY <1>8 DEF PublishReturns, OnTimeout
  <2> QED
    BY <1>8, <2>1 DEF PublishReturns
<1>9. CASE TextSent
  BY <1>9 DEF TextSent
<1>10. CASE UNCHANGED vars
  BY <1>10 DEF vars
<1> QED
  BY <1>1, <1>2, <1>3, <1>4, <1>5, <1>6, <1>7, <1>8, <1>9, <1>10
     DEF Next, StopStep, PublishStep

\* NilMeansSent: whatever the connection does between Connected, the library's Publish
\* and the token, Publish returns nil only for a text sent or skipped while reconnecting.
THEOREM PublishTellsTheTruth == Spec => []NilMeansSent
<1>1. PInv => NilMeansSent
  BY DEF PInv, NilMeansSent
<1> QED BY <1>1, PublishInit, PublishKept, PTL DEF Spec

-----------------------------------------------------------------------------
(* Types: at most one handler per connection established.                  *)

\* Connect succeeds at most once; each later connection replaces one that was lost.
NotYetUp == \/ lpc \in {"check", "connect", "retry"} \/ paho = "dialing"
            \/ lpc = "dial" /\ token = "error"

TInv ==
  /\ connCbs \in Nat /\ subCbs \in Nat /\ lostCbs \in Nat /\ drops \in Nat
  /\ connCbs + subCbs <= drops + 1
  /\ lostCbs <= drops /\ drops <= MaxDrops
  /\ paho = "reconnecting" => connCbs + subCbs <= drops
  /\ NotYetUp => connCbs = 0 /\ subCbs = 0 /\ drops = 0

Typed ==
  /\ lpc \in {"check", "connect", "dial", "retry", "parked", "done"}
  /\ stop \in {"none", "cancel", "disconnect", "join", "returned"}
  /\ token \in {"none", "ok", "error"}
  /\ {cancelled, connected, subscribed, refused} \subseteq BOOLEAN
  /\ failures \in 0 .. MaxFailures /\ ptoken \in {"none", "ok", "error"}
  /\ pub \in {"idle", "hand", "wait", "nil", "error"}
  /\ text \in {"none", "queued", "sent", "skipped", "lost"}

LEMMA CountersInit == Init => TInv /\ Typed
<1>1. Init => TInv
  BY BoundsAssumption DEF Init, TInv
<1>2. Init => Typed
  <2> SUFFICES ASSUME Init PROVE Typed
    OBVIOUS
  <2>1. {cancelled, connected, subscribed, refused} \subseteq BOOLEAN
    BY DEF Init
  <2>2. failures \in 0 .. MaxFailures
    BY BoundsAssumption DEF Init
  <2> QED
    BY <2>1, <2>2 DEF Init, Typed
<1> QED BY <1>1, <1>2

LEMMA CountersKept == IInv /\ TInv /\ Typed /\ [Next]_vars => TInv'
<1> SUFFICES ASSUME IInv, TInv, Typed, [Next]_vars PROVE TInv'
  OBVIOUS
<1> USE BoundsAssumption DEF IInv, TInv, NotYetUp, Typed, external
<1>1. CASE LoopStep
  BY <1>1 DEF LoopStep, LoopCheck, LoopConnect, LoopToken, AfterToken, LoopRetries,
              LoopCancelled
<1>2. CASE CallStop \/ StopStep
  BY <1>2 DEF CallStop, StopStep, StopCancels, StopDisconnects, StopJoins
<1>3. CASE OnConnectStores
  BY <1>3 DEF OnConnectStores, SubscribesToDo
<1>4. CASE OnConnectSubscribes \/ OnConnectionLost
  BY <1>4 DEF OnConnectSubscribes, OnConnectionLost
<1>5. CASE DialSucceeds
  BY <1>5 DEF DialSucceeds
<1>6. CASE DialFails
  BY <1>6 DEF DialFails
<1>7. CASE ConnectionLost
  BY <1>7 DEF ConnectionLost
<1>8. CASE Reconnected
  BY <1>8 DEF Reconnected
<1>9. CASE CallPublish \/ PublishStep \/ TextSent
  BY <1>9 DEF CallPublish, PublishStep, PublishHands, PublishReturns, TextSent, connection
<1>10. CASE UNCHANGED vars
  BY <1>10 DEF vars
<1> QED
  BY <1>1, <1>2, <1>3, <1>4, <1>5, <1>6, <1>7, <1>8, <1>9, <1>10 DEF Next, Callback

LEMMA TypesKept == Typed /\ [Next]_vars => Typed'
<1> SUFFICES ASSUME Typed, [Next]_vars PROVE Typed'
  OBVIOUS
<1> USE BoundsAssumption DEF Typed, external, publisher
<1>1. CASE LoopStep
  BY <1>1 DEF LoopStep, LoopCheck, LoopConnect, LoopToken, AfterToken, LoopRetries,
              LoopCancelled
<1>2. CASE CallStop \/ StopStep
  BY <1>2 DEF CallStop, StopStep, StopCancels, StopDisconnects, StopJoins, LosesText
<1>3. CASE Callback
  BY <1>3 DEF Callback, OnConnectStores, OnConnectSubscribes, OnConnectionLost
<1>4. CASE DialSucceeds \/ Reconnected
  BY <1>4 DEF DialSucceeds, Reconnected
<1>5. CASE DialFails
  <2>1. failures' \in 0 .. MaxFailures
    BY <1>5 DEF DialFails
  <2> QED
    BY <1>5, <2>1 DEF DialFails
<1>6. CASE ConnectionLost
  BY <1>6 DEF ConnectionLost, LosesText
<1>7. CASE CallPublish \/ PublishStep \/ TextSent
  BY <1>7 DEF CallPublish, PublishStep, PublishHands, PublishReturns, OnTimeout, TextSent,
              connection
<1>8. CASE UNCHANGED vars
  BY <1>8 DEF vars
<1> QED
  BY <1>1, <1>2, <1>3, <1>4, <1>5, <1>6, <1>7, <1>8 DEF Next

\* TypeOK: handlers never pile up past one per connection, however long they are delayed.
THEOREM HandlersAreBounded == Spec => []TypeOK
<1>1. IInv /\ TInv /\ Typed => TypeOK
  BY BoundsAssumption DEF IInv, TInv, Typed, TypeOK
<1> QED
  BY <1>1, LoopInit, LoopKept, CountersInit, CountersKept, TypesKept, PTL DEF Spec

-----------------------------------------------------------------------------
(* The subscription and the flag.                                          *)

\* What makes Resubscribes possible: a connection that is neither subscribed nor refused
\* has a handler that is still to subscribe, however the handlers of earlier connections
\* were delayed.
SubscribesYet == paho = "up" => subscribed \/ refused \/ connCbs + subCbs > 0

LEMMA SubscribesKept ==
  TInv /\ TInv' /\ SubscribesYet /\ [Next]_vars => SubscribesYet'
<1> SUFFICES ASSUME TInv, TInv', SubscribesYet, [Next]_vars PROVE SubscribesYet'
  OBVIOUS
<1> USE DEF TInv, SubscribesYet, external
<1>1. CASE LoopStep
  BY <1>1 DEF LoopStep, LoopCheck, LoopConnect, LoopToken, LoopRetries, LoopCancelled
<1>2. CASE CallStop \/ StopStep
  BY <1>2 DEF CallStop, StopStep, StopCancels, StopDisconnects, StopJoins
<1>3. CASE OnConnectStores
  BY <1>3 DEF OnConnectStores, SubscribesToDo
<1>4. CASE OnConnectSubscribes \/ OnConnectionLost
  BY <1>4 DEF OnConnectSubscribes, OnConnectionLost
<1>5. CASE DialSucceeds \/ DialFails \/ ConnectionLost \/ Reconnected
  <2>1. paho' = "up" => connCbs' = connCbs + 1 /\ subCbs' = subCbs
    BY <1>5 DEF DialSucceeds, DialFails, ConnectionLost, Reconnected
  <2> QED
    BY <2>1
<1>6. CASE CallPublish \/ PublishStep \/ TextSent
  BY <1>6 DEF CallPublish, PublishStep, PublishHands, PublishReturns, TextSent, connection
<1>7. CASE UNCHANGED vars
  BY <1>7 DEF vars
<1> QED
  BY <1>1, <1>2, <1>3, <1>4, <1>5, <1>6, <1>7 DEF Next, Callback

\* No connection is forgotten by the handlers, through any number of losses.
THEOREM SubscriptionNeverForgotten == Spec => []SubscribesYet
<1>1. Init => SubscribesYet
  BY DEF Init, SubscribesYet
<1> QED
  BY <1>1, LoopInit, LoopKept, CountersInit, CountersKept, TypesKept, SubscribesKept, PTL
     DEF Spec

\* Before the first loss handlers cannot run in the wrong order: the flag that Connected
\* reports is right as soon as OnConnect has stored it, until Stop disconnects.
RightBeforeLoss ==
  drops = 0 /\ connCbs = 0 /\ stop \notin {"join", "returned"}
    => (connected <=> paho = "up")

FlagInv ==
  drops = 0 /\ stop \notin {"join", "returned"} =>
    /\ lostCbs = 0 /\ paho # "reconnecting"
    /\ connected \/ connCbs > 0 <=> paho = "up"

LEMMA FlagKept == IInv /\ TInv /\ Typed /\ TInv' /\ FlagInv /\ [Next]_vars => FlagInv'
<1> SUFFICES ASSUME IInv, TInv, Typed, TInv', FlagInv, [Next]_vars PROVE FlagInv'
  OBVIOUS
<1> USE DEF IInv, TInv, NotYetUp, Typed, FlagInv, external
<1>1. CASE LoopStep
  BY <1>1 DEF LoopStep, LoopCheck, LoopConnect, LoopToken, LoopRetries, LoopCancelled
<1>2. CASE CallStop \/ StopStep
  BY <1>2 DEF CallStop, StopStep, StopCancels, StopDisconnects, StopJoins
<1>3. CASE OnConnectStores
  BY <1>3 DEF OnConnectStores
<1>4. CASE OnConnectSubscribes \/ OnConnectionLost
  BY <1>4 DEF OnConnectSubscribes, OnConnectionLost
<1>5. CASE DialSucceeds \/ DialFails \/ Reconnected
  BY <1>5 DEF DialSucceeds, DialFails, Reconnected
<1>6. CASE ConnectionLost
  BY <1>6 DEF ConnectionLost
<1>7. CASE CallPublish \/ PublishStep \/ TextSent
  BY <1>7 DEF CallPublish, PublishStep, PublishHands, PublishReturns, TextSent, connection
<1>8. CASE UNCHANGED vars
  BY <1>8 DEF vars
<1> QED
  BY <1>1, <1>2, <1>3, <1>4, <1>5, <1>6, <1>7, <1>8 DEF Next, Callback

\* What is left of ConnectedIsCurrent: only a loss can make the flag wrong.
THEOREM FlagRightBeforeLoss == Spec => []RightBeforeLoss
<1>1. Init => FlagInv
  BY DEF Init, FlagInv
<1>2. TInv /\ FlagInv => RightBeforeLoss
  BY DEF TInv, FlagInv, RightBeforeLoss
<1> QED
  BY <1>1, <1>2, LoopInit, LoopKept, CountersInit, CountersKept, TypesKept, FlagKept, PTL
     DEF Spec

\* The goroutine of Start is over only when Stop has cancelled it, it waits for a token
\* only while an attempt is under way that completes it, and it parks only on a client
\* that is connected or reconnects by itself, until Stop.
NeverGivesUp ==
  /\ lpc = "done" => cancelled
  /\ lpc = "dial" /\ token = "none" => paho = "dialing"
  /\ lpc = "parked" => paho \in {"up", "reconnecting"} \/ cancelled
  /\ stop = "returned" => lpc = "done"

ParkInv ==
  /\ NeverGivesUp
  /\ stop \in {"disconnect", "join", "returned"} => cancelled
  /\ lpc = "parked" => token = "ok"
  /\ lpc = "dial" /\ token = "ok" => paho \in {"up", "reconnecting"} \/ cancelled

LEMMA ParkKept == IInv /\ Typed /\ ParkInv /\ [Next]_vars => ParkInv'
<1> SUFFICES ASSUME IInv, Typed, ParkInv, [Next]_vars PROVE ParkInv'
  OBVIOUS
<1> USE DEF IInv, Typed, ParkInv, NeverGivesUp, external
<1>1. CASE LoopCheck \/ LoopConnect \/ LoopRetries
  BY <1>1 DEF LoopCheck, LoopConnect, LoopRetries
<1>2. CASE LoopToken
  BY <1>2 DEF LoopToken, AfterToken
<1>3. CASE LoopCancelled
  BY <1>3 DEF LoopCancelled
<1>4. CASE CallStop \/ StopStep
  BY <1>4 DEF CallStop, StopStep, StopCancels, StopDisconnects, StopJoins
<1>5. CASE Callback
  BY <1>5 DEF Callback, OnConnectStores, OnConnectSubscribes, OnConnectionLost
<1>6. CASE DialSucceeds \/ DialFails \/ ConnectionLost \/ Reconnected
  BY <1>6 DEF DialSucceeds, DialFails, ConnectionLost, Reconnected
<1>7. CASE CallPublish \/ PublishStep \/ TextSent
  BY <1>7 DEF CallPublish, PublishStep, PublishHands, PublishReturns, TextSent, connection
<1>8. CASE UNCHANGED vars
  BY <1>8 DEF vars
<1> QED
  BY <1>1, <1>2, <1>3, <1>4, <1>5, <1>6, <1>7, <1>8 DEF Next, LoopStep

\* What makes KeepsTrying and StopReturns possible: the loop never ends or waits without
\* a reason that is still there, whatever fails and whenever Stop is called.
THEOREM LoopNeverGivesUp == Spec => []NeverGivesUp
<1>1. Init => ParkInv
  BY DEF Init, ParkInv, NeverGivesUp
<1>2. ParkInv => NeverGivesUp
  BY DEF ParkInv
<1> QED
  BY <1>1, <1>2, LoopInit, LoopKept, CountersInit, TypesKept, ParkKept, PTL DEF Spec
=============================================================================
