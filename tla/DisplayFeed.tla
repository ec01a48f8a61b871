----------------------------- MODULE DisplayFeed -----------------------------
(***************************************************************************)
(* The feedback of the physical display: handleMessage receives what the   *)
(* display reports, keeps the latest payload and a bounded history, and    *)
(* pushes the payload to the display-state subscribers it collects.        *)
(* Payloads are numbered in the order in which they arrive; paho delivers  *)
(* them in order, one handler call after the other.  A subscriber's queue  *)
(* keeps order and never drops the newest event (module Queue), so what    *)
(* its client shows is the event pushed last.                              *)
(***************************************************************************)
EXTENDS Naturals, Sequences

CONSTANTS Subs,        \* display-state subscribers
          Capacity,    \* size of the history, 500 in the code
          MaxPayloads  \* BOUND: payloads received

ASSUME CapacityAssumption == Capacity \in Nat \ {0}
ASSUME BoundAssumption    == MaxPayloads \in Nat

VARIABLES
  latest,    \* Client.latest, 0 for nil
  history,   \* Client.history
  hpc, to,   \* handleMessage: its place, and the subscribers it has still to push to
  spc,       \* per subscriber, where SubscribeDisplayState is
  seed,      \* per subscriber, the latest payload it read
  shown,     \* per subscriber, what its client shows
  gap        \* history variable: the subscribers that were between their seed and
             \* their registration when the latest payload arrived

subVars == <<spc, seed, shown>>
vars    == <<latest, history, hpc, to, gap, subVars>>

Payloads == 0 .. MaxPayloads

TypeOK ==
  /\ latest \in Payloads /\ history \in Seq(Payloads) /\ Len(history) <= Capacity
  /\ hpc \in {"idle", "collect", "push"} /\ to \subseteq Subs
  /\ spc \in [Subs -> {"off", "push", "register", "on", "gone"}]
  /\ {seed, shown} \subseteq [Subs -> Payloads] /\ gap \subseteq Subs

Init ==
  /\ latest = 0 /\ history = <<>> /\ hpc = "idle" /\ to = {}
  /\ spc = [s \in Subs |-> "off"]
  /\ seed = [s \in Subs |-> 0] /\ shown = seed /\ gap = {}

-----------------------------------------------------------------------------
(* handleMessage.                                                          *)

\* Mutants: the history outgrows its size; the newest entry is dropped.
OffByOne(h)   == IF Len(h) > Capacity THEN Tail(h) ELSE h
DropNewest(h) == IF Len(h) >= Capacity THEN SubSeq(h, 1, Capacity - 1) ELSE h
MakeRoom(h)   == IF Len(h) >= Capacity THEN Tail(h) ELSE h

Receive ==
  /\ hpc = "idle" /\ latest < MaxPayloads /\ hpc' = "collect"
  /\ latest' = latest + 1 /\ history' = Append(MakeRoom(history), latest + 1)
  /\ gap' = {s \in Subs : spc[s] \in {"push", "register"}}
  /\ UNCHANGED <<to, subVars>>

\* Where a subscriber is in the set.  Mutant: it registers before its seed.
InFromTheStart   == {"push", "register", "on"}
InOnceRegistered == {"on"}

Collect ==
  /\ hpc = "collect" /\ hpc' = "push"
  /\ to' = {s \in Subs : spc[s] \in InOnceRegistered}
  /\ UNCHANGED <<latest, history, gap, subVars>>

\* One subscriber after the other, in any order.
PushTo(s) ==
  /\ hpc = "push" /\ s \in to /\ to' = to \ {s}
  /\ shown' = [shown EXCEPT ![s] = latest]
  /\ UNCHANGED <<latest, history, hpc, spc, seed, gap>>

Return ==
  /\ hpc = "push" /\ to = {} /\ hpc' = "idle"
  /\ UNCHANGED <<latest, history, to, gap, subVars>>

-----------------------------------------------------------------------------
(* Subscribers.  A client that comes back is another member of Subs.       *)

\* Mutant: only payloads still to come are pushed.
Unseeded == 0
SeedNow  == latest

SubscribeDisplayState(s) ==
  /\ spc[s] = "off" /\ spc' = [spc EXCEPT ![s] = "push"]
  /\ seed' = [seed EXCEPT ![s] = SeedNow]
  /\ UNCHANGED <<latest, history, hpc, to, shown, gap>>

\* Nothing is pushed when no payload was received yet.
PushSeed(s) ==
  /\ spc[s] = "push" /\ spc' = [spc EXCEPT ![s] = "register"]
  /\ shown' = IF seed[s] = 0 THEN shown ELSE [shown EXCEPT ![s] = seed[s]]
  /\ UNCHANGED <<latest, history, hpc, to, seed, gap>>

Register(s) ==
  /\ spc[s] = "register" /\ spc' = [spc EXCEPT ![s] = "on"]
  /\ UNCHANGED <<latest, history, hpc, to, seed, shown, gap>>

UnsubscribeDisplayState(s) ==
  /\ spc[s] = "on" /\ spc' = [spc EXCEPT ![s] = "gone"]
  /\ UNCHANGED <<latest, history, hpc, to, seed, shown, gap>>

HandleMessage == Receive \/ Collect \/ Return \/ \E s \in Subs : PushTo(s)

Subscriber(s) ==
  SubscribeDisplayState(s) \/ PushSeed(s) \/ Register(s) \/ UnsubscribeDisplayState(s)

Next == HandleMessage \/ \E s \in Subs : Subscriber(s)

Spec == Init /\ [][Next]_vars

-----------------------------------------------------------------------------
\* The history holds the newest payloads, oldest first, across the wrap at its size.
HistoryIsNewest ==
  /\ Len(history) = IF latest < Capacity THEN latest ELSE Capacity
  /\ \A i \in 1 .. Len(history) : history[i] = latest - Len(history) + i

\* Once handleMessage has returned a subscriber's client shows the latest payload,
\* unless that payload came between its seed and its registration; the next one
\* repairs it.
ShowsLatest ==
  hpc = "idle" => \A s \in Subs :
    spc[s] = "on" => shown[s] = latest \/ s \in gap

\* No client is shown an older payload after a newer one, its seed included.
NeverGoesBack == [][\A s \in Subs : shown'[s] >= shown[s]]_vars

=============================================================================
