-------------------------------- MODULE Queue --------------------------------
(***************************************************************************)
(* One subscriber queue: producers that push under the queue's lock and    *)
(* signal after releasing it, and the one consumer (a relay goroutine or   *)
(* the SSE writer) that takes the notification and pops until empty.       *)
(* An event is its number in the order of the pushes.                      *)
(***************************************************************************)
EXTENDS Naturals, Sequences

CONSTANTS Producers,  \* the goroutines that push
          Capacity,   \* cap: 500, 100 or 1000; New raises anything below 1 to 1
          MaxEvents   \* BOUND of the runs: how many events are ever pushed

ASSUME CapacityAssumption == Capacity \in Nat \ {0}
ASSUME MaxEventsAssumption == MaxEvents \in Nat

VARIABLES
  buf,     \* Queue.buf
  token,   \* whether the one-slot notify channel holds a signal
  ppc,     \* where each producer is in Push
  cpc,     \* where the consumer's loop is
  sent,    \* history variable: events pushed so far
  last     \* history variable: the event popped last

vars == <<buf, token, ppc, cpc, sent, last>>

TypeOK ==
  /\ buf \in Seq(Nat) /\ Len(buf) <= Capacity
  /\ token \in BOOLEAN
  /\ ppc \in [Producers -> {"idle", "signal"}]
  /\ cpc \in {"wait", "drain", "gone"}
  /\ sent \in Nat /\ last \in Nat

\* A relay starts by waiting; the writer first pops what is already buffered.
Init ==
  /\ buf = <<>> /\ token = FALSE /\ sent = 0 /\ last = 0
  /\ ppc = [p \in Producers |-> "idle"] /\ cpc \in {"wait", "drain"}

\* Mutants: a full queue keeps everything, or gives up its newest event.
DropNone(s)   == s
DropNewest(s) == SubSeq(s, 1, Capacity - 1)
DropOldest(s) == Tail(s)

Push(p) ==
  /\ ppc[p] = "idle" /\ sent < MaxEvents
  /\ sent' = sent + 1
  /\ buf' = Append(IF Len(buf) < Capacity THEN buf ELSE DropOldest(buf), sent + 1)
  /\ ppc' = [ppc EXCEPT ![p] = "signal"]
  /\ UNCHANGED <<token, cpc, last>>

Signal(p) ==
  /\ ppc[p] = "signal"
  /\ token' = TRUE
  /\ ppc' = [ppc EXCEPT ![p] = "idle"]
  /\ UNCHANGED <<buf, cpc, sent, last>>

Notified ==
  /\ cpc = "wait" /\ token
  /\ token' = FALSE /\ cpc' = "drain"
  /\ UNCHANGED <<buf, ppc, sent, last>>

\* Mutant: one event per notification.
BackToWait == "wait"
AfterPop   == "drain"

Pop ==
  /\ cpc = "drain" /\ buf # <<>>
  /\ last' = Head(buf) /\ buf' = Tail(buf) /\ cpc' = AfterPop
  /\ UNCHANGED <<token, ppc, sent>>

FoundEmpty ==
  /\ cpc = "drain" /\ buf = <<>>
  /\ cpc' = "wait"
  /\ UNCHANGED <<buf, token, ppc, sent, last>>

\* The stream's context is cancelled, or writing an event failed: the consumer
\* returns; producers may still hold the queue and push.
Cancel ==
  /\ cpc # "gone" /\ cpc' = "gone"
  /\ UNCHANGED <<buf, token, ppc, sent, last>>

Consume == Notified \/ Pop \/ FoundEmpty

Next == (\E p \in Producers : Push(p) \/ Signal(p)) \/ Consume \/ Cancel

Spec == Init /\ [][Next]_vars

\* Goroutines run; a producer is not obliged to push.
FairSpec == Spec /\ WF_vars(Consume) /\ \A p \in Producers : WF_vars(Signal(p))

-----------------------------------------------------------------------------
\* Push unlocks before it signals and signals collapse, yet no buffered event is
\* left behind a consumer that waits without a notification under way.
NoLostNotification ==
  buf # <<>> /\ cpc = "wait" => token \/ \E p \in Producers : ppc[p] = "signal"

\* The consumer sees the events in order and misses only what Capacity newer
\* ones have pushed out.
Fifo == INSTANCE LossyFifo WITH Capacity <- Capacity, sent <- sent, last <- last
ImplementsLossyFifo == Fifo!Spec

\* What is pushed is received, or pushed out by later events, or the stream ends.
EveryEventLeaves ==
  \A n \in 1 .. MaxEvents :
    sent >= n ~> (last >= n \/ sent >= n + Capacity \/ cpc = "gone")
=============================================================================
