------------------------------ MODULE LossyFifo ------------------------------
(***************************************************************************)
(* What a subscriber's queue promises, seen from its two ends: events are  *)
(* numbered in the order they were pushed; the consumer receives them in   *)
(* that order, each at most once, and misses one only when Capacity later  *)
(* ones have been pushed.  The newest Capacity events are never lost.      *)
(***************************************************************************)
EXTENDS Naturals

CONSTANT Capacity  \* a positive number

VARIABLES sent,  \* events pushed so far
          last   \* the event received last, 0 before the first

Init == sent = 0 /\ last = 0

Send == sent' = sent + 1 /\ UNCHANGED last

Receive ==
  /\ \E n \in last + 1 .. sent :
       /\ \A missed \in last + 1 .. n - 1 : missed + Capacity <= sent
       /\ last' = n
  /\ UNCHANGED sent

Next == Send \/ Receive

Spec == Init /\ [][Next]_<<sent, last>>
=============================================================================
