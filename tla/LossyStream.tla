------------------------------ MODULE LossyStream ------------------------------
(***************************************************************************)
(* What an event stream promises its client.  The events of every source   *)
(* are numbered in the order they were announced and arrive in that order, *)
(* each at most once.  An event is lost only to a backlog: Capacity newer  *)
(* ones of its own source have not arrived either, or more than            *)
(* MergedCapacity events of all sources, and then no older one of its      *)
(* source is under way but the one being written.                          *)
(***************************************************************************)
EXTENDS Naturals, FiniteSets

CONSTANTS Sources, Capacity, MergedCapacity

VARIABLES sent,     \* per source, events announced so far
          pending,  \* per source, those under way to the client
          last      \* per source, the event that arrived last, 0 before the first

Init ==
  /\ sent = [s \in Sources |-> 0] /\ last = sent
  /\ pending = [s \in Sources |-> {}]

Oldest(s)  == {n \in pending[s] : \A m \in pending[s] : n <= m}
Overrun(s) == {n \in pending[s] : Cardinality({m \in pending[s] : m > n}) + 1 >= Capacity[s]}
NextTwo(s) == {n \in pending[s] : Cardinality({m \in pending[s] : m < n}) <= 1}
Backlog    == UNION {{s} \X pending[s] : s \in Sources}

\* Announcing an event may cost an older one of the same source.
Send(s) ==
  /\ sent' = [sent EXCEPT ![s] = @ + 1]
  /\ \E dropped \in SUBSET Overrun(s) :
       /\ Cardinality(dropped) <= 1
       /\ pending' = [pending EXCEPT ![s] = (@ \ dropped) \cup {sent[s] + 1}]
  /\ UNCHANGED last

Lose(s) ==
  /\ UNCHANGED <<sent, last>>
  /\ \E n \in NextTwo(s) : pending' = [pending EXCEPT ![s] = @ \ {n}]
  /\ Cardinality(Backlog) > MergedCapacity

Receive(s) ==
  /\ \E n \in Oldest(s) : /\ last' = [last EXCEPT ![s] = n]
                          /\ pending' = [pending EXCEPT ![s] = @ \ {n}]
  /\ UNCHANGED sent

Next == \E s \in Sources : Send(s) \/ Lose(s) \/ Receive(s)

Spec == Init /\ [][Next]_<<sent, pending, last>>
=============================================================================
