----------------------------- MODULE MessageBoard -----------------------------
(***************************************************************************)
(* What the scheduler promises for the messages it accepts.  They are      *)
(* chosen one at a time, the highest rank first, within a rank the one     *)
(* shown least, then the oldest.  Each is shown exactly as often as it     *)
(* wants, unless it is deleted: then at most once more, if it had been     *)
(* chosen before.  A message that is done never comes back.                *)
(***************************************************************************)
EXTENDS Integers, FiniteSets

CONSTANTS Messages,  \* numbered in the order of their creation
          Limit,     \* how many may wait at once
          None

VARIABLES state,         \* per message, "new", "waiting" or "done"
          wanted, rank,  \* per message, how often it is to be shown, and its rank
          shows,         \* per message, how often it was shown
          phase, choice  \* of the board, and the message chosen or shown

vars == <<state, wanted, rank, shows, phase, choice>>

Init ==
  /\ state = [m \in Messages |-> "new"]
  /\ wanted = [m \in Messages |-> 0] /\ rank = wanted /\ shows = wanted
  /\ phase = "free" /\ choice = None

Waiting == {m \in Messages : state[m] = "waiting"}

Precedes(m, o) ==
  \/ rank[m] > rank[o]
  \/ rank[m] = rank[o] /\ (shows[m] < shows[o] \/ (shows[m] = shows[o] /\ m < o))

\* A message comes with what it wants and keeps it.
Accept(m) ==
  /\ state[m] = "new" /\ Cardinality(Waiting) < Limit
  /\ state' = [state EXCEPT ![m] = "waiting"]
  /\ wanted'[m] \in Nat \ {0} /\ wanted' = [wanted EXCEPT ![m] = wanted'[m]]
  /\ rank'[m] \in {0, 1} /\ rank' = [rank EXCEPT ![m] = rank'[m]]
  /\ UNCHANGED <<shows, phase, choice>>

Delete(m) ==
  /\ state[m] = "waiting" /\ state' = [state EXCEPT ![m] = "done"]
  /\ UNCHANGED <<wanted, rank, shows, phase, choice>>

Choose(m) ==
  /\ phase = "free" /\ state[m] = "waiting" /\ shows[m] < wanted[m]
  /\ \A o \in Waiting \ {m} : Precedes(m, o)
  /\ phase' = "chosen" /\ choice' = m
  /\ UNCHANGED <<state, wanted, rank, shows>>

Show ==
  /\ phase = "chosen" /\ phase' = "showing"
  /\ shows' = [shows EXCEPT ![choice] = @ + 1]
  /\ UNCHANGED <<state, wanted, rank, choice>>

\* It could not be shown and waits on.
Miss ==
  /\ phase = "chosen" /\ phase' = "free" /\ choice' = None
  /\ UNCHANGED <<state, wanted, rank, shows>>

\* Its time is over; with the last show it is done.
Rest ==
  /\ phase = "showing" /\ phase' = "free" /\ choice' = None
  /\ state' = IF state[choice] = "waiting" /\ shows[choice] = wanted[choice]
              THEN [state EXCEPT ![choice] = "done"] ELSE state
  /\ UNCHANGED <<wanted, rank, shows>>

Halt ==
  /\ phase \in {"free", "showing"} /\ phase' = "halted" /\ choice' = None
  /\ UNCHANGED <<state, wanted, rank, shows>>

Next == \/ \E m \in Messages : Accept(m) \/ Delete(m) \/ Choose(m)
        \/ Show \/ Miss \/ Rest \/ Halt

Spec == Init /\ [][Next]_vars
=============================================================================
