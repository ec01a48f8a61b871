------------------------------ MODULE QueueOrder ------------------------------
(***************************************************************************)
(* Two orders of the active messages: the one the scheduler selects by and *)
(* the one the queue is shown in.  They are written apart in the code, and *)
(* differ in the creation time: the selection compares instants, the queue *)
(* compares texts of local time to the second.                             *)
(***************************************************************************)
EXTENDS Integers, TLAPS

CONSTANT Offset(_)  \* of an instant, what the local clock is ahead of it, in seconds

\* An instant is in nanoseconds.
Messages == [priority : {"normal", "high"}, count : Nat, createdAt : Int]

PriorityRank(p)     == IF p = "high" THEN 1 ELSE 0
PrioritySortRank(p) == IF p = "high" THEN 0 ELSE 1

\* The text of createdAt is ordered as the second it names.
LocalSecond(m) == m.createdAt \div 1000000000 + Offset(m.createdAt)

SelectedBefore(m, o) ==
  LET rm == -PriorityRank(m.priority)
      ro == -PriorityRank(o.priority)
  IN  \/ rm < ro
      \/ rm = ro /\ m.count < o.count
      \/ rm = ro /\ m.count = o.count /\ m.createdAt < o.createdAt

ShownBefore(m, o) ==
  LET rm == PrioritySortRank(m.priority)
      ro == PrioritySortRank(o.priority)
  IN  \/ rm < ro
      \/ rm = ro /\ m.count < o.count
      \/ rm = ro /\ m.count = o.count /\ LocalSecond(m) < LocalSecond(o)

-----------------------------------------------------------------------------
\* SelectNextMessage: sort.SliceStable gets a strict order that leaves no choice between
\* messages created at different instants, so the message selected does not depend on
\* the random order in which the store lists them.
THEOREM SelectionIsDetermined ==
  ASSUME NEW m \in Messages, NEW o \in Messages, NEW n \in Messages
  PROVE  /\ ~SelectedBefore(m, m)
         /\ SelectedBefore(m, o) /\ SelectedBefore(o, n) => SelectedBefore(m, n)
         /\ m.createdAt # o.createdAt => SelectedBefore(m, o) \/ SelectedBefore(o, m)
BY DEF Messages, SelectedBefore, PriorityRank

LEMMA LocalSecondType ==
  ASSUME NEW m \in Messages, Offset(m.createdAt) \in Int PROVE LocalSecond(m) \in Int
BY DEF Messages, LocalSecond

\* QueueSnapshot: its comparison too is one that sort.SliceStable may be given, whatever
\* the local clock did: messages it does not order form classes.
THEOREM QueueIsOrdered ==
  ASSUME NEW m \in Messages, NEW o \in Messages, NEW n \in Messages,
         \A t \in Int : Offset(t) \in Int
  PROVE  /\ ~ShownBefore(m, m)
         /\ ShownBefore(m, o) /\ ShownBefore(o, n) => ShownBefore(m, n)
         /\ ShownBefore(m, n) => ShownBefore(m, o) \/ ShownBefore(o, n)
<1>1. LocalSecond(m) \in Int /\ LocalSecond(o) \in Int /\ LocalSecond(n) \in Int
  BY LocalSecondType DEF Messages
<1> QED
  BY <1>1 DEF Messages, ShownBefore, PrioritySortRank

\* QueueSnapshot and SelectNextMessage: while the local clock does not change its offset,
\* the queue never shows two messages in the opposite order of their selection, and
\* leaves open only the order of messages created within the same second.
THEOREM QueueShowsSelection ==
  ASSUME NEW m \in Messages, NEW o \in Messages,
         Offset(m.createdAt) \in Int, Offset(o.createdAt) = Offset(m.createdAt)
  PROVE  /\ ShownBefore(m, o) => SelectedBefore(m, o)
         /\ SelectedBefore(m, o) =>
              \/ ShownBefore(m, o)
              \/ /\ m.priority = o.priority /\ m.count = o.count
                 /\ m.createdAt \div 1000000000 = o.createdAt \div 1000000000
<1> DEFINE sm == m.createdAt \div 1000000000
           so == o.createdAt \div 1000000000
<1>1. /\ m.createdAt \in Int /\ o.createdAt \in Int /\ sm \in Int /\ so \in Int
      /\ m.count \in Nat /\ o.count \in Nat
      /\ m.priority \in {"normal", "high"} /\ o.priority \in {"normal", "high"}
  BY DEF Messages
<1>2. sm < so => m.createdAt < o.createdAt
  BY <1>1
<1>3. m.createdAt < o.createdAt => sm <= so
  BY <1>1
<1>4. LocalSecond(m) < LocalSecond(o) <=> sm < so
  <2> HIDE DEF sm, so
  <2>1. LocalSecond(m) = sm + Offset(m.createdAt) /\ LocalSecond(o) = so + Offset(m.createdAt)
    BY DEF LocalSecond, sm, so
  <2> QED
    BY <1>1, <2>1
<1> HIDE DEF sm, so
<1>5. ShownBefore(m, o) => SelectedBefore(m, o)
  BY <1>1, <1>2, <1>4 DEF ShownBefore, SelectedBefore, PriorityRank, PrioritySortRank
<1>6. SelectedBefore(m, o) => ShownBefore(m, o)
                              \/ (m.priority = o.priority /\ m.count = o.count /\ sm = so)
  BY <1>1, <1>3, <1>4 DEF ShownBefore, SelectedBefore, PriorityRank, PrioritySortRank
<1> QED
  BY <1>5, <1>6 DEF sm, so

\* The message the queue shows before all others is the one the next tick selects.
THEOREM FirstShownIsNext ==
  ASSUME NEW Active \in SUBSET Messages, NEW m \in Active,
         \A o \in Active : Offset(o.createdAt) = Offset(m.createdAt),
         Offset(m.createdAt) \in Int,
         \A o \in Active \ {m} : ShownBefore(m, o)
  PROVE  \A o \in Active \ {m} : SelectedBefore(m, o)
BY QueueShowsSelection
=============================================================================
