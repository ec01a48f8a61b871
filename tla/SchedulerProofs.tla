--------------------------- MODULE SchedulerProofs ---------------------------
(***************************************************************************)
(* What Scheduler promises for every number of handlers, every limit and   *)
(* every configured default, proved by induction over its steps.           *)
(***************************************************************************)
EXTENDS Scheduler, FiniteSetTheorems, FunctionTheorems, SequenceTheorems,
        WellFoundedInduction, TLAPS

USE DEF Id, NotRemoved

LEMMA HistoryTyped ==
  ASSUME NEW s \in Seq(Id), Len(s) <= MaxHistory, NEW m \in Id
  PROVE  <<m>> \o KeepRoom(s) \in Seq(Id) /\ Len(<<m>> \o KeepRoom(s)) <= MaxHistory
<1>1. KeepRoom(s) \in Seq(Id) /\ Len(KeepRoom(s)) <= MaxHistory - 1
  <2>1. CASE Len(s) < MaxHistory
    BY <2>1, BoundsAssumption DEF KeepRoom
  <2>2. CASE Len(s) = MaxHistory
    <3>1. \A i \in 1 .. MaxHistory - 1 : s[i] \in Id
      BY <2>2, BoundsAssumption, ElementOfSeq
    <3>2. /\ SubSeq(s, 1, MaxHistory - 1) \in Seq(Id)
          /\ Len(SubSeq(s, 1, MaxHistory - 1)) = MaxHistory - 1
      BY <3>1, BoundsAssumption, SubSeqProperties
    <3>3. Len(SubSeq(s, 1, MaxHistory - 1)) <= MaxHistory - 1
      BY <3>2, BoundsAssumption
    <3>4. KeepRoom(s) = SubSeq(s, 1, MaxHistory - 1)
      BY <2>2, BoundsAssumption DEF KeepRoom
    <3> QED
      BY <3>2, <3>3, <3>4, Zenon
  <2> QED
    BY <2>1, <2>2, BoundsAssumption
<1> QED
  BY <1>1, BoundsAssumption

LEMMA InitTyped == Init => TypeOK
<1> SUFFICES ASSUME Init PROVE TypeOK OBVIOUS
<1> USE BoundsAssumption, InputsAssumption DEF Init
<1>1. hist \in Seq(Id) /\ Len(hist) <= MaxHistory
  OBVIOUS
<1>2. /\ status \in [Id -> {"Pending", "Active", "Completed"}]
      /\ count \in [Id -> Nat] /\ shown \in [Id -> Nat]
      /\ target \in [Id -> Int] /\ priority \in [Id -> {"normal", "high"}]
  OBVIOUS
<1>3. removedAt \in [Id -> Nat \cup {NotRemoved}]
  OBVIOUS
<1>4. hpc \in [Handlers -> HandlerPc] /\ hmsg \in [Handlers -> Id \cup {None}]
  BY DEF HandlerPc
<1>5. nextId \in 1 .. MaxMessages + 1 /\ byID \subseteq Id
  OBVIOUS
<1>6. /\ spc \in {"chosen", "publish", "mark", "dwell", "after"} => sel \in Id
      /\ \A h \in Handlers :
           hpc[h] \in {"add", "evict", "record", "signal"} => hmsg[h] \in Id
  OBVIOUS
<1>7. /\ spc \in SchedulerPc /\ wakeup \in BOOLEAN /\ cancelled \in BOOLEAN
      /\ current \in Id \cup {None} /\ sel \in Id \cup {None}
  BY DEF SchedulerPc
<1> QED
  BY <1>1, <1>2, <1>3, <1>4, <1>5, <1>6, <1>7, Zenon DEF TypeOK

LEMMA StepTyped == TypeOK /\ [Next]_vars => TypeOK'
<1> SUFFICES ASSUME TypeOK, [Next]_vars PROVE TypeOK' OBVIOUS
<1> USE BoundsAssumption, InputsAssumption
    DEF TypeOK, SchedulerPc, HandlerPc, store, loop, adders, GoTo
<1>1. ASSUME NEW h \in Handlers, CheckRoom(h) PROVE TypeOK'
  BY <1>1 DEF CheckRoom
<1>2. ASSUME NEW h \in Handlers, NEW t \in Targets \cup {DefaultTarget},
             NEW p \in Priorities, NewMessage(h, t, p)
      PROVE TypeOK'
  <2>1. nextId \in Id /\ nextId' \in 1 .. MaxMessages + 1
    BY <1>2 DEF NewMessage
  <2>2. target' \in [Id -> Int] /\ priority' \in [Id -> {"normal", "high"}]
    BY <1>2, <2>1 DEF NewMessage
  <2> QED
    BY <1>2, <2>1, <2>2 DEF NewMessage
<1>3. ASSUME NEW h \in Handlers, AddToStore(h) PROVE TypeOK'
  BY <1>3 DEF AddToStore
<1>4. ASSUME NEW h \in Handlers, EvictCompleted(h) PROVE TypeOK'
  BY <1>4 DEF EvictCompleted, Completed
<1>5. ASSUME NEW h \in Handlers, RecordHistory(h) PROVE TypeOK'
  <2>1. hist' \in Seq(Id) /\ Len(hist') <= MaxHistory
    BY <1>5, HistoryTyped DEF RecordHistory
  <2> QED
    BY <1>5, <2>1 DEF RecordHistory
<1>6. ASSUME NEW h \in Handlers, SignalWakeup(h) PROVE TypeOK'
  BY <1>6 DEF SignalWakeup, TokenAfterSend
<1>7. ASSUME NEW m \in Id, RemoveMessage(m) PROVE TypeOK'
  BY <1>7 DEF RemoveMessage, Removed
<1>8. CASE TickStep
  <2>1. CASE SelectNextMessage BY <2>1 DEF SelectNextMessage, ListActive
  <2>2. CASE SelectNothing     BY <2>2 DEF SelectNothing
  <2>3. CASE SetCurrent        BY <2>3 DEF SetCurrent
  <2>4. CASE PublishSucceeds
    <3>1. sel \in Id /\ shown[sel] + 1 \in Nat
      BY <2>4 DEF PublishSucceeds
    <3> QED
      BY <2>4, <3>1 DEF PublishSucceeds
  <2>5. CASE PublishFails      BY <2>5 DEF PublishFails
  <2>6. CASE ClearFailed       BY <2>6 DEF ClearFailed
  <2>7. CASE MarkDisplayed
    <3>1. sel \in Id /\ CountUp(sel) \in Nat
      BY <2>7 DEF MarkDisplayed, CountUp
    <3>2. count' \in [Id -> Nat]
      BY <2>7, <3>1 DEF MarkDisplayed
    <3>3. status' \in [Id -> {"Pending", "Active", "Completed"}]
      BY <2>7, <3>1 DEF MarkDisplayed, Promoted
    <3> QED
      BY <2>7, <3>1, <3>2, <3>3 DEF MarkDisplayed
  <2>8. CASE DwellElapses      BY <2>8 DEF DwellElapses
  <2>9. CASE Complete          BY <2>9 DEF Complete
  <2>10. CASE NotYetComplete   BY <2>10 DEF NotYetComplete
  <2>11. CASE ClearCompleted   BY <2>11 DEF ClearCompleted
  <2> QED
    BY <1>8, <2>1, <2>2, <2>3, <2>4, <2>5, <2>6, <2>7, <2>8, <2>9, <2>10, <2>11
       DEF TickStep
<1>9. CASE IdleStep
  BY <1>9 DEF IdleStep, ClearIdle, CurrentIfIdle, PublishIdle, WaitWoken, WaitEnds
<1>10. CASE BackoffElapses \/ SleepCancelled \/ NextTick \/ LoopReturns
  BY <1>10 DEF BackoffElapses, AfterBackoff, SleepCancelled, NextTick, LoopReturns
<1>11. CASE Stop
  BY <1>11 DEF Stop
<1>12. CASE UNCHANGED vars
  BY <1>12 DEF vars
<1> QED
  BY <1>1, <1>2, <1>3, <1>4, <1>5, <1>6, <1>7, <1>8, <1>9, <1>10, <1>11, <1>12
     DEF Next, AddStep, LoopStep

\* Every variable keeps its type: ids name created messages, and each goroutine
\* has a message wherever its code uses one.
THEOREM TypeCorrect == Spec => []TypeOK
  BY InitTyped, StepTyped, PTL DEF Spec

-----------------------------------------------------------------------------
(* The wakeup token.  NoLostWakeup is inductive as it stands.               *)

Idling == spc \in {"idle", "idlepub", "wait"}

LEMMA WakeupStep == TypeOK /\ NoLostWakeup /\ [Next]_vars => NoLostWakeup'
<1> SUFFICES ASSUME TypeOK, NoLostWakeup, [Next]_vars PROVE NoLostWakeup'
  OBVIOUS
<1>0. (ListActive \subseteq Id)'
  BY StepTyped DEF TypeOK, ListActive
<1> SUFFICES ASSUME Idling', NEW m \in Id, (m \in ListActive)', Announced(m)'
             PROVE  wakeup'
  BY <1>0 DEF NoLostWakeup, Idling
<1> USE DEF store, loop, adders, GoTo, Idling
<1>1. ASSUME Idling, m \in ListActive, Announced(m), wakeup' = wakeup
      PROVE  wakeup'
  BY <1>1 DEF NoLostWakeup
<1>2. ASSUME NEW h \in Handlers, CheckRoom(h) PROVE wakeup'
  BY <1>1, <1>2 DEF CheckRoom, TypeOK, ListActive, Announced
<1>3. ASSUME NEW h \in Handlers, NEW t \in Targets \cup {DefaultTarget},
             NEW p \in Priorities, NewMessage(h, t, p)
      PROVE wakeup'
  BY <1>1, <1>3 DEF NewMessage, TypeOK, ListActive, Announced
<1>4. ASSUME NEW h \in Handlers, AddToStore(h) PROVE wakeup'
  BY <1>1, <1>4 DEF AddToStore, TypeOK, ListActive, Announced
<1>5. ASSUME NEW h \in Handlers, EvictCompleted(h) PROVE wakeup'
  BY <1>1, <1>5 DEF EvictCompleted, TypeOK, ListActive, Announced
<1>6. ASSUME NEW h \in Handlers, RecordHistory(h) PROVE wakeup'
  BY <1>1, <1>6 DEF RecordHistory, TypeOK, ListActive, Announced
<1>7. ASSUME NEW h \in Handlers, SignalWakeup(h) PROVE wakeup'
  BY <1>7 DEF SignalWakeup, TokenAfterSend
<1>8. ASSUME NEW k \in Id, RemoveMessage(k) PROVE wakeup'
  BY <1>1, <1>8 DEF RemoveMessage, TypeOK, ListActive, Announced
<1>9. CASE TickStep
  BY <1>9 DEF TickStep, SelectNextMessage, SelectNothing, SetCurrent, PublishSucceeds,
     PublishFails, ClearFailed, MarkDisplayed, DwellElapses, Complete,
     NotYetComplete, ClearCompleted, ListActive
<1>10. CASE IdleStep
  BY <1>1, <1>10 DEF IdleStep, ClearIdle, PublishIdle, WaitWoken, WaitEnds,
     ListActive, Announced
<1>11. CASE BackoffElapses \/ SleepCancelled \/ NextTick \/ LoopReturns
  BY <1>11 DEF BackoffElapses, AfterBackoff, SleepCancelled, NextTick, LoopReturns
<1>12. CASE Stop
  BY <1>1, <1>12 DEF Stop, ListActive, Announced
<1>13. CASE UNCHANGED vars
  BY <1>1, <1>13 DEF vars, ListActive, Announced
<1> QED
  BY <1>2, <1>3, <1>4, <1>5, <1>6, <1>7, <1>8, <1>9, <1>10, <1>11, <1>12, <1>13
     DEF Next, AddStep, LoopStep

\* No message that AddMessage has stored and announced waits behind an idle
\* scheduler without a wakeup token.
THEOREM WakeupNeverLost == Spec => []NoLostWakeup
<1>1. Init => NoLostWakeup
  BY DEF Init, NoLostWakeup
<1> QED
  BY <1>1, TypeCorrect, WakeupStep, PTL DEF Spec

-----------------------------------------------------------------------------
\* A message that is Completed, by its last display or by a delete, never
\* becomes Pending or Active again.
THEOREM CompletedStays == Spec => CompletedIsFinal
<1>1. TypeOK /\ [Next]_vars =>
        [\A m \in Id : status[m] = "Completed" => status'[m] = "Completed"]_vars
  <2> SUFFICES ASSUME TypeOK, Next, NEW m \in Id, status[m] = "Completed"
               PROVE  status'[m] = "Completed"
    OBVIOUS
  <2> USE DEF TypeOK, store, loop, adders
  <2>1. ASSUME NEW h \in Handlers, NEW t, NEW p,
               CheckRoom(h) \/ AddStep(h) \/ NewMessage(h, t, p)
        PROVE  status' = status
    BY <2>1 DEF CheckRoom, AddStep, AddToStore, EvictCompleted, RecordHistory,
       SignalWakeup, NewMessage
  <2>2. ASSUME NEW k \in Id, RemoveMessage(k) PROVE status'[m] = "Completed"
    BY <2>2 DEF RemoveMessage
  <2>3. CASE MarkDisplayed
    BY <2>3 DEF MarkDisplayed, Promoted
  <2>4. CASE Complete
    BY <2>4 DEF Complete
  <2>5. CASE LoopStep /\ ~MarkDisplayed /\ ~Complete
    BY <2>5 DEF LoopStep, TickStep, IdleStep, SelectNextMessage, SelectNothing,
       SetCurrent, PublishSucceeds, PublishFails, ClearFailed, DwellElapses,
       NotYetComplete, ClearCompleted, ClearIdle, PublishIdle, WaitWoken, WaitEnds,
       BackoffElapses, SleepCancelled, NextTick, LoopReturns
  <2>6. CASE Stop
    BY <2>6 DEF Stop
  <2> QED
    BY <2>1, <2>2, <2>3, <2>4, <2>5, <2>6 DEF Next
<1> QED
  BY <1>1, TypeCorrect, PTL DEF Spec, CompletedIsFinal

-----------------------------------------------------------------------------
(* A message that has been created but not stored yet, and one that has not *)
(* been created, is untouched; no two handlers store the same message.      *)

NotStored(m) == m >= nextId \/ \E h \in Handlers : hpc[h] = "add" /\ hmsg[h] = m

FreshInv ==
  /\ \A h \in Handlers :
       hpc[h] \in {"add", "evict", "record", "signal"} => hmsg[h] < nextId
  /\ \A g, h \in Handlers :
       g # h /\ hpc[g] = "add" /\ hpc[h] = "add" => hmsg[g] # hmsg[h]
  /\ \A m \in Id : NotStored(m) =>
       /\ m \notin byID /\ sel # m /\ status[m] = "Pending"
       /\ count[m] = 0 /\ shown[m] = 0 /\ removedAt[m] = NotRemoved

LEMMA InitFresh == Init => FreshInv
  BY NoneAssumption DEF Init, FreshInv, NotStored

LEMMA StepFresh == TypeOK /\ FreshInv /\ [Next]_vars => FreshInv'
<1> SUFFICES ASSUME TypeOK, FreshInv, [Next]_vars PROVE FreshInv'
  OBVIOUS
<1>0. TypeOK'
  BY StepTyped
<1> USE <1>0 DEF TypeOK, FreshInv, NotStored, HandlerPc, store, loop, adders
<1>1. ASSUME NEW h \in Handlers, CheckRoom(h) PROVE FreshInv'
  BY <1>1 DEF CheckRoom
<1>2. ASSUME NEW h \in Handlers, NEW t \in Targets \cup {DefaultTarget},
             NEW p \in Priorities, NewMessage(h, t, p)
      PROVE FreshInv'
  BY <1>2 DEF NewMessage
<1>3. ASSUME NEW h \in Handlers, AddToStore(h) PROVE FreshInv'
  BY <1>3 DEF AddToStore
<1>4. ASSUME NEW h \in Handlers, EvictCompleted(h) PROVE FreshInv'
  BY <1>4 DEF EvictCompleted
<1>5. ASSUME NEW h \in Handlers, RecordHistory(h) \/ SignalWakeup(h) PROVE FreshInv'
  <2>1. CASE RecordHistory(h)
    BY <2>1 DEF RecordHistory
  <2>2. CASE SignalWakeup(h)
    BY <2>2 DEF SignalWakeup
  <2> QED
    BY <1>5, <2>1, <2>2
<1>6. ASSUME NEW k \in Id, RemoveMessage(k) PROVE FreshInv'
  BY <1>6 DEF RemoveMessage
<1>7. CASE SelectNextMessage
  BY <1>7 DEF SelectNextMessage, ListActive
<1>8. CASE SelectNothing
  BY <1>8, NoneAssumption DEF SelectNothing
<1>9. CASE PublishSucceeds
  BY <1>9 DEF PublishSucceeds
<1>10. CASE MarkDisplayed
  BY <1>10 DEF MarkDisplayed
<1>11. CASE Complete
  BY <1>11 DEF Complete
<1>12. CASE SetCurrent \/ PublishFails \/ ClearFailed \/ DwellElapses \/ NotYetComplete
            \/ ClearCompleted \/ IdleStep \/ BackoffElapses \/ SleepCancelled
            \/ NextTick \/ LoopReturns \/ Stop
  <2>1. UNCHANGED <<store, sel, hpc, hmsg, shown, removedAt>>
    BY <1>12 DEF SetCurrent, PublishFails, ClearFailed, DwellElapses, NotYetComplete,
       ClearCompleted, IdleStep, ClearIdle, PublishIdle, WaitWoken, WaitEnds,
       BackoffElapses, SleepCancelled, NextTick, LoopReturns, Stop
  <2> QED
    BY <2>1
<1>13. CASE UNCHANGED vars
  BY <1>13 DEF vars
<1> QED
  BY <1>1, <1>2, <1>3, <1>4, <1>5, <1>6, <1>7, <1>8, <1>9, <1>10, <1>11, <1>12, <1>13
     DEF Next, AddStep, LoopStep, TickStep

-----------------------------------------------------------------------------
(* Counts and completion.  The strengthening says where the loop may hold a *)
(* message that has reached its target: only between the display that       *)
(* reached it and the check that follows the dwell.                         *)

Exhausted(m) == count[m] > 0 /\ count[m] >= target[m]

CountInv ==
  /\ CountWithinTarget
  /\ spc \in {"chosen", "publish", "mark"} => ~Exhausted(sel)
  /\ \A m \in ListActive : Exhausted(m) => sel = m /\ spc \in {"dwell", "after", "stopped"}
  /\ spc \in {"dwell", "after"} /\ sel \in byID => count[sel] > 0

LEMMA InitCounts == Init => CountInv
  BY InputsAssumption, NoneAssumption DEF Init, CountInv, CountWithinTarget, ListActive

LEMMA StepCounts == TypeOK /\ FreshInv /\ CountInv /\ [Next]_vars => CountInv'
<1> SUFFICES ASSUME TypeOK, FreshInv, CountInv, [Next]_vars PROVE CountInv'
  OBVIOUS
<1> USE DEF TypeOK, CountInv, CountWithinTarget, Exhausted, ListActive, SchedulerPc,
            store, loop, adders, GoTo
<1>1. ASSUME NEW h \in Handlers,
             CheckRoom(h) \/ EvictCompleted(h) \/ RecordHistory(h) \/ SignalWakeup(h)
      PROVE CountInv'
  <2>1. /\ byID' \subseteq byID
        /\ UNCHANGED <<status, count, target, loop>>
    BY <1>1 DEF CheckRoom, EvictCompleted, RecordHistory, SignalWakeup
  <2> QED
    BY <2>1
<1>2. ASSUME NEW h \in Handlers, NEW t \in Targets \cup {DefaultTarget},
             NEW p \in Priorities, NewMessage(h, t, p)
      PROVE CountInv'
  <2>1. nextId \in Id /\ count[nextId] = 0 /\ sel # nextId /\ t \in Int
    BY <1>2, InputsAssumption, BoundsAssumption DEF FreshInv, NotStored, NewMessage
  <2> QED
    BY <1>2, <2>1 DEF NewMessage
<1>3. ASSUME NEW h \in Handlers, AddToStore(h) PROVE CountInv'
  <2>1. hmsg[h] \in Id /\ count[hmsg[h]] = 0 /\ sel # hmsg[h]
    BY <1>3 DEF FreshInv, NotStored, AddToStore
  <2> QED
    BY <1>3, <2>1 DEF AddToStore
<1>4. ASSUME NEW k \in Id, RemoveMessage(k) PROVE CountInv'
  BY <1>4 DEF RemoveMessage
<1>5. CASE SelectNextMessage
  BY <1>5 DEF SelectNextMessage
<1>6. CASE SelectNothing
  BY <1>6 DEF SelectNothing
<1>7. CASE MarkDisplayed
  <2>1. CASE sel \notin byID
    BY <1>7, <2>1 DEF MarkDisplayed
  <2>2. CASE sel \in byID
    <3>1. /\ sel \in Id /\ count' = [count EXCEPT ![sel] = count[sel] + 1]
          /\ sel' = sel /\ byID' = byID /\ target' = target /\ spc' = "dwell"
      BY <1>7, <2>2 DEF MarkDisplayed, CountUp
    <3>2. count[sel] + 1 <= IF target[sel] > 0 THEN target[sel] ELSE 1
      <4>1. count[sel] \in Nat /\ target[sel] \in Int /\ ~Exhausted(sel)
        BY <1>7, <3>1 DEF MarkDisplayed
      <4> QED
        BY <4>1 DEF Exhausted
    <3>3. \A m \in ListActive' \ {sel} : m \in ListActive /\ count'[m] = count[m]
      BY <1>7, <2>2, <3>1 DEF MarkDisplayed
    <3>4. CountWithinTarget'
      BY <3>1, <3>2
    <3>5. \A m \in ListActive' : Exhausted(m)' => sel = m
      BY <1>7, <3>1, <3>3 DEF MarkDisplayed
    <3> QED
      BY <3>1, <3>4, <3>5
  <2> QED
    BY <2>1, <2>2
<1>8. CASE Complete
  BY <1>8 DEF Complete, TargetReached
<1>9. CASE NotYetComplete
  BY <1>9 DEF NotYetComplete, TargetReached
<1>10. CASE SetCurrent \/ PublishSucceeds \/ PublishFails \/ ClearFailed \/ DwellElapses
            \/ ClearCompleted \/ IdleStep \/ BackoffElapses \/ SleepCancelled
            \/ NextTick \/ LoopReturns \/ Stop
  BY <1>10 DEF SetCurrent, PublishSucceeds, PublishFails, ClearFailed, DwellElapses,
     ClearCompleted, IdleStep, ClearIdle, PublishIdle, WaitWoken, WaitEnds,
     BackoffElapses, AfterBackoff, SleepCancelled, NextTick, LoopReturns, Stop
<1>11. CASE UNCHANGED vars
  BY <1>11 DEF vars
<1> QED
  BY <1>1, <1>2, <1>3, <1>4, <1>5, <1>6, <1>7, <1>8, <1>9, <1>10, <1>11
     DEF Next, AddStep, LoopStep, TickStep

\* No message is counted as shown more often than its target, or more than once
\* when the target is not positive.
THEOREM CountsBounded == Spec => []CountWithinTarget
<1>1. CountInv => CountWithinTarget
  BY DEF CountInv
<1> QED
  BY <1>1, TypeCorrect, InitFresh, StepFresh, InitCounts, StepCounts, PTL DEF Spec

-----------------------------------------------------------------------------
(* What completes a message, what its displayCount means, and what is left  *)
(* of it after a delete.  One invariant, because each part leans on where   *)
(* the selected message stands.                                             *)

InFlight(m) == sel = m /\ spc \in {"chosen", "publish"}

DisplayInv ==
  /\ CompletionJustified
  /\ spc \in {"chosen", "publish", "mark", "dwell", "after"} =>
       (status[sel] = "Completed" => sel \in Removed)
  /\ ShownMatchesCount
  /\ \A m \in Removed :
       /\ status[m] = "Completed"
       /\ shown[m] <= removedAt[m] + (IF InFlight(m) THEN 0 ELSE 1)

LEMMA InitDisplay == Init => DisplayInv
<1> SUFFICES ASSUME Init PROVE DisplayInv OBVIOUS
<1>1. Removed = {} /\ byID = {} /\ spc = "tick"
  BY DEF Init, Removed
<1>2. \A m \in Id : status[m] # "Completed"
  BY DEF Init
<1>3. CompletionJustified
  BY <1>2 DEF CompletionJustified
<1>4. ShownMatchesCount
  BY <1>1 DEF ShownMatchesCount
<1> QED
  BY <1>1, <1>3, <1>4 DEF DisplayInv

LEMMA StepDisplay ==
  TypeOK /\ FreshInv /\ CountInv /\ DisplayInv /\ [Next]_vars => DisplayInv'
<1> SUFFICES ASSUME TypeOK, FreshInv, CountInv, DisplayInv, [Next]_vars
             PROVE  DisplayInv'
  OBVIOUS
<1> USE DEF TypeOK, DisplayInv, CompletionJustified, ShownMatchesCount, Removed, InFlight,
            SchedulerPc, store, loop, adders, GoTo
<1>1. ASSUME NEW h \in Handlers,
             CheckRoom(h) \/ EvictCompleted(h) \/ RecordHistory(h) \/ SignalWakeup(h)
      PROVE DisplayInv'
  <2>1. /\ byID' \subseteq byID
        /\ UNCHANGED <<status, count, target, loop, shown, removedAt>>
    BY <1>1 DEF CheckRoom, EvictCompleted, RecordHistory, SignalWakeup
  <2> QED
    BY <2>1
<1>2. ASSUME NEW h \in Handlers, NEW t \in Targets \cup {DefaultTarget},
             NEW p \in Priorities, NewMessage(h, t, p)
      PROVE DisplayInv'
  <2>1. nextId \in Id /\ status[nextId] = "Pending" /\ sel # nextId
    BY <1>2, BoundsAssumption DEF FreshInv, NotStored, NewMessage
  <2> QED
    BY <1>2, <2>1 DEF NewMessage
<1>3. ASSUME NEW h \in Handlers, AddToStore(h) PROVE DisplayInv'
  <2>1. /\ hmsg[h] \in Id /\ count[hmsg[h]] = 0 /\ shown[hmsg[h]] = 0
        /\ sel # hmsg[h]
    BY <1>3 DEF FreshInv, NotStored, AddToStore
  <2> QED
    BY <1>3, <2>1 DEF AddToStore
<1>4. ASSUME NEW k \in Id, RemoveMessage(k) PROVE DisplayInv'
  BY <1>4 DEF RemoveMessage
<1>5. CASE SelectNextMessage
  BY <1>5 DEF SelectNextMessage, ListActive
<1>6. CASE SelectNothing
  BY <1>6, NoneAssumption DEF SelectNothing
<1>7. CASE PublishSucceeds
  BY <1>7 DEF PublishSucceeds
<1>8. CASE MarkDisplayed
  <2>1. CASE sel \notin byID
    BY <1>8, <2>1 DEF MarkDisplayed
  <2>2. CASE sel \in byID
    <3>1. /\ sel \in Id /\ count[sel] \in Nat /\ spc = "mark" /\ spc' = "dwell"
          /\ count' = [count EXCEPT ![sel] = count[sel] + 1]
          /\ status' = [status EXCEPT ![sel] = Promoted(status[sel])]
          /\ UNCHANGED <<sel, byID, target, shown, removedAt>>
      BY <1>8, <2>2 DEF MarkDisplayed, CountUp
    <3>2. \A m \in Id : status'[m] = "Completed" <=> status[m] = "Completed"
      BY <3>1 DEF Promoted
    <3>3. CompletionJustified'
      BY <3>1, <3>2
    <3>4. ShownMatchesCount'
      BY <3>1
    <3> QED
      BY <3>1, <3>2, <3>3, <3>4
  <2> QED
    BY <2>1, <2>2
<1>9. CASE Complete
  <2>1. CASE sel \notin byID
    <3>1. /\ spc = "after" /\ spc' = "clear"
          /\ UNCHANGED <<byID, status, count, target, sel, shown, removedAt>>
      BY <1>9, <2>1 DEF Complete
    <3>2. CompletionJustified'
      BY <3>1
    <3>3. ShownMatchesCount'
      BY <3>1
    <3> QED
      BY <3>1, <3>2, <3>3
  <2>2. CASE sel \in byID
    <3>1. count[sel] > 0 /\ count[sel] >= target[sel] /\ sel \in Id
      BY <1>9, <2>2 DEF Complete, TargetReached, CountInv
    <3>2. /\ status' = [status EXCEPT ![sel] = "Completed"]
          /\ spc = "after" /\ spc' = "clear"
          /\ UNCHANGED <<byID, count, target, sel, shown, removedAt>>
      BY <1>9, <2>2 DEF Complete
    <3>3. CompletionJustified'
      BY <3>1, <3>2
    <3>4. ShownMatchesCount'
      BY <3>2
    <3> QED
      BY <3>2, <3>3, <3>4
  <2> QED
    BY <2>1, <2>2
<1>10. CASE SetCurrent \/ PublishFails \/ ClearFailed \/ DwellElapses \/ NotYetComplete
            \/ ClearCompleted \/ IdleStep \/ BackoffElapses \/ SleepCancelled
            \/ NextTick \/ LoopReturns \/ Stop
  <2>1. /\ UNCHANGED <<byID, status, count, target, sel, shown, removedAt>>
        /\ spc' \in {"chosen", "publish"} => spc \in {"chosen", "publish"}
        /\ spc' \in {"dwell", "after"} => spc \in {"dwell", "after"}
        /\ spc' = "dwell" => spc = "dwell"
        /\ spc' = "mark" <=> spc = "mark"
    BY <1>10 DEF SetCurrent, PublishFails, ClearFailed, DwellElapses, NotYetComplete,
       ClearCompleted, IdleStep, ClearIdle, PublishIdle, WaitWoken, WaitEnds,
       BackoffElapses, AfterBackoff, SleepCancelled, NextTick, LoopReturns, Stop
  <2>2. CompletionJustified'
    BY <2>1
  <2>3. ShownMatchesCount'
    BY <2>1
  <2>4. \A m \in Removed' :
          status'[m] = "Completed" /\ shown'[m] <= removedAt'[m] + (IF InFlight(m)' THEN 0 ELSE 1)
    BY <2>1
  <2> QED
    BY <2>1, <2>2, <2>3, <2>4
<1>11. CASE UNCHANGED vars
  BY <1>11 DEF vars
<1> QED
  BY <1>1, <1>2, <1>3, <1>4, <1>5, <1>6, <1>7, <1>8, <1>9, <1>10, <1>11
     DEF Next, AddStep, LoopStep, TickStep

LEMMA DisplayInvariant == Spec => [](TypeOK /\ FreshInv /\ CountInv /\ DisplayInv)
  BY InitTyped, StepTyped, InitFresh, StepFresh, InitCounts, StepCounts,
     InitDisplay, StepDisplay, PTL DEF Spec

\* A message is Completed only because somebody deleted it, or because its
\* target is reached and the dwell of its last display is over.
THEOREM CompletionEarned == Spec => []CompletionJustified
<1>1. DisplayInv => CompletionJustified
  BY DEF DisplayInv
<1> QED
  BY <1>1, DisplayInvariant, PTL

\* The displayCount of a stored message is the number of its successful publishes.
THEOREM CountIsHonest == Spec => []ShownMatchesCount
<1>1. DisplayInv => ShownMatchesCount
  BY DEF DisplayInv
<1> QED
  BY <1>1, DisplayInvariant, PTL

\* After a delete at most the one publish already decided on still happens.
THEOREM OneLateShowAtMost == Spec => []AtMostOneLateShow
<1>1. TypeOK /\ DisplayInv => AtMostOneLateShow
  BY DEF TypeOK, DisplayInv, AtMostOneLateShow, Removed
<1> QED
  BY <1>1, DisplayInvariant, PTL

-----------------------------------------------------------------------------
(* The two bounds.  Every handler that has passed the check but not stored  *)
(* its message yet is counted as if it had, so a check that passes leaves   *)
(* room for itself; every handler that has stored but not evicted yet       *)
(* accounts for one message over what eviction leaves.                      *)

Adding   == {h \in Handlers : hpc[h] \in {"create", "add"}}

RoomInv == Cardinality(ListActive) + Cardinality(Adding)
             <= MaxActive - 1 + Cardinality(Handlers)

LEMMA HandlerSets ==
  ASSUME NEW S \in SUBSET Handlers
  PROVE  IsFiniteSet(S) /\ Cardinality(S) \in Nat /\ Cardinality(S) <= Cardinality(Handlers)
  BY HandlersAssumption, FS_Subset, FS_CardinalityType

LEMMA MessageSets ==
  ASSUME NEW S \in SUBSET Id
  PROVE  IsFiniteSet(S) /\ Cardinality(S) \in Nat
<1>1. IsFiniteSet(Id)
  BY BoundsAssumption, FS_Interval
<1> QED
  BY <1>1, FS_Subset, FS_CardinalityType

LEMMA InitBounds == Init => RoomInv /\ StoreBound
<1> SUFFICES ASSUME Init PROVE RoomInv /\ StoreBound OBVIOUS
<1>1. ListActive = {} /\ byID = {} /\ Adding = {} /\ Evicting = {}
  BY DEF Init, ListActive, Adding, Evicting
<1>2. Cardinality(Handlers) \in Nat
  BY HandlersAssumption, FS_CardinalityType
<1> QED
  BY <1>1, <1>2, FS_EmptySet, BoundsAssumption DEF RoomInv, StoreBound

\* Steps that store nothing and pass no check keep the room invariant.
LEMMA RoomKept ==
  ASSUME TypeOK, RoomInv, ListActive' \subseteq ListActive, Adding' \subseteq Adding
  PROVE  RoomInv'
<1>1. /\ IsFiniteSet(ListActive) /\ Cardinality(ListActive) \in Nat
      /\ IsFiniteSet(Adding) /\ Cardinality(Adding) \in Nat
  <2>1. ListActive \in SUBSET Id /\ Adding \in SUBSET Handlers
    BY DEF TypeOK, ListActive, Adding
  <2> QED
    BY <2>1, MessageSets, HandlerSets
<1>2. /\ Cardinality(ListActive') <= Cardinality(ListActive)
      /\ Cardinality(ListActive') \in Nat
  BY <1>1, FS_Subset, FS_CardinalityType
<1>3. /\ Cardinality(Adding') <= Cardinality(Adding)
      /\ Cardinality(Adding') \in Nat
  BY <1>1, FS_Subset, FS_CardinalityType
<1>4. Cardinality(Handlers) \in Nat
  BY HandlersAssumption, FS_CardinalityType
<1> QED
  BY <1>1, <1>2, <1>3, <1>4, BoundsAssumption DEF RoomInv

LEMMA StepRoom == TypeOK /\ FreshInv /\ RoomInv /\ [Next]_vars => RoomInv'
<1> SUFFICES ASSUME TypeOK, FreshInv, RoomInv, [Next]_vars PROVE RoomInv'
  OBVIOUS
<1> DEFINE Quiet == ListActive' \subseteq ListActive /\ Adding' \subseteq Adding
<1>0. Quiet => RoomInv'
  BY RoomKept
<1>1. ASSUME NEW h \in Handlers, CheckRoom(h) PROVE RoomInv'
  <2>1. ListActive' = ListActive /\ Adding' \in SUBSET Handlers
    BY <1>1 DEF CheckRoom, store, ListActive, Adding
  <2>2. Cardinality(ListActive) <= MaxActive - 1 /\ Cardinality(ListActive) \in Nat
    <3>1. ListActive \in SUBSET Id
      BY DEF TypeOK, ListActive
    <3> QED
      BY <1>1, <3>1, MessageSets, BoundsAssumption DEF CheckRoom, QueueHasRoom
  <2>3. Cardinality(Adding') <= Cardinality(Handlers) /\ Cardinality(Adding') \in Nat
    BY <2>1, HandlerSets
  <2>4. Cardinality(Handlers) \in Nat
    BY HandlersAssumption, FS_CardinalityType
  <2> QED
    BY <2>1, <2>2, <2>3, <2>4, BoundsAssumption DEF RoomInv
<1>2. ASSUME NEW h \in Handlers, NEW t, NEW p, NewMessage(h, t, p) PROVE RoomInv'
  BY <1>0, <1>2 DEF NewMessage, ListActive, Adding, TypeOK
<1>3. ASSUME NEW h \in Handlers, AddToStore(h) PROVE RoomInv'
  <2>1. /\ ListActive \in SUBSET Id /\ Adding \in SUBSET Handlers
        /\ hmsg[h] \in Id /\ h \in Adding
    BY <1>3 DEF AddToStore, TypeOK, ListActive, Adding
  <2>2. /\ ListActive' = ListActive \cup {hmsg[h]} /\ hmsg[h] \notin ListActive
        /\ Adding' = Adding \ {h}
    BY <1>3, <2>1 DEF AddToStore, TypeOK, FreshInv, NotStored, ListActive, Adding
  <2>3. Cardinality(ListActive') = Cardinality(ListActive) + 1
    BY <2>1, <2>2, MessageSets, FS_AddElement
  <2>4. Cardinality(Adding') = Cardinality(Adding) - 1
    BY <2>1, <2>2, HandlerSets, FS_RemoveElement
  <2>5. Cardinality(Handlers) \in Nat /\ Cardinality(ListActive) \in Nat
        /\ Cardinality(Adding) \in Nat
    BY <2>1, HandlersAssumption, FS_CardinalityType, MessageSets, HandlerSets
  <2> QED
    BY <2>3, <2>4, <2>5, BoundsAssumption DEF RoomInv
<1>4. ASSUME NEW h \in Handlers,
             EvictCompleted(h) \/ RecordHistory(h) \/ SignalWakeup(h)
      PROVE RoomInv'
  BY <1>0, <1>4 DEF EvictCompleted, RecordHistory, SignalWakeup, store, ListActive,
     Adding, TypeOK
<1>5. ASSUME NEW m \in Id, RemoveMessage(m) PROVE RoomInv'
  BY <1>0, <1>5 DEF RemoveMessage, adders, ListActive, Adding, TypeOK
<1>6. CASE LoopStep \/ Stop \/ UNCHANGED vars
  <2>1. byID' = byID /\ hpc' = hpc
    BY <1>6 DEF LoopStep, TickStep, IdleStep, SelectNextMessage, SelectNothing,
       SetCurrent, PublishSucceeds, PublishFails, ClearFailed, MarkDisplayed,
       DwellElapses, Complete, NotYetComplete, ClearCompleted, ClearIdle, PublishIdle,
       WaitWoken, WaitEnds, BackoffElapses, SleepCancelled, NextTick, LoopReturns,
       Stop, vars, store, adders
  <2>2. \A m \in byID : status'[m] # "Completed" => status[m] # "Completed"
    BY <1>6 DEF LoopStep, TickStep, IdleStep, SelectNextMessage, SelectNothing,
       SetCurrent, PublishSucceeds, PublishFails, ClearFailed, MarkDisplayed, Promoted,
       DwellElapses, Complete, NotYetComplete, ClearCompleted, ClearIdle, PublishIdle,
       WaitWoken, WaitEnds, BackoffElapses, SleepCancelled, NextTick, LoopReturns,
       Stop, vars, store, TypeOK
  <2> QED
    BY <1>0, <2>1, <2>2 DEF ListActive, Adding
<1> QED
  BY <1>1, <1>2, <1>3, <1>4, <1>5, <1>6 DEF Next, AddStep

\* What eviction leaves, given the room invariant.
LEMMA EvictionLeaves ==
  ASSUME TypeOK, RoomInv, NEW h \in Handlers, EvictCompleted(h)
  PROVE  Cardinality(byID') <= MaxKeep + MaxActive - 1 + Cardinality(Handlers)
<1>1. PICK old \in SUBSET Completed :
        Cardinality(old) = Surplus /\ byID' = byID \ old
  BY DEF EvictCompleted
<1>2. /\ Completed \in SUBSET Id /\ ListActive \in SUBSET Id
      /\ Adding \in SUBSET Handlers
  BY DEF TypeOK, Completed, ListActive, Adding
<1>3. /\ IsFiniteSet(Completed) /\ Cardinality(Completed) \in Nat
      /\ IsFiniteSet(ListActive) /\ Cardinality(ListActive) \in Nat
      /\ Cardinality(Adding) \in Nat /\ Cardinality(Handlers) \in Nat
  BY <1>2, MessageSets, HandlerSets, HandlersAssumption, FS_CardinalityType
<1>4. /\ IsFiniteSet(Completed \ old)
      /\ Cardinality(Completed \ old) = Cardinality(Completed) - Cardinality(old)
  <2>1. Completed \cap old = old
    BY <1>1
  <2> QED
    BY <1>3, <2>1, FS_Difference
<1>5. Cardinality(Completed \ old) <= MaxKeep
  BY <1>1, <1>3, <1>4, BoundsAssumption DEF Surplus
<1>6. /\ byID' = ListActive \cup (Completed \ old)
      /\ ListActive \cap (Completed \ old) = {}
  BY <1>1 DEF ListActive, Completed
<1>7. Cardinality(byID') = Cardinality(ListActive) + Cardinality(Completed \ old)
  <2>1. Cardinality(ListActive \cap (Completed \ old)) = 0
    BY <1>6, FS_EmptySet
  <2>2. Cardinality(Completed \ old) \in Nat
    BY <1>4, FS_CardinalityType
  <2>3. Cardinality(ListActive \cup (Completed \ old)) = Cardinality(ListActive)
          + Cardinality(Completed \ old) - Cardinality(ListActive \cap (Completed \ old))
    BY <1>3, <1>4, FS_Union
  <2> QED
    BY <1>3, <1>6, <2>1, <2>2, <2>3
<1>8. Cardinality(ListActive) <= MaxActive - 1 + Cardinality(Handlers)
  BY <1>3, BoundsAssumption DEF RoomInv
<1>9. Cardinality(Completed \ old) \in Nat
  BY <1>4, FS_CardinalityType
<1> QED
  BY <1>3, <1>5, <1>7, <1>8, <1>9, BoundsAssumption

LEMMA StepSize ==
  TypeOK /\ FreshInv /\ RoomInv /\ StoreBound /\ [Next]_vars => StoreBound'
<1> SUFFICES ASSUME TypeOK, FreshInv, RoomInv, StoreBound, [Next]_vars PROVE StoreBound'
  OBVIOUS
<1> DEFINE Quiet == byID' = byID /\ Evicting' = Evicting
<1>0. Quiet => StoreBound'
  BY DEF StoreBound
<1>1. /\ byID \in SUBSET Id /\ Evicting \in SUBSET Handlers
      /\ Cardinality(Handlers) \in Nat
  BY HandlersAssumption, FS_CardinalityType DEF TypeOK, Evicting
<1>2. /\ IsFiniteSet(byID) /\ Cardinality(byID) \in Nat
      /\ IsFiniteSet(Evicting) /\ Cardinality(Evicting) \in Nat
  BY <1>1, MessageSets, HandlerSets
<1>3. ASSUME NEW h \in Handlers, NEW t, NEW p,
             CheckRoom(h) \/ NewMessage(h, t, p) \/ RecordHistory(h) \/ SignalWakeup(h)
      PROVE StoreBound'
  <2>1. Quiet
    BY <1>3 DEF CheckRoom, NewMessage, RecordHistory, SignalWakeup, store, Evicting,
       TypeOK
  <2> QED
    BY <1>0, <2>1
<1>4. ASSUME NEW h \in Handlers, AddToStore(h) PROVE StoreBound'
  <2>1. /\ byID' = byID \cup {hmsg[h]} /\ hmsg[h] \notin byID
        /\ Evicting' = Evicting \cup {h} /\ h \notin Evicting
    BY <1>4 DEF AddToStore, TypeOK, FreshInv, NotStored, Evicting
  <2>2. Cardinality(byID') = Cardinality(byID) + 1
    BY <1>2, <2>1, FS_AddElement
  <2>3. Cardinality(Evicting') = Cardinality(Evicting) + 1
    BY <1>2, <2>1, FS_AddElement
  <2> QED
    BY <1>1, <1>2, <2>2, <2>3, BoundsAssumption DEF StoreBound
<1>5. ASSUME NEW h \in Handlers, EvictCompleted(h) PROVE StoreBound'
  <2>1. Cardinality(byID') <= MaxKeep + MaxActive - 1 + Cardinality(Handlers)
    BY <1>5, EvictionLeaves
  <2>2. Evicting' \in SUBSET Handlers
    BY DEF Evicting
  <2>3. Cardinality(Evicting') \in Nat
    BY <2>2, HandlerSets
  <2>4. byID' \in SUBSET Id
    BY <1>1, <1>5 DEF EvictCompleted
  <2>5. Cardinality(byID') \in Nat
    BY <2>4, MessageSets
  <2> QED
    BY <1>1, <2>1, <2>3, <2>5, BoundsAssumption DEF StoreBound
<1>6. ASSUME NEW m \in Id, RemoveMessage(m) PROVE StoreBound'
  BY <1>0, <1>6 DEF RemoveMessage, adders, Evicting
<1>7. CASE LoopStep \/ Stop \/ UNCHANGED vars
  <2>1. byID' = byID /\ hpc' = hpc
    BY <1>7 DEF LoopStep, TickStep, IdleStep, SelectNextMessage, SelectNothing,
       SetCurrent, PublishSucceeds, PublishFails, ClearFailed, MarkDisplayed,
       DwellElapses, Complete, NotYetComplete, ClearCompleted, ClearIdle, PublishIdle,
       WaitWoken, WaitEnds, BackoffElapses, SleepCancelled, NextTick, LoopReturns,
       Stop, vars, store, adders
  <2> QED
    BY <1>0, <2>1 DEF Evicting
<1> QED
  BY <1>3, <1>4, <1>5, <1>6, <1>7 DEF Next, AddStep

LEMMA BoundsInvariant == Spec => [](TypeOK /\ RoomInv /\ StoreBound)
  BY InitTyped, StepTyped, InitFresh, StepFresh, InitBounds, StepRoom, StepSize,
     PTL DEF Spec

\* The check-then-add in AddMessage overshoots the limit by less than the number
\* of handlers, whatever that number is.
THEOREM ActiveBounded == Spec => []ActiveBound
<1>1. TypeOK /\ RoomInv => ActiveBound
  <2> SUFFICES ASSUME TypeOK, RoomInv PROVE ActiveBound OBVIOUS
  <2>1. ListActive \in SUBSET Id /\ Adding \in SUBSET Handlers
    BY DEF TypeOK, ListActive, Adding
  <2>2. /\ Cardinality(ListActive) \in Nat /\ Cardinality(Adding) \in Nat
        /\ Cardinality(Handlers) \in Nat
    BY <2>1, MessageSets, HandlerSets, HandlersAssumption, FS_CardinalityType
  <2> QED
    BY <2>2, BoundsAssumption DEF RoomInv, ActiveBound
<1> QED
  BY <1>1, BoundsInvariant, PTL

\* The store as a whole stays bounded on a server that never stops.
THEOREM StoreBounded == Spec => []StoreBound
  BY BoundsInvariant, PTL
-----------------------------------------------------------------------------
(* The current message.  The statement becomes inductive once it starts at  *)
(* the publish, which is where the loop goes after setting it.              *)

CurrentInv ==
  /\ spc \in {"publish", "mark", "dwell", "after"} => current = sel
  /\ spc \in {"idlepub", "wait", "backoff"} => current = None

LEMMA StepCurrent == CurrentInv /\ [Next]_vars => CurrentInv'
<1> SUFFICES ASSUME CurrentInv, [Next]_vars PROVE CurrentInv' OBVIOUS
<1> USE DEF CurrentInv, store, loop, adders, GoTo
<1>1. ASSUME NEW h \in Handlers, CheckRoom(h) \/ AddStep(h) PROVE CurrentInv'
  BY <1>1 DEF CheckRoom, AddStep, AddToStore, EvictCompleted, RecordHistory,
     SignalWakeup
<1>2. ASSUME NEW h \in Handlers, NEW t, NEW p, NewMessage(h, t, p)
      PROVE  CurrentInv'
  BY <1>2 DEF NewMessage
<1>3. ASSUME NEW m \in Id, RemoveMessage(m) PROVE CurrentInv'
  BY <1>3 DEF RemoveMessage
<1>4. CASE TickStep
  BY <1>4 DEF TickStep, SelectNextMessage, SelectNothing, SetCurrent, PublishSucceeds,
     PublishFails, ClearFailed, MarkDisplayed, DwellElapses, Complete,
     NotYetComplete, ClearCompleted
<1>5. CASE IdleStep
  BY <1>5 DEF IdleStep, ClearIdle, CurrentIfIdle, PublishIdle, WaitWoken, WaitEnds
<1>6. CASE BackoffElapses \/ SleepCancelled \/ NextTick \/ LoopReturns
  BY <1>6 DEF BackoffElapses, AfterBackoff, SleepCancelled, NextTick, LoopReturns
<1>7. CASE Stop
  BY <1>7 DEF Stop
<1>8. CASE UNCHANGED vars
  BY <1>8 DEF vars
<1> QED
  BY <1>1, <1>2, <1>3, <1>4, <1>5, <1>6, <1>7, <1>8 DEF Next, LoopStep

\* What GetCurrentMessage reports is the message on display while it dwells, and
\* nothing while the loop waits idle or backs off after a failed publish.
THEOREM CurrentOnDisplay == Spec => []CurrentIsOnDisplay
<1>1. Init => CurrentInv
  BY DEF Init, CurrentInv
<1>2. CurrentInv => CurrentIsOnDisplay
  BY DEF CurrentInv, CurrentIsOnDisplay
<1> QED
  BY <1>1, <1>2, StepCurrent, PTL DEF Spec
-----------------------------------------------------------------------------
(* Fairness among messages, for one request at a time: two overlapping ones *)
(* may be stored in the other order.  The strengthening carries the result  *)
(* of the comparison from the selection to the count.                       *)

OneAtATime == \A g, h \in Handlers : g = h

OrderInv ==
  /\ NoOvertaking
  /\ \A h \in Handlers : hpc[h] = "add" => hmsg[h] = nextId - 1
  /\ spc \in {"chosen", "publish", "mark"} =>
       \A a \in ListActive :
         a < sel /\ priority[a] = priority[sel] => count[sel] < count[a]

LEMMA StepOrder ==
  ASSUME OneAtATime, TypeOK, FreshInv, OrderInv, [Next]_vars PROVE OrderInv'
<1>0. TypeOK'
  BY StepTyped
<1>s. \A m \in byID : m \in Id /\ m < nextId
  BY DEF TypeOK, FreshInv, NotStored, Id
<1> USE <1>0 DEF OrderInv, NoOvertaking, ListActive, TypeOK, store, loop, adders, GoTo
<1>1. ASSUME NEW h \in Handlers, CheckRoom(h) PROVE OrderInv'
  BY <1>1 DEF CheckRoom
<1>2. ASSUME NEW h \in Handlers, NEW t \in Targets \cup {DefaultTarget},
             NEW p \in Priorities, NewMessage(h, t, p)
      PROVE OrderInv'
  <2>1. \A m \in byID : priority'[m] = priority[m]
    BY <1>2, <1>s DEF NewMessage
  <2>2. spc \in {"chosen", "publish", "mark"} => priority'[sel] = priority[sel]
    BY <1>2 DEF NewMessage, FreshInv, NotStored
  <2>3. \A g \in Handlers : hpc'[g] = "add" => hmsg'[g] = nextId' - 1
    BY <1>2 DEF NewMessage, OneAtATime
  <2> QED
    BY <1>2, <2>1, <2>2, <2>3 DEF NewMessage
<1>3. ASSUME NEW h \in Handlers, AddToStore(h) PROVE OrderInv'
  <2>1. hmsg[h] = nextId - 1 /\ count[hmsg[h]] = 0 /\ hmsg[h] \in Id
    BY <1>3 DEF AddToStore, FreshInv, NotStored
  <2>2. \A m \in byID : m < hmsg[h]
    BY <1>3, <1>s, <2>1 DEF AddToStore, FreshInv, NotStored
  <2>3. spc \in {"chosen", "publish", "mark"} => sel < hmsg[h]
    BY <1>3, <2>1 DEF AddToStore, FreshInv, NotStored
  <2>4. NoOvertaking'
    BY <1>3, <2>1, <2>2 DEF AddToStore
  <2> QED
    BY <1>3, <2>1, <2>3, <2>4 DEF AddToStore
<1>4. ASSUME NEW h \in Handlers, EvictCompleted(h) PROVE OrderInv'
  BY <1>4 DEF EvictCompleted
<1>5. ASSUME NEW h \in Handlers, RecordHistory(h) PROVE OrderInv'
  BY <1>5 DEF RecordHistory
<1>6. ASSUME NEW h \in Handlers, SignalWakeup(h) PROVE OrderInv'
  BY <1>6 DEF SignalWakeup
<1>7. ASSUME NEW m \in Id, RemoveMessage(m) PROVE OrderInv'
  BY <1>7 DEF RemoveMessage
<1>8. CASE SelectNextMessage
  <2>1. \A a \in ListActive : a < sel' /\ priority[a] = priority[sel'] =>
                             count[sel'] < count[a]
    BY <1>8 DEF SelectNextMessage, Before, PriorityRank
  <2> QED
    BY <1>8, <2>1 DEF SelectNextMessage
<1>9. CASE MarkDisplayed
  <2>1. CASE sel \in byID
    <3>1. /\ spc' = "dwell" /\ UNCHANGED <<byID, priority, hpc, hmsg, nextId>>
          /\ count' = [count EXCEPT ![sel] = count[sel] + 1]
          /\ \A m \in byID : status'[m] # "Completed" => status[m] # "Completed"
      BY <1>9, <2>1 DEF MarkDisplayed, CountUp, Promoted
    <3>2. \A a \in ListActive : a < sel /\ priority[a] = priority[sel] =>
                               count[sel] + 1 <= count[a]
      BY <1>9 DEF MarkDisplayed
    <3>3. ASSUME NEW a \in ListActive, NEW b \in ListActive, a < b,
                 priority[a] = priority[b]
          PROVE  count'[b] <= count'[a]
      <4>1. count[b] <= count[a] /\ count[a] \in Nat /\ count[b] \in Nat
        BY <3>3
      <4>2. CASE b = sel
        BY <3>1, <3>2, <3>3, <4>1, <4>2, <2>1
      <4>3. CASE b # sel
        BY <3>1, <3>3, <4>1, <4>3, <2>1
      <4> QED
        BY <4>2, <4>3
    <3>4. NoOvertaking'
      BY <3>1, <3>3
    <3> QED
      BY <3>1, <3>4
  <2>2. CASE sel \notin byID
    BY <1>9, <2>2 DEF MarkDisplayed
  <2> QED
    BY <2>1, <2>2
<1>10. CASE Complete
  BY <1>10 DEF Complete
<1>11. CASE SelectNothing \/ SetCurrent \/ PublishSucceeds \/ PublishFails \/ ClearFailed
            \/ DwellElapses \/ NotYetComplete \/ ClearCompleted
  BY <1>11 DEF SelectNothing, SetCurrent, PublishSucceeds, PublishFails, ClearFailed,
     DwellElapses, NotYetComplete, ClearCompleted
<1>12. CASE IdleStep \/ BackoffElapses \/ SleepCancelled \/ NextTick \/ LoopReturns
  BY <1>12 DEF IdleStep, ClearIdle, PublishIdle, WaitWoken, WaitEnds, BackoffElapses,
     AfterBackoff, SleepCancelled, NextTick, LoopReturns
<1>13. CASE Stop \/ UNCHANGED vars
  BY <1>13 DEF Stop, vars
<1> QED
  BY <1>1, <1>2, <1>3, <1>4, <1>5, <1>6, <1>7, <1>8, <1>9, <1>10, <1>11, <1>12, <1>13
     DEF Next, AddStep, LoopStep, TickStep

\* While requests come one at a time, of two waiting messages of the same priority
\* the older has never been shown less often.
THEOREM OlderFirst ==
  ASSUME OneAtATime
  PROVE  Spec => []NoOvertaking
<1>1. Init => TypeOK /\ FreshInv /\ OrderInv
  BY InitTyped, InitFresh DEF Init, OrderInv, NoOvertaking, ListActive
<1>2. TypeOK /\ FreshInv /\ OrderInv /\ [Next]_vars => (TypeOK /\ FreshInv /\ OrderInv)'
  BY StepTyped, StepFresh, StepOrder
<1>3. OrderInv => NoOvertaking
  BY DEF OrderInv
<1> QED
  BY <1>1, <1>2, <1>3, PTL DEF Spec
-----------------------------------------------------------------------------
(* The history.  A record older than m that arrives after m was in another  *)
(* handler's hands when m was recorded: what has arrived and what is still   *)
(* to come leave at least m's own handler out.                              *)

Later(m) == {i \in DOMAIN hist : hist[i] < m /\ \A j \in 1 .. i : hist[j] # m}
Unrecorded(m) ==
  {h \in Handlers : hpc[h] \in {"add", "evict", "record"} /\ hmsg[h] < m}

HistoryInv == \A m \in Id : Recorded(m) =>
  /\ (\A i \in DOMAIN hist : hist[i] # m) => Len(hist) = MaxHistory
  /\ Cardinality(Later(m)) + Cardinality(Unrecorded(m)) <= Cardinality(Handlers) - 1

LEMMA RecordShifts ==
  ASSUME TypeOK, NEW h \in Handlers, RecordHistory(h)
  PROVE  /\ hist'[1] = hmsg[h] /\ 1 \in DOMAIN hist'
         /\ \A i \in DOMAIN hist' \ {1} : i - 1 \in DOMAIN hist /\ hist'[i] = hist[i - 1]
         /\ Len(hist') = IF Len(hist) < MaxHistory THEN Len(hist) + 1 ELSE MaxHistory
         /\ DOMAIN hist' = 1 .. Len(hist') /\ DOMAIN hist = 1 .. Len(hist)
<1> DEFINE kept == KeepRoom(hist)
<1>1. /\ kept \in Seq(Id) /\ hmsg[h] \in Id /\ Len(hist) \in Nat
      /\ Len(kept) = IF Len(hist) < MaxHistory THEN Len(hist) ELSE MaxHistory - 1
      /\ \A i \in 1 .. Len(kept) : kept[i] = hist[i]
  <2>1. hmsg[h] \in Id /\ hist \in Seq(Id) /\ Len(hist) \in Nat /\ Len(hist) <= MaxHistory
    BY DEF TypeOK, RecordHistory
  <2>2. CASE Len(hist) < MaxHistory
    BY <2>1, <2>2 DEF KeepRoom
  <2>3. CASE Len(hist) = MaxHistory
    <3>1. \A i \in 1 .. MaxHistory - 1 : hist[i] \in Id
      BY <2>1, <2>3, BoundsAssumption, ElementOfSeq
    <3>2. /\ SubSeq(hist, 1, MaxHistory - 1) \in Seq(Id)
          /\ Len(SubSeq(hist, 1, MaxHistory - 1)) = MaxHistory - 1
          /\ \A i \in 1 .. MaxHistory - 1 : SubSeq(hist, 1, MaxHistory - 1)[i] = hist[i]
      BY <3>1, BoundsAssumption, SubSeqProperties
    <3>3. kept = SubSeq(hist, 1, MaxHistory - 1) /\ ~(Len(hist) < MaxHistory)
      BY <2>3, BoundsAssumption DEF KeepRoom
    <3> QED
      BY <2>1, <3>2, <3>3, Zenon
  <2> QED
    BY <2>1, <2>2, <2>3, BoundsAssumption
<1>2. hist' = <<hmsg[h]>> \o kept
  BY DEF RecordHistory
<1> HIDE DEF kept
<1>3. /\ Len(hist') = 1 + Len(kept) /\ hist'[1] = hmsg[h] /\ hist' \in Seq(Id)
      /\ \A i \in 2 .. 1 + Len(kept) : hist'[i] = kept[i - 1]
  BY <1>1, <1>2
<1>4. hist \in Seq(Id) /\ DOMAIN hist = 1 .. Len(hist) /\ DOMAIN hist' = 1 .. Len(hist')
  BY <1>3 DEF TypeOK
<1>5. Len(hist) \in Nat /\ Len(kept) \in Nat /\ MaxHistory \in Nat \ {0}
      /\ Len(hist) <= MaxHistory
  BY <1>1, BoundsAssumption DEF TypeOK
<1> QED
  BY <1>1, <1>3, <1>4, <1>5

LEMMA LaterSets ==
  ASSUME TypeOK, NEW m
  PROVE  /\ IsFiniteSet(Later(m)) /\ Cardinality(Later(m)) \in Nat
         /\ IsFiniteSet(Unrecorded(m)) /\ Cardinality(Unrecorded(m)) \in Nat
         /\ IsFiniteSet(Handlers) /\ Cardinality(Handlers) \in Nat
<1>1. IsFiniteSet(DOMAIN hist)
  BY FS_Interval DEF TypeOK
<1>2. Later(m) \in SUBSET DOMAIN hist /\ Unrecorded(m) \in SUBSET Handlers
  BY DEF Later, Unrecorded
<1> QED
  BY <1>1, <1>2, HandlersAssumption, FS_Subset, FS_CardinalityType

\* What recording k does to the records that came after m.
LEMMA LaterAfterRecord ==
  ASSUME TypeOK, TypeOK', NEW h \in Handlers, RecordHistory(h), NEW m \in Id, hmsg[h] # m
  PROVE  Cardinality(Later(m)') <= Cardinality(Later(m)) + (IF hmsg[h] < m THEN 1 ELSE 0)
<1> DEFINE old == Later(m)' \ {1}
           back == [i \in old |-> i - 1]
<1>0. Len(hist') \in Nat /\ DOMAIN hist' = 1 .. Len(hist')
  BY DEF TypeOK
<1>1. \A i \in old : i \in Int /\ i - 1 \in Later(m)
  <2> SUFFICES ASSUME NEW i \in old PROVE i \in Int /\ i - 1 \in Later(m)
    OBVIOUS
  <2>1. i \in DOMAIN hist' \ {1} /\ hist'[i] < m /\ \A j \in 1 .. i : hist'[j] # m
    BY DEF Later
  <2>2. i \in Int /\ i > 1 /\ i <= Len(hist') /\ Len(hist') \in Nat
    BY <2>1, <1>0
  <2>3. i - 1 \in DOMAIN hist /\ hist[i - 1] < m
    BY <2>1, RecordShifts
  <2>4. ASSUME NEW j \in 1 .. i - 1 PROVE hist[j] # m
    <3>1. j + 1 \in DOMAIN hist' \ {1} /\ j + 1 \in 1 .. i /\ (j + 1) - 1 = j
      BY <2>2, <2>4, RecordShifts
    <3>2. hist'[j + 1] # m
      BY <2>1, <3>1
    <3>3. hist'[j + 1] = hist[(j + 1) - 1]
      BY <3>1, RecordShifts
    <3> QED
      BY <3>1, <3>2, <3>3
  <2> QED
    BY <2>2, <2>3, <2>4 DEF Later
<1>2. back \in Injection(old, Later(m))
  <2>1. back \in [old -> Later(m)]
    BY <1>1
  <2>2. \A a, b \in old : back[a] = back[b] => a = b
    BY <1>1
  <2> QED
    BY <2>1, <2>2, Fun_IsInj
<1>3. IsFiniteSet(old) /\ Cardinality(old) <= Cardinality(Later(m))
  BY <1>2, LaterSets, FS_Injection
<1>4. IsFiniteSet(Later(m)') /\ Cardinality(Later(m)') \in Nat
  <2>1. Later(m)' \in SUBSET (1 .. Len(hist'))
    BY <1>0 DEF Later
  <2>2. IsFiniteSet(1 .. Len(hist'))
    BY <1>0, FS_Interval
  <2>3. IsFiniteSet(Later(m)')
    BY <2>1, <2>2, FS_Subset
  <2> QED
    BY <2>3, FS_CardinalityType
<1>5. Cardinality(old) = IF 1 \in Later(m)' THEN Cardinality(Later(m)') - 1
                                            ELSE Cardinality(Later(m)')
  BY <1>4, FS_RemoveElement
<1>6. 1 \in Later(m)' => hmsg[h] < m
  BY RecordShifts DEF Later
<1>7. Cardinality(old) \in Nat /\ Cardinality(Later(m)) \in Nat
  BY <1>3, LaterSets, FS_CardinalityType
<1> QED
  BY <1>3, <1>4, <1>5, <1>6, <1>7
\* Recording k: a message k that was in h's hands has all others before it, and one
\* that was recorded earlier gains a record only from a handler that owed it.
LEMMA HistoryAfterRecord ==
  ASSUME TypeOK, TypeOK', HistoryInv, NEW h \in Handlers, RecordHistory(h),
         NEW m \in Id, Recorded(m)'
  PROVE  /\ (\A i \in DOMAIN hist' : hist'[i] # m) => Len(hist') = MaxHistory
         /\ Cardinality(Later(m)') + Cardinality(Unrecorded(m)')
              <= Cardinality(Handlers) - 1
<1>1. /\ hpc[h] = "record" /\ hpc' = [hpc EXCEPT ![h] = "signal"]
      /\ UNCHANGED <<hmsg, nextId>> /\ hmsg[h] \in Id /\ hpc' \in [Handlers -> HandlerPc]
  BY DEF RecordHistory, TypeOK, adders, store, HandlerPc
<1>2. Unrecorded(m)' = Unrecorded(m) \ {h}
  BY <1>1 DEF Unrecorded, TypeOK
<1>3. IsFiniteSet(Unrecorded(m)') /\ Cardinality(Unrecorded(m)') \in Nat
  <2>1. IsFiniteSet(Unrecorded(m))
    BY LaterSets
  <2>2. IsFiniteSet(Unrecorded(m) \ {h})
    BY <2>1, FS_RemoveElement
  <2> QED
    BY <1>2, <2>2, FS_CardinalityType
<1>4. CASE hmsg[h] = m
  <2>1. Later(m)' = {}
    <3>1. ASSUME NEW i \in Later(m)' PROVE FALSE
      <4>1. i \in 1 .. Len(hist') /\ \A j \in 1 .. i : hist'[j] # m
        BY RecordShifts DEF Later
      <4>2. 1 \in 1 .. i
        BY <4>1 DEF TypeOK
      <4> QED
        BY <4>1, <4>2, <1>4, RecordShifts
    <3> QED
      BY <3>1
  <2>2. Cardinality(Later(m)') = 0
    BY <2>1, FS_EmptySet
  <2>3. Unrecorded(m)' \in SUBSET (Handlers \ {h})
    BY <1>2 DEF Unrecorded
  <2>4. /\ IsFiniteSet(Handlers \ {h})
        /\ Cardinality(Handlers \ {h}) = Cardinality(Handlers) - 1
    BY HandlersAssumption, FS_RemoveElement
  <2>5. Cardinality(Unrecorded(m)') <= Cardinality(Handlers) - 1
    BY <2>3, <2>4, FS_Subset
  <2>6. ~(\A i \in DOMAIN hist' : hist'[i] # m)
    BY <1>4, RecordShifts
  <2> QED
    BY <1>3, <2>2, <2>5, <2>6
<1>5. CASE hmsg[h] # m
  <2>1. Recorded(m)
    BY <1>1, <1>5 DEF Recorded, TypeOK
  <2>2. (\A i \in DOMAIN hist' : hist'[i] # m) => Len(hist') = MaxHistory
    <3> SUFFICES ASSUME \A i \in DOMAIN hist' : hist'[i] # m, Len(hist) < MaxHistory
                 PROVE  FALSE
      BY RecordShifts
    <3>0. Len(hist) \in Nat
      BY DEF TypeOK
    <3>1. Len(hist') = Len(hist) + 1 /\ Len(hist) \in Nat
      BY <3>0, RecordShifts
    <3>2. ASSUME NEW i \in DOMAIN hist PROVE hist[i] # m
      <4>1. i + 1 \in DOMAIN hist' \ {1} /\ (i + 1) - 1 = i
        BY <3>1, <3>2, RecordShifts
      <4>2. hist'[i + 1] = hist[(i + 1) - 1]
        BY <4>1, RecordShifts
      <4> QED
        BY <4>1, <4>2
    <3>3. Len(hist) = MaxHistory
      BY <2>1, <3>2 DEF HistoryInv
    <3> QED
      BY <3>1, <3>3
  <2>3. Cardinality(Later(m)) + Cardinality(Unrecorded(m)) <= Cardinality(Handlers) - 1
    BY <2>1 DEF HistoryInv
  <2>4. h \in Unrecorded(m) <=> hmsg[h] < m
    BY <1>1 DEF Unrecorded
  <2>5. Cardinality(Unrecorded(m)') =
          Cardinality(Unrecorded(m)) - (IF hmsg[h] < m THEN 1 ELSE 0)
    <3>1. IsFiniteSet(Unrecorded(m)) /\ Cardinality(Unrecorded(m)) \in Nat
      BY LaterSets
    <3>2. Cardinality(Unrecorded(m) \ {h}) =
            IF h \in Unrecorded(m) THEN Cardinality(Unrecorded(m)) - 1
                                   ELSE Cardinality(Unrecorded(m))
      BY <3>1, FS_RemoveElement
    <3> QED
      BY <1>2, <2>4, <3>1, <3>2
  <2>6. Cardinality(Later(m)') <= Cardinality(Later(m)) + (IF hmsg[h] < m THEN 1 ELSE 0)
    BY <1>5, LaterAfterRecord
  <2>7. Cardinality(Later(m)') \in Nat
    <3>1. Later(m)' \in SUBSET (1 .. Len(hist')) /\ Len(hist') \in Nat
      BY DEF Later, TypeOK
    <3>2. IsFiniteSet(1 .. Len(hist'))
      BY <3>1, FS_Interval
    <3> QED
      BY <3>1, <3>2, FS_Subset, FS_CardinalityType
  <2> QED
    BY <2>2, <2>3, <2>5, <2>6, <2>7, LaterSets, <1>3
<1> QED
  BY <1>4, <1>5

LEMMA StepHistory ==
  ASSUME TypeOK, FreshInv, HistoryInv, [Next]_vars PROVE HistoryInv'
<1>0. TypeOK'
  BY StepTyped
<1>k. ASSUME UNCHANGED hist,
             \A m \in Id : Recorded(m)' => Recorded(m),
             \A m \in Id : Recorded(m)' => Unrecorded(m)' = Unrecorded(m)
      PROVE HistoryInv'
  <2>1. \A m : Later(m)' = Later(m)
    BY <1>k DEF Later
  <2> QED
    BY <1>k, <2>1 DEF HistoryInv
<1> USE DEF store, loop, adders
<1>1. CASE UNCHANGED <<hist, hpc, hmsg, nextId>>
  BY <1>1, <1>k DEF Recorded, Unrecorded
<1>2. ASSUME NEW h \in Handlers, CheckRoom(h) PROVE HistoryInv'
  BY <1>2, <1>k DEF CheckRoom, Recorded, Unrecorded, TypeOK
<1>3. ASSUME NEW h \in Handlers, NEW t \in Targets \cup {DefaultTarget},
             NEW p \in Priorities, NewMessage(h, t, p)
      PROVE HistoryInv'
  <2>1. /\ hpc[h] = "create" /\ hpc' = [hpc EXCEPT ![h] = "add"]
        /\ hmsg' = [hmsg EXCEPT ![h] = nextId] /\ nextId' = nextId + 1 /\ hist' = hist
        /\ nextId \in Nat
    BY <1>3 DEF NewMessage, TypeOK
  <2>2. \A m \in Id : Recorded(m)' => Recorded(m)
    BY <2>1 DEF Recorded, TypeOK, Id
  <2>3. \A m \in Id : Recorded(m)' => Unrecorded(m)' = Unrecorded(m)
    BY <2>1, <2>2 DEF Recorded, Unrecorded, TypeOK, Id
  <2> QED
    BY <1>k, <2>1, <2>2, <2>3
<1>4. ASSUME NEW h \in Handlers, AddToStore(h) PROVE HistoryInv'
  BY <1>4, <1>k DEF AddToStore, Recorded, Unrecorded, TypeOK
<1>5. ASSUME NEW h \in Handlers, EvictCompleted(h) PROVE HistoryInv'
  BY <1>5, <1>k DEF EvictCompleted, Recorded, Unrecorded, TypeOK
<1>6. ASSUME NEW h \in Handlers, RecordHistory(h) PROVE HistoryInv'
  BY <1>0, <1>6, HistoryAfterRecord DEF HistoryInv
<1>7. ASSUME NEW h \in Handlers, SignalWakeup(h) PROVE HistoryInv'
  BY <1>7, <1>k DEF SignalWakeup, Recorded, Unrecorded, TypeOK
<1>8. ASSUME NEW m \in Id, RemoveMessage(m) PROVE HistoryInv'
  BY <1>1, <1>8 DEF RemoveMessage
<1>9. CASE TickStep
  BY <1>1, <1>9 DEF TickStep, SelectNextMessage, SelectNothing, SetCurrent,
     PublishSucceeds, PublishFails, ClearFailed, MarkDisplayed, DwellElapses, Complete,
     NotYetComplete, ClearCompleted
<1>10. CASE IdleStep \/ BackoffElapses \/ SleepCancelled \/ NextTick \/ LoopReturns
  BY <1>1, <1>10 DEF IdleStep, ClearIdle, PublishIdle, WaitWoken, WaitEnds,
     BackoffElapses, SleepCancelled, NextTick, LoopReturns
<1>11. CASE Stop \/ UNCHANGED vars
  BY <1>1, <1>11 DEF Stop, vars
<1> QED
  BY <1>2, <1>3, <1>4, <1>5, <1>6, <1>7, <1>8, <1>9, <1>10, <1>11
     DEF Next, AddStep, LoopStep

\* A message missing from the history was pushed out by MaxHistory later records, and
\* fewer of those than there are handlers are of messages older than it.
THEOREM NewestKept == Spec => []HistoryKeepsNewest
<1>1. Init => TypeOK /\ FreshInv /\ HistoryInv
  BY InitTyped, InitFresh DEF Init, HistoryInv, Recorded, Id
<1>2. TypeOK /\ FreshInv /\ HistoryInv /\ [Next]_vars
        => (TypeOK /\ FreshInv /\ HistoryInv)'
  BY StepTyped, StepFresh, StepHistory
<1>3. TypeOK /\ HistoryInv => HistoryKeepsNewest
  <2> SUFFICES ASSUME TypeOK, HistoryInv, NEW m \in Id, Recorded(m),
                      \A i \in DOMAIN hist : hist[i] # m
               PROVE  /\ Len(hist) = MaxHistory
                      /\ Cardinality({i \in DOMAIN hist : hist[i] < m})
                           < Cardinality(Handlers)
    BY DEF HistoryKeepsNewest
  <2>1. {i \in DOMAIN hist : hist[i] < m} = Later(m)
    <3>1. DOMAIN hist = 1 .. Len(hist) /\ Len(hist) \in Nat
      BY DEF TypeOK
    <3> QED
      BY <3>1 DEF Later
  <2>2. Len(hist) = MaxHistory
        /\ Cardinality(Later(m)) + Cardinality(Unrecorded(m)) <= Cardinality(Handlers) - 1
    BY DEF HistoryInv
  <2> QED
    <3>1. /\ Cardinality(Later(m)) \in Nat /\ Cardinality(Unrecorded(m)) \in Nat
          /\ Cardinality(Handlers) \in Nat
      BY LaterSets
    <3>2. Cardinality(Later(m)) < Cardinality(Handlers)
      BY <2>2, <3>1
    <3> QED
      BY <2>1, <2>2, <3>2
<1> QED
  BY <1>1, <1>2, <1>3, PTL DEF Spec

-----------------------------------------------------------------------------
(* The messages as a board.                                                *)

BoardLimit == MaxActive + Cardinality(Handlers) - 1
BoardState  == [m \in Id |-> State(m)]
BoardWanted == [m \in Id |-> IF State(m) = "new" THEN 0 ELSE Wanted(m)]
BoardRank   == [m \in Id |-> IF State(m) = "new" THEN 0 ELSE PriorityRank(priority[m])]
BoardChoice == IF Phase \in {"chosen", "showing"} THEN sel ELSE None
board       == <<BoardState, BoardWanted, BoardRank, shown, Phase, BoardChoice>>

\* The steps that do not change what the board sees of the messages.
LEMMA SameMessages ==
  ASSUME UNCHANGED <<target, priority, shown>>,
         \A m \in Id : State(m)' = State(m)
  PROVE  UNCHANGED <<BoardState, BoardWanted, BoardRank, shown>>
BY DEF BoardState, BoardWanted, BoardRank, Wanted

LEMMA SamePlace == UNCHANGED <<spc, sel>> => UNCHANGED <<Phase, BoardChoice>>
BY DEF Phase, BoardChoice

\* The board counts as the scheduler does.
LEMMA BoardCounts == \A S : Board!Cardinality(S) = Cardinality(S)
  BY Zenon DEF Board!Cardinality, Cardinality

LEMMA BoardWaiting == TypeOK => Board!Waiting = ListActive
  BY DEF Board!Waiting, State, ListActive, TypeOK

LEMMA AcceptStep ==
  ASSUME TypeOK, FreshInv, RoomInv, NEW h \in Handlers, AddToStore(h),
         NEW m \in Id, m = hmsg[h]
  PROVE  Board!Accept(m)
<1>1. /\ m \in Id /\ m \notin byID /\ status[m] = "Pending" /\ hpc[h] = "add"
      /\ byID' = byID \cup {m}
      /\ UNCHANGED <<status, target, priority, shown, spc, sel>>
  BY DEF AddToStore, TypeOK, FreshInv, NotStored, loop
<1>c. Cardinality(ListActive) < BoardLimit
  <2>1. h \in Adding /\ Adding \in SUBSET Handlers
    BY <1>1 DEF Adding
  <2>2. Cardinality(Adding) \in Nat /\ IsFiniteSet(Adding) /\ Adding # {}
    BY <2>1, HandlerSets
  <2>3. Cardinality(Adding) # 0
    BY <2>2, FS_EmptySet
  <2>4. Cardinality(ListActive) \in Nat
    BY MessageSets DEF TypeOK, ListActive
  <2>5. Cardinality(Handlers) \in Nat
    BY HandlersAssumption, FS_CardinalityType
  <2> QED
    BY <2>2, <2>3, <2>4, <2>5, BoundsAssumption DEF RoomInv, BoardLimit
<1>2. State(m) = "new" /\ State(m)' = "waiting"
  BY <1>1 DEF State
<1>3. \A o \in Id \ {m} : State(o)' = State(o)
  BY <1>1 DEF State
<1>4. Wanted(m) \in Nat \ {0} /\ \A o \in Id : Wanted(o)' = Wanted(o)
  BY <1>1 DEF Wanted, TypeOK
<1>5. BoardState' = [BoardState EXCEPT ![m] = "waiting"] /\ BoardState[m] = "new"
  BY <1>1, <1>2, <1>3 DEF BoardState
<1>6. /\ BoardWanted'[m] \in Nat \ {0}
      /\ BoardWanted' = [BoardWanted EXCEPT ![m] = BoardWanted'[m]]
  BY <1>1, <1>2, <1>3, <1>4 DEF BoardWanted
<1>7. /\ BoardRank'[m] \in {0, 1}
      /\ BoardRank' = [BoardRank EXCEPT ![m] = BoardRank'[m]]
  BY <1>1, <1>2, <1>3 DEF BoardRank, PriorityRank
<1>8. Board!Cardinality(Board!Waiting) < BoardLimit
  BY <1>c, BoardWaiting, BoardCounts
<1>9. UNCHANGED <<Phase, BoardChoice>> /\ shown' = shown
  BY <1>1, SamePlace
<1> QED
  BY <1>5, <1>6, <1>7, <1>8, <1>9
     DEF Board!Accept, BoardState, BoardWanted, BoardRank, BoardLimit, BoardChoice

\* Deleting a message that is done already is nothing to the board.
LEMMA DeleteStep ==
  ASSUME TypeOK, NEW m \in Id, RemoveMessage(m)
  PROVE  Board!Delete(m) \/ UNCHANGED board
<1>1. /\ m \in byID /\ status' = [status EXCEPT ![m] = "Completed"]
      /\ UNCHANGED <<byID, target, priority, shown, spc, sel>>
  BY DEF RemoveMessage, loop
<1>2. State(m)' = "done" /\ State(m) \in {"waiting", "done"}
  BY <1>1 DEF State, TypeOK
<1>3. \A o \in Id \ {m} : State(o)' = State(o)
  BY <1>1 DEF State, TypeOK
<1>4. UNCHANGED <<Phase, BoardChoice>> /\ shown' = shown
  BY <1>1, SamePlace
<1>5. UNCHANGED <<BoardWanted, BoardRank>>
  <2>1. \A o \in Id : Wanted(o)' = Wanted(o)
    BY <1>1 DEF Wanted
  <2>2. \A o \in Id : (State(o)' = "new") <=> (State(o) = "new")
    BY <1>2, <1>3
  <2> QED
    BY <1>1, <2>1, <2>2 DEF BoardWanted, BoardRank
<1>6. CASE State(m) = "done"
  <2>1. BoardState' = BoardState
    BY <1>2, <1>3, <1>6 DEF BoardState
  <2> QED
    BY <1>4, <1>5, <2>1 DEF board
<1>7. CASE State(m) = "waiting"
  <2>1. BoardState' = [BoardState EXCEPT ![m] = "done"] /\ BoardState[m] = "waiting"
    BY <1>2, <1>3, <1>7 DEF BoardState
  <2> QED
    BY <1>4, <1>5, <2>1
       DEF Board!Delete, BoardState, BoardWanted, BoardRank, BoardChoice
<1> QED
  BY <1>2, <1>6, <1>7

\* The scheduler's order is the board's: a waiting message's count is how often it
\* was shown, and the message chosen has not been shown as often as it wants.
LEMMA ChooseStep ==
  ASSUME TypeOK, CountInv, DisplayInv, SelectNextMessage
  PROVE  \E m \in Id : Board!Choose(m)
<1>1. PICK m \in ListActive : (\A o \in ListActive \ {m} : Before(m, o)) /\ sel' = m
  BY DEF SelectNextMessage
<1>2. /\ spc = "tick" /\ spc' = "chosen" /\ m \in Id /\ ListActive \subseteq Id
      /\ UNCHANGED <<byID, status, target, priority, shown>>
  BY <1>1 DEF SelectNextMessage, TypeOK, ListActive, store, GoTo
<1>3. \A o \in ListActive : shown[o] = count[o] /\ State(o) = "waiting"
  <2>1. \A o \in ListActive : shown[o] = count[o] + 0
    BY <1>2 DEF DisplayInv, ShownMatchesCount, ListActive
  <2>2. \A o \in ListActive : State(o) = "waiting"
    BY DEF ListActive, State
  <2> QED
    BY <2>1, <2>2, <1>2 DEF TypeOK
<1>4. BoardState[m] = "waiting"
  BY <1>1, <1>2, <1>3 DEF BoardState
<1>5. shown[m] < BoardWanted[m]
  <2>1. BoardWanted[m] = Wanted(m)
    BY <1>1, <1>2, <1>3 DEF BoardWanted
  <2>2. ~Exhausted(m)
    BY <1>1, <1>2 DEF CountInv
  <2>3. count[m] \in Nat /\ target[m] \in Int
    BY <1>2 DEF TypeOK
  <2> QED
    BY <1>1, <1>3, <2>1, <2>2, <2>3 DEF Exhausted, Wanted
<1>6. \A o \in Board!Waiting \ {m} : Board!Precedes(m, o)
  <2> SUFFICES ASSUME NEW o \in ListActive, o # m PROVE Board!Precedes(m, o)
    BY BoardWaiting
  <2>1. Before(m, o) /\ o \in Id
    BY <1>1, <1>2
  <2>2. /\ BoardRank[m] = PriorityRank(priority[m])
        /\ BoardRank[o] = PriorityRank(priority[o])
    BY <1>1, <1>2, <1>3, <2>1 DEF BoardRank
  <2> QED
    BY <1>1, <1>3, <2>1, <2>2 DEF Before, Board!Precedes, BoardRank
<1>7. Phase = "free" /\ Phase' = "chosen" /\ BoardChoice' = m
  BY <1>1, <1>2 DEF Phase, BoardChoice
<1>8. UNCHANGED <<BoardState, BoardWanted, BoardRank, shown>>
  <2>1. \A o \in Id : State(o)' = State(o)
    BY <1>2 DEF State
  <2> QED
    BY <1>2, <2>1, SameMessages
<1>9. Board!Choose(m)
  BY <1>4, <1>5, <1>6, <1>7, <1>8
     DEF Board!Choose, BoardState, BoardWanted, BoardRank, BoardChoice
<1> QED
  BY <1>2, <1>9

\* The steps of the loop that leave the messages alone.
LEMMA StoreKept ==
  UNCHANGED <<byID, status, target, priority>>
    => UNCHANGED <<BoardState, BoardWanted, BoardRank>>
BY DEF BoardState, BoardWanted, BoardRank, State, Wanted

LEMMA ShowStep == TypeOK /\ PublishSucceeds => Board!Show
<1> SUFFICES ASSUME TypeOK, PublishSucceeds PROVE Board!Show OBVIOUS
<1>1. /\ spc = "publish" /\ spc' = "mark" /\ sel' = sel
      /\ shown' = [shown EXCEPT ![sel] = @ + 1]
      /\ UNCHANGED <<byID, status, target, priority>>
  BY DEF PublishSucceeds, store, GoTo
<1>2. /\ Phase = "chosen" /\ Phase' = "showing"
      /\ BoardChoice = sel /\ BoardChoice' = BoardChoice
  BY <1>1 DEF Phase, BoardChoice
<1> QED
  BY <1>1, <1>2, StoreKept
     DEF Board!Show, BoardState, BoardWanted, BoardRank, BoardChoice

LEMMA MissStep == PublishFails => Board!Miss
<1> SUFFICES ASSUME PublishFails PROVE Board!Miss OBVIOUS
<1>1. spc = "publish" /\ spc' = "failed" /\ UNCHANGED <<byID, status, target, priority, shown>>
  BY DEF PublishFails, store, GoTo
<1>2. Phase = "chosen" /\ Phase' = "free" /\ BoardChoice' = None
  BY <1>1 DEF Phase, BoardChoice
<1> QED
  BY <1>1, <1>2, StoreKept
     DEF Board!Miss, BoardState, BoardWanted, BoardRank, BoardChoice

LEMMA HaltStep == SleepCancelled \/ LoopReturns => Board!Halt
<1> SUFFICES ASSUME SleepCancelled \/ LoopReturns PROVE Board!Halt OBVIOUS
<1>1. /\ spc \in {"backoff", "dwell", "between"} /\ spc' = "stopped"
      /\ UNCHANGED <<byID, status, target, priority, shown>>
  BY DEF SleepCancelled, LoopReturns, store, GoTo
<1>2. Phase \in {"free", "showing"} /\ Phase' = "halted" /\ BoardChoice' = None
  BY <1>1 DEF Phase, BoardChoice
<1> QED
  BY <1>1, <1>2, StoreKept
     DEF Board!Halt, BoardState, BoardWanted, BoardRank, BoardChoice

\* When the dwell is over, the target is reached exactly if the message has been
\* shown as often as it wants.
LEMMA RestStep ==
  ASSUME TypeOK, CountInv, DisplayInv, Complete \/ NotYetComplete
  PROVE  Board!Rest
<1>1. /\ spc = "after" /\ spc' \in {"clear", "between"} /\ sel \in Id
      /\ UNCHANGED <<byID, target, priority, shown, sel>>
  BY DEF Complete, NotYetComplete, store, TypeOK, GoTo
<1>2. Phase = "showing" /\ Phase' = "free" /\ BoardChoice = sel /\ BoardChoice' = None
  BY <1>1 DEF Phase, BoardChoice
<1>3. \A o \in Id \ {sel} : State(o)' = State(o)
  BY <1>1 DEF Complete, NotYetComplete, store, State, TypeOK
<1>4. (State(sel)' = "new") <=> (State(sel) = "new")
  BY <1>1 DEF Complete, NotYetComplete, store, State, TypeOK
<1>5. UNCHANGED <<BoardWanted, BoardRank>>
  <2>1. \A o \in Id : Wanted(o)' = Wanted(o)
    BY <1>1 DEF Wanted
  <2>2. \A o \in Id : (State(o)' = "new") <=> (State(o) = "new")
    BY <1>1, <1>3, <1>4
  <2> QED
    BY <1>1, <2>1, <2>2 DEF BoardWanted, BoardRank
<1>6. CASE State(sel) = "waiting"
  <2>1. sel \in byID /\ status[sel] # "Completed"
    BY <1>6 DEF State
  <2>2. /\ count[sel] > 0 /\ shown[sel] = count[sel] /\ count[sel] <= Wanted(sel)
        /\ count[sel] \in Nat /\ target[sel] \in Int
    BY <1>1, <2>1
       DEF CountInv, CountWithinTarget, DisplayInv, ShownMatchesCount, Wanted, TypeOK
  <2>3. TargetReached(sel) <=> shown[sel] = Wanted(sel)
    BY <2>2 DEF TargetReached, Wanted
  <2>4. BoardWanted[sel] = Wanted(sel) /\ BoardState[sel] = "waiting"
    BY <1>1, <1>6 DEF BoardWanted, BoardState
  <2>5. CASE Complete
    <3>1. State(sel)' = "done"
      BY <1>1, <2>1, <2>5 DEF Complete, State, TypeOK
    <3>2. BoardState' = [BoardState EXCEPT ![sel] = "done"]
      BY <1>1, <1>3, <3>1 DEF BoardState
    <3>3. shown[sel] = BoardWanted[sel]
      BY <2>3, <2>4, <2>5 DEF Complete
    <3> QED
      BY <1>1, <1>2, <1>5, <2>4, <3>2, <3>3
         DEF Board!Rest, BoardState, BoardWanted, BoardRank, BoardChoice
  <2>6. CASE NotYetComplete
    <3>1. BoardState' = BoardState
      BY <2>6, StoreKept DEF NotYetComplete, store
    <3>2. shown[sel] # BoardWanted[sel]
      BY <2>3, <2>4, <2>6 DEF NotYetComplete
    <3> QED
      BY <1>1, <1>2, <1>5, <3>1, <3>2
         DEF Board!Rest, BoardState, BoardWanted, BoardRank, BoardChoice
  <2> QED
    BY <2>5, <2>6
<1>7. CASE State(sel) # "waiting"
  <2>1. State(sel)' = State(sel)
    BY <1>1, <1>7 DEF Complete, NotYetComplete, store, State, TypeOK
  <2>2. BoardState' = BoardState /\ BoardState[sel] # "waiting"
    BY <1>1, <1>3, <1>7, <2>1 DEF BoardState
  <2> QED
    BY <1>1, <1>2, <1>5, <2>2
       DEF Board!Rest, BoardState, BoardWanted, BoardRank, BoardChoice
<1> QED
  BY <1>6, <1>7

\* The steps the board does not see.
LEMMA UnseenStep ==
  ASSUME TypeOK, FreshInv,
         \/ \E h \in Handlers : \/ CheckRoom(h) \/ EvictCompleted(h) \/ RecordHistory(h)
                                \/ SignalWakeup(h)
                                \/ \E t \in Targets \cup {DefaultTarget}, p \in Priorities :
                                     NewMessage(h, t, p)
         \/ SelectNothing \/ SetCurrent \/ ClearFailed \/ MarkDisplayed \/ DwellElapses
         \/ ClearCompleted \/ IdleStep \/ BackoffElapses \/ NextTick \/ Stop
         \/ UNCHANGED vars
  PROVE  UNCHANGED board
<1> USE DEF store, loop, adders, GoTo
<1>a. ASSUME UNCHANGED <<BoardState, BoardWanted, BoardRank, shown, spc, sel>>
      PROVE  UNCHANGED board
  BY <1>a, SamePlace DEF board
<1>b. ASSUME UNCHANGED <<byID, status, target, priority, shown>>,
             UNCHANGED <<Phase, BoardChoice>>
      PROVE  UNCHANGED board
  BY <1>b, StoreKept DEF board
<1>1. ASSUME NEW h \in Handlers, CheckRoom(h) \/ RecordHistory(h) \/ SignalWakeup(h)
      PROVE  UNCHANGED board
  BY <1>1, <1>a, StoreKept DEF CheckRoom, RecordHistory, SignalWakeup
<1>2. ASSUME NEW h \in Handlers, EvictCompleted(h) PROVE UNCHANGED board
  <2>1. /\ UNCHANGED <<status, target, priority, shown, spc, sel>>
        /\ byID' \subseteq byID /\ \A m \in byID \ byID' : status[m] = "Completed"
    BY <1>2 DEF EvictCompleted, Completed
  <2>2. \A m \in Id : State(m)' = State(m)
    BY <2>1 DEF State
  <2> QED
    BY <1>a, <2>1, <2>2, SameMessages
<1>3. ASSUME NEW h \in Handlers, NEW t \in Targets \cup {DefaultTarget},
             NEW p \in Priorities, NewMessage(h, t, p)
      PROVE  UNCHANGED board
  <2>1. /\ UNCHANGED <<byID, status, shown, spc, sel>>
        /\ nextId \in Id /\ target' = [target EXCEPT ![nextId] = t]
        /\ priority' = [priority EXCEPT ![nextId] = p]
    BY <1>3 DEF NewMessage, TypeOK
  <2>2. State(nextId) = "new"
    BY <2>1 DEF State, FreshInv, NotStored, TypeOK
  <2>3. \A m \in Id : State(m)' = State(m)
    BY <2>1 DEF State
  <2>4. \A m \in Id \ {nextId} : Wanted(m)' = Wanted(m) /\ priority'[m] = priority[m]
    BY <2>1 DEF Wanted, TypeOK
  <2>5. UNCHANGED <<BoardState, BoardWanted, BoardRank>>
    BY <2>1, <2>2, <2>3, <2>4 DEF BoardState, BoardWanted, BoardRank
  <2> QED
    BY <1>a, <2>1, <2>5
<1>4. CASE MarkDisplayed
  <2>1. /\ spc = "mark" /\ spc' = "dwell"
        /\ UNCHANGED <<byID, target, priority, shown, sel>>
    BY <1>4 DEF MarkDisplayed
  <2>2. \A m \in Id : (status'[m] = "Completed") <=> (status[m] = "Completed")
    BY <1>4 DEF MarkDisplayed, Promoted, TypeOK
  <2>3. \A m \in Id : State(m)' = State(m)
    BY <2>1, <2>2 DEF State
  <2>4. UNCHANGED <<Phase, BoardChoice>>
    BY <2>1 DEF Phase, BoardChoice
  <2> QED
    BY <2>1, <2>3, <2>4, SameMessages DEF board
<1>5. CASE SelectNothing \/ SetCurrent \/ ClearFailed \/ DwellElapses \/ ClearCompleted
           \/ BackoffElapses \/ NextTick
  <2>1. UNCHANGED <<byID, status, target, priority, shown>>
    BY <1>5 DEF SelectNothing, SetCurrent, ClearFailed, DwellElapses, ClearCompleted,
       BackoffElapses, NextTick
  <2>2. UNCHANGED <<Phase, BoardChoice>>
    BY <1>5 DEF SelectNothing, SetCurrent, ClearFailed, DwellElapses, ClearCompleted,
       BackoffElapses, AfterBackoff, NextTick, Phase, BoardChoice
  <2> QED
    BY <1>b, <2>1, <2>2
<1>6. CASE IdleStep
  <2>1. UNCHANGED <<byID, status, target, priority, shown>>
    BY <1>6 DEF IdleStep, ClearIdle, PublishIdle, WaitWoken, WaitEnds
  <2>2. UNCHANGED <<Phase, BoardChoice>>
    BY <1>6 DEF IdleStep, ClearIdle, PublishIdle, WaitWoken, WaitEnds, Phase, BoardChoice
  <2> QED
    BY <1>b, <2>1, <2>2
<1>7. CASE Stop \/ UNCHANGED vars
  BY <1>7, <1>a, StoreKept DEF Stop, vars
<1> QED
  BY <1>1, <1>2, <1>3, <1>4, <1>5, <1>6, <1>7

LEMMA BoardStep ==
  TypeOK /\ FreshInv /\ CountInv /\ DisplayInv /\ RoomInv /\ [Next]_vars
    => [Board!Next]_board
<1> SUFFICES ASSUME TypeOK, FreshInv, CountInv, DisplayInv, RoomInv, [Next]_vars
             PROVE  Board!Next \/ UNCHANGED board
  OBVIOUS
<1>1. ASSUME NEW h \in Handlers, AddToStore(h) PROVE Board!Next
  <2>1. hmsg[h] \in Id
    BY <1>1 DEF AddToStore, TypeOK
  <2> QED
    BY <1>1, <2>1, AcceptStep DEF Board!Next
<1>2. ASSUME NEW m \in Id, RemoveMessage(m) PROVE Board!Next \/ UNCHANGED board
  BY <1>2, DeleteStep DEF Board!Next
<1>3. CASE SelectNextMessage
  BY <1>3, ChooseStep DEF Board!Next
<1>4. CASE PublishSucceeds \/ PublishFails \/ SleepCancelled \/ LoopReturns
  BY <1>4, ShowStep, MissStep, HaltStep DEF Board!Next
<1>5. CASE Complete \/ NotYetComplete
  BY <1>5, RestStep DEF Board!Next
<1> QED
  BY <1>1, <1>2, <1>3, <1>4, <1>5, UnseenStep
     DEF Next, AddStep, LoopStep, TickStep

LEMMA BoardInit == Init => Board!Init
<1> SUFFICES ASSUME Init PROVE Board!Init OBVIOUS
<1>1. \A m \in Id : State(m) = "new"
  BY DEF Init, State
<1>2. Phase = "free" /\ BoardChoice = None
  BY DEF Init, Phase, BoardChoice
<1> QED
  BY <1>1, <1>2 DEF Init, Board!Init, BoardChoice

\* To somebody who only sees which messages are stored, how often each was shown and
\* which is on its way to the display, the scheduler is the board of MessageBoard:
\* concurrent requests, deletes, evictions, failed publishes and shutdown included.
THEOREM SchedulerIsMessageBoard == Spec => ImplementsMessageBoard
<1> USE DEF BoardState, BoardWanted, BoardRank, BoardChoice
<1>1. TypeOK /\ FreshInv /\ CountInv /\ DisplayInv /\ RoomInv /\ [Next]_vars
        => [Board!Next]_(Board!vars)
  BY BoardStep DEF board, Board!vars
<1> QED
  BY <1>1, BoardInit, DisplayInvariant, BoundsInvariant, PTL
     DEF Spec, ImplementsMessageBoard, Board!Spec

-----------------------------------------------------------------------------
(* How often a message is shown.  A message that was chosen may be evicted  *)
(* before it is published, and then nothing counts the publish: what bounds *)
(* it is that the message had not reached its target when it was chosen.    *)

ShowInv ==
  /\ ShownAsOftenAsWanted
  /\ spc \in {"chosen", "publish"} => shown[sel] < Wanted(sel)

LEMMA InitShow == Init => ShowInv
  BY InputsAssumption DEF Init, ShowInv, ShownAsOftenAsWanted, Wanted

LEMMA StepShow ==
  ASSUME TypeOK, FreshInv, CountInv, DisplayInv, ShowInv, [Next]_vars PROVE ShowInv'
<1> USE DEF ShowInv, ShownAsOftenAsWanted, Wanted, Removed, TypeOK, store, loop, adders, GoTo
<1>k. ASSUME UNCHANGED <<status, target, shown, removedAt, sel>>,
             spc' \in {"chosen", "publish"} => spc \in {"chosen", "publish"}
      PROVE  ShowInv'
  BY <1>k
<1>1. ASSUME NEW h \in Handlers, CheckRoom(h) \/ AddStep(h) PROVE ShowInv'
  BY <1>1, <1>k DEF CheckRoom, AddStep, AddToStore, EvictCompleted, RecordHistory,
     SignalWakeup
<1>2. ASSUME NEW h \in Handlers, NEW t \in Targets \cup {DefaultTarget},
             NEW p \in Priorities, NewMessage(h, t, p)
      PROVE ShowInv'
  <2>1. /\ nextId \in Id /\ status[nextId] = "Pending" /\ shown[nextId] = 0
        /\ sel # nextId /\ t \in Int
    BY <1>2, InputsAssumption DEF FreshInv, NotStored, NewMessage
  <2> QED
    BY <1>2, <2>1 DEF NewMessage
<1>3. ASSUME NEW m \in Id, RemoveMessage(m) PROVE ShowInv'
  BY <1>3 DEF RemoveMessage
<1>4. CASE SelectNextMessage
  <2>1. PICK m \in ListActive : sel' = m
    BY <1>4 DEF SelectNextMessage
  <2>2. spc = "tick" /\ m \in byID /\ m \in Id /\ UNCHANGED <<status, target, shown, removedAt>>
    BY <1>4, <2>1 DEF SelectNextMessage, ListActive
  <2>3. ~Exhausted(m)
    BY <2>1, <2>2 DEF CountInv
  <2>4. shown[m] = count[m]
    BY <2>2 DEF DisplayInv, ShownMatchesCount
  <2>5. shown[m] < Wanted(m)
    BY <2>2, <2>3, <2>4 DEF Exhausted
  <2> QED
    BY <2>1, <2>2, <2>5
<1>5. CASE PublishSucceeds
  <2>1. /\ spc = "publish" /\ spc' = "mark" /\ sel \in Id
        /\ shown' = [shown EXCEPT ![sel] = shown[sel] + 1]
        /\ UNCHANGED <<status, target, removedAt>>
    BY <1>5 DEF PublishSucceeds
  <2>2. shown[sel] + 1 <= Wanted(sel) /\ (status[sel] = "Completed" => sel \in Removed)
    BY <2>1 DEF DisplayInv
  <2> QED
    BY <2>1, <2>2
<1>6. CASE MarkDisplayed
  <2>1. /\ spc' = "dwell" /\ UNCHANGED <<target, shown, removedAt>>
        /\ \A m \in Id : status'[m] = "Completed" => status[m] = "Completed"
    BY <1>6 DEF MarkDisplayed, Promoted
  <2> QED
    BY <2>1
<1>7. CASE Complete
  <2>1. spc = "after" /\ spc' = "clear" /\ sel \in Id /\ UNCHANGED <<target, shown, removedAt>>
    BY <1>7 DEF Complete
  <2>2. \A m \in Id \ {sel} : status'[m] = status[m]
    BY <1>7 DEF Complete
  <2>3. CASE sel \in byID
    <3>1. /\ count[sel] > 0 /\ shown[sel] = count[sel] /\ count[sel] <= Wanted(sel)
          /\ count[sel] >= target[sel]
      BY <1>7, <2>1, <2>3 DEF Complete, TargetReached, CountInv, CountWithinTarget,
         DisplayInv, ShownMatchesCount
    <3> QED
      BY <2>1, <2>2, <3>1
  <2>4. CASE sel \notin byID
    BY <1>7, <2>1, <2>4 DEF Complete
  <2> QED
    BY <2>3, <2>4
<1>8. CASE SelectNothing \/ SetCurrent \/ PublishFails \/ ClearFailed \/ DwellElapses
           \/ NotYetComplete \/ ClearCompleted
  BY <1>8 DEF SelectNothing, SetCurrent, PublishFails, ClearFailed, DwellElapses,
     NotYetComplete, ClearCompleted
<1>9. CASE IdleStep \/ BackoffElapses \/ SleepCancelled \/ NextTick \/ LoopReturns
  BY <1>9, <1>k DEF IdleStep, ClearIdle, PublishIdle, WaitWoken, WaitEnds, BackoffElapses,
     AfterBackoff, SleepCancelled, NextTick, LoopReturns
<1>10. CASE Stop \/ UNCHANGED vars
  BY <1>10, <1>k DEF Stop, vars
<1> QED
  BY <1>1, <1>2, <1>3, <1>4, <1>5, <1>6, <1>7, <1>8, <1>9, <1>10
     DEF Next, LoopStep, TickStep

\* No message is shown more often than its target asks for, evicted or not, and one that
\* nobody deleted is Completed only after exactly that many displays.
THEOREM ShownAsWanted == Spec => []ShownAsOftenAsWanted
<1>1. ShowInv => ShownAsOftenAsWanted
  BY DEF ShowInv
<1> QED
  BY <1>1, InitShow, StepShow, DisplayInvariant, PTL DEF Spec

-----------------------------------------------------------------------------
(* The guards with a quantifier stand for a sort, which always has exactly  *)
(* one result: the message to select, unless none is active, and the set of *)
(* the oldest completed messages to evict.                                  *)

IsFirst(m)     == m \in ListActive /\ \A o \in ListActive \ {m} : Before(m, o)
IsSurplus(old) == /\ old \in SUBSET Completed /\ Cardinality(old) = Surplus
                  /\ \A m \in old, k \in Completed \ old : m < k

SortsAreDefinite ==
  /\ ListActive # {} => \E m \in Id : IsFirst(m) /\ \A o \in Id \ {m} : ~IsFirst(o)
  /\ \E old \in SUBSET Id :
       IsSurplus(old) /\ \A other \in (SUBSET Id) \ {old} : ~IsSurplus(other)

LEMMA LeastNatural ==
  ASSUME NEW T \in SUBSET Nat, T # {}
  PROVE  \E n \in T : \A k \in T : n <= k
<1>1. PICK n \in T : \A k \in T : ~ (<<k, n>> \in OpToRel(<, Nat))
  BY NatLessThanWellFounded, WFMin
<1>2. n \in Nat /\ T \subseteq Nat
  BY <1>1
<1>3. ASSUME NEW k \in T PROVE n <= k
  <2>1. k \in Nat /\ ~ (k < n)
    BY <1>1, <1>2 DEF OpToRel
  <2> QED
    BY <1>2, <2>1
<1> QED
  BY <1>1, <1>3

\* What a sort by Before puts first: the rank decides, then the count, then the age.
LEMMA FirstOfActive ==
  ASSUME TypeOK, ListActive # {}
  PROVE  \E m \in ListActive : \A o \in ListActive \ {m} : Before(m, o)
<1>0. ListActive \subseteq Id /\ \A m \in ListActive : count[m] \in Nat /\ m \in Nat
  <2>1. ListActive \subseteq Id /\ count \in [Id -> Nat]
    BY DEF TypeOK, ListActive
  <2>2. \A m \in Id : m \in Nat
    BY BoundsAssumption
  <2> QED
    BY <2>1, <2>2
<1>1. \E top \in SUBSET ListActive :
        /\ top # {}
        /\ \A m, o \in top : PriorityRank(priority[m]) = PriorityRank(priority[o])
        /\ \A m \in top, o \in ListActive \ top :
             PriorityRank(priority[m]) > PriorityRank(priority[o])
  <2> DEFINE high == {m \in ListActive : priority[m] = "high"}
  <2>1. CASE high = {}
    <3>1. \A m \in ListActive : PriorityRank(priority[m]) = 0
      BY <2>1 DEF PriorityRank
    <3> WITNESS ListActive \in SUBSET ListActive
    <3> QED
      BY <3>1
  <2>2. CASE high # {}
    <3> WITNESS high \in SUBSET ListActive
    <3> QED
      BY <2>2 DEF PriorityRank
  <2> QED
    BY <2>1, <2>2
<1>2. PICK top \in SUBSET ListActive :
        /\ top # {}
        /\ \A m, o \in top : PriorityRank(priority[m]) = PriorityRank(priority[o])
        /\ \A m \in top, o \in ListActive \ top :
             PriorityRank(priority[m]) > PriorityRank(priority[o])
  BY <1>1
<1>3. PICK c \in {count[m] : m \in top} : \A d \in {count[m] : m \in top} : c <= d
  <2>1. {count[m] : m \in top} \in SUBSET Nat /\ {count[m] : m \in top} # {}
    BY <1>0, <1>2
  <2> QED
    BY <2>1, LeastNatural
<1>4. PICK m \in {o \in top : count[o] = c} : \A o \in {o \in top : count[o] = c} : m <= o
  <2>1. {o \in top : count[o] = c} \in SUBSET Nat /\ {o \in top : count[o] = c} # {}
    BY <1>0, <1>3
  <2> QED
    BY <2>1, LeastNatural
<1>5. ASSUME NEW o \in ListActive, o # m PROVE Before(m, o)
  <2>1. CASE o \notin top
    BY <1>2, <1>4, <2>1 DEF Before
  <2>2. CASE o \in top
    <3>1. /\ PriorityRank(priority[m]) = PriorityRank(priority[o])
          /\ count[m] = c /\ c <= count[o] /\ (count[o] = c => m <= o)
      BY <1>2, <1>3, <1>4, <2>2
    <3>2. c \in Nat /\ count[o] \in Nat /\ m \in Nat /\ o \in Nat
      BY <1>0, <1>2, <1>3, <1>4, <2>2
    <3>3. count[m] < count[o] \/ (count[m] = count[o] /\ m < o)
      BY <1>5, <3>1, <3>2
    <3> QED
      BY <3>1, <3>3 DEF Before
  <2> QED
    BY <2>1, <2>2
<1> QED
  BY <1>4, <1>5

\* No two messages can both come first.
LEMMA FirstIsUnique ==
  ASSUME TypeOK, NEW a \in ListActive, NEW b \in ListActive, Before(a, b), Before(b, a)
  PROVE  FALSE
<1>1. /\ PriorityRank(priority[a]) \in Int /\ PriorityRank(priority[b]) \in Int
      /\ count[a] \in Int /\ count[b] \in Int /\ a \in Int /\ b \in Int
  BY DEF PriorityRank, TypeOK, ListActive
<1> QED
  BY <1>1 DEF Before

\* The k oldest of a set of messages.
LEMMA OldestOf ==
  ASSUME NEW S \in SUBSET Id, NEW k \in 0 .. Cardinality(S)
  PROVE  \E old \in SUBSET S : Cardinality(old) = k /\ \A m \in old, o \in S \ old : m < o
<1> DEFINE Upto(n) == {m \in S : m <= n}
           enough  == {n \in 0 .. MaxMessages : Cardinality(Upto(n)) >= k}
<1>0. MaxMessages \in Nat /\ S \subseteq Nat /\ Cardinality(S) \in Nat /\ k \in Nat
  BY BoundsAssumption, MessageSets
<1>1. \A n : Cardinality(Upto(n)) \in Nat /\ IsFiniteSet(Upto(n))
  BY MessageSets
<1>2. enough \in SUBSET Nat /\ enough # {}
  <2>1. \A m \in S : m <= MaxMessages
    BY <1>0
  <2>2. Upto(MaxMessages) = S
    BY <2>1
  <2>3. MaxMessages \in 0 .. MaxMessages /\ Cardinality(S) >= k
    BY <1>0
  <2>4. MaxMessages \in enough
    BY <2>2, <2>3
  <2>5. \A n \in 0 .. MaxMessages : n \in Nat
    BY <1>0
  <2> QED
    BY <2>4, <2>5
<1>3. PICK n \in enough : \A j \in enough : n <= j
  BY <1>2, LeastNatural
<1>n. n \in Nat /\ n <= MaxMessages /\ Cardinality(Upto(n)) >= k
  BY <1>0, <1>3
<1>4. Cardinality(Upto(n)) = k
  <2>1. CASE n = 0
    <3>1. \A m \in S : ~ (m <= n)
      BY <1>0, <2>1
    <3>2. Upto(n) = {}
      BY <3>1
    <3>3. Cardinality(Upto(n)) = 0
      BY <3>2, FS_EmptySet
    <3> QED
      BY <1>0, <1>n, <3>3
  <2>2. CASE n > 0
    <3>1. n - 1 \in 0 .. MaxMessages /\ ~ (n <= n - 1)
      BY <1>0, <1>n, <2>2
    <3>2. ~ (Cardinality(Upto(n - 1)) >= k)
      BY <1>3, <3>1
    <3>3. Cardinality(Upto(n)) <= Cardinality(Upto(n - 1)) + 1
      <4>1. \A m \in S : m <= n <=> m <= n - 1 \/ m = n
        BY <1>0, <1>n
      <4>2. Upto(n) = Upto(n - 1) \/ Upto(n) = Upto(n - 1) \cup {n}
        BY <4>1
      <4>3. IsFiniteSet(Upto(n - 1)) /\ Cardinality(Upto(n - 1)) \in Nat
        BY <1>1
      <4> HIDE DEF Upto
      <4>4. Cardinality(Upto(n - 1) \cup {n}) =
              IF n \in Upto(n - 1) THEN Cardinality(Upto(n - 1))
                                    ELSE Cardinality(Upto(n - 1)) + 1
        BY <4>3, FS_AddElement, Zenon
      <4>5. \/ Cardinality(Upto(n)) = Cardinality(Upto(n - 1))
            \/ Cardinality(Upto(n)) = Cardinality(Upto(n - 1)) + 1
        BY <4>2, <4>4, Zenon
      <4> QED
        BY <4>3, <4>5
    <3>4. Cardinality(Upto(n)) \in Nat /\ Cardinality(Upto(n - 1)) \in Nat
      BY <1>1
    <3> HIDE DEF Upto
    <3> QED
      BY <1>0, <1>n, <3>2, <3>3, <3>4
  <2> QED
    BY <1>n, <2>1, <2>2
<1>5. \A m \in Upto(n), o \in S \ Upto(n) : m < o
  BY <1>0, <1>n
<1> QED
  BY <1>4, <1>5

\* Selection and eviction are as definite as the sorts they stand for: the scheduler always
\* has exactly one message to go on with unless none is active, and a handler that evicts
\* always finds exactly one set to drop. Neither guard ever holds a goroutine up.
THEOREM NeverStuck == Spec => []SortsAreDefinite
<1>1. TypeOK => SortsAreDefinite
  <2> SUFFICES ASSUME TypeOK PROVE SortsAreDefinite
    OBVIOUS
  <2>1. ListActive \subseteq Id /\ Completed \in SUBSET Id
    BY DEF TypeOK, ListActive, Completed
  <2>2. ListActive # {} => \E m \in Id : IsFirst(m) /\ \A o \in Id \ {m} : ~IsFirst(o)
    <3> SUFFICES ASSUME ListActive # {}
                 PROVE  \E m \in Id : IsFirst(m) /\ \A o \in Id \ {m} : ~IsFirst(o)
      OBVIOUS
    <3>1. PICK m \in ListActive : \A o \in ListActive \ {m} : Before(m, o)
      BY FirstOfActive
    <3>2. ASSUME NEW o \in Id, o # m, IsFirst(o) PROVE FALSE
      BY <3>1, <3>2, FirstIsUnique DEF IsFirst
    <3> QED
      BY <2>1, <3>1, <3>2 DEF IsFirst
  <2>3. \E old \in SUBSET Id :
          IsSurplus(old) /\ \A other \in (SUBSET Id) \ {old} : ~IsSurplus(other)
    <3>1. Surplus \in 0 .. Cardinality(Completed)
      BY <2>1, MessageSets, BoundsAssumption DEF Surplus
    <3>2. PICK old \in SUBSET Completed :
            Cardinality(old) = Surplus /\ \A m \in old, k \in Completed \ old : m < k
      BY <2>1, <3>1, OldestOf
    <3>3. ASSUME NEW other \in SUBSET Id, other # old, IsSurplus(other) PROVE FALSE
      <4>1. other \in SUBSET Completed /\ Cardinality(other) = Cardinality(old)
        BY <3>2, <3>3 DEF IsSurplus
      <4>2. ~ (other \subseteq old) /\ ~ (old \subseteq other)
        BY <2>1, <3>2, <3>3, <4>1, MessageSets, FS_Subset
      <4>3. PICK a \in old, b \in other : a \notin other /\ b \notin old
        BY <4>2
      <4>4. a < b /\ b < a /\ a \in Int /\ b \in Int
        BY <2>1, <3>2, <3>3, <4>1, <4>3, BoundsAssumption DEF IsSurplus
      <4> QED
        BY <4>4
    <3> QED
      BY <2>1, <3>2, <3>3 DEF IsSurplus
  <2> QED
    BY <2>2, <2>3 DEF SortsAreDefinite
<1> QED
  BY <1>1, TypeCorrect, PTL

-----------------------------------------------------------------------------
(* What is left of the two statements that the runs refute.                *)

\* Without concurrent requests nothing overshoots maxActiveMessages: the comment on it is
\* right but for the race between counting and storing.
THEOREM LimitKeptAlone ==
  ASSUME OneAtATime
  PROVE  Spec => []ActiveLimit
<1>1. TypeOK /\ RoomInv => ActiveLimit
  <2> SUFFICES ASSUME TypeOK, RoomInv PROVE ActiveLimit
    OBVIOUS
  <2>1. Cardinality(Handlers) \in Nat /\ Cardinality(Handlers) <= 1
    <3>1. CASE Handlers = {}
      BY <3>1, FS_EmptySet
    <3>2. CASE Handlers # {}
      <4>1. PICK h \in Handlers : Handlers = {h}
        BY <3>2 DEF OneAtATime
      <4>2. Cardinality({h}) = 1
        BY FS_Singleton
      <4> QED
        BY <4>1, <4>2
    <3> QED
      BY <3>1, <3>2
  <2>2. ListActive \in SUBSET Id /\ Adding \in SUBSET Handlers
    BY DEF TypeOK, ListActive, Adding
  <2>3. Cardinality(ListActive) \in Nat /\ Cardinality(Adding) \in Nat
    BY <2>2, MessageSets, HandlerSets
  <2> QED
    BY <2>1, <2>3, BoundsAssumption DEF RoomInv, ActiveLimit
<1> QED
  BY <1>1, BoundsInvariant, PTL

\* A deleted message is published only if it had been chosen before the delete, and is
\* never chosen again, by no tick and after no failed publish.
DeletedNotChosen ==
  [][\A m \in Removed : ~InFlight(m) => ~InFlight(m)' /\ shown'[m] = shown[m]]_vars

THEOREM DeletedNeverChosenAgain == Spec => DeletedNotChosen
<1>1. TypeOK /\ FreshInv /\ DisplayInv /\ [Next]_vars =>
        [\A m \in Removed : ~InFlight(m) => ~InFlight(m)' /\ shown'[m] = shown[m]]_vars
  <2> SUFFICES ASSUME TypeOK, FreshInv, DisplayInv, Next, NEW m \in Removed, ~InFlight(m)
               PROVE  ~InFlight(m)' /\ shown'[m] = shown[m]
    OBVIOUS
  <2> USE DEF InFlight, GoTo, store, loop, adders
  <2>0. m \in Id /\ status[m] = "Completed" /\ shown \in [Id -> Nat]
    BY DEF DisplayInv, Removed, TypeOK
  <2>1. ASSUME NEW h \in Handlers, NEW t, NEW p,
               CheckRoom(h) \/ AddStep(h) \/ NewMessage(h, t, p)
        PROVE  ~InFlight(m)' /\ shown'[m] = shown[m]
    BY <2>1 DEF CheckRoom, AddStep, AddToStore, EvictCompleted, RecordHistory,
       SignalWakeup, NewMessage
  <2>2. ASSUME NEW k \in Id, RemoveMessage(k) PROVE ~InFlight(m)' /\ shown'[m] = shown[m]
    BY <2>2 DEF RemoveMessage
  <2>3. CASE SelectNextMessage
    BY <2>0, <2>3 DEF SelectNextMessage, ListActive
  <2>4. CASE PublishSucceeds
    <3>1. spc = "publish" /\ sel # m /\ spc' = "mark" /\ shown'[m] = shown[m]
      BY <2>0, <2>4 DEF PublishSucceeds
    <3> QED
      BY <3>1
  <2>5. CASE SelectNothing \/ SetCurrent \/ PublishFails \/ ClearFailed \/ MarkDisplayed
             \/ DwellElapses \/ Complete \/ NotYetComplete \/ ClearCompleted
    BY <2>5 DEF SelectNothing, SetCurrent, PublishFails, ClearFailed, MarkDisplayed,
       DwellElapses, Complete, NotYetComplete, ClearCompleted
  <2>6. CASE IdleStep \/ BackoffElapses \/ SleepCancelled \/ NextTick \/ LoopReturns
    BY <2>6 DEF IdleStep, ClearIdle, PublishIdle, WaitWoken, WaitEnds, BackoffElapses,
       AfterBackoff, SleepCancelled, NextTick, LoopReturns
  <2>7. CASE Stop
    BY <2>7 DEF Stop
  <2> QED
    BY <2>1, <2>2, <2>3, <2>4, <2>5, <2>6, <2>7 DEF Next, LoopStep, TickStep
<1> QED
  BY <1>1, DisplayInvariant, PTL DEF Spec, DeletedNotChosen
=============================================================================
