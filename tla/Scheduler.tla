------------------------------ MODULE Scheduler ------------------------------
(***************************************************************************)
(* The scheduling core of the split-flap backend: the message store, the   *)
(* scheduler goroutine that shows one message after another, and the HTTP  *)
(* handler goroutines that add and delete messages while it does so.       *)
(*                                                                         *)
(* A message is its number in order of CreatedAt.  Text, user, alignment   *)
(* and duration are abstracted: nothing in this module's control depends   *)
(* on them.  A request that is rejected (400, 404, 429) changes nothing    *)
(* and is no action.  What the subscribers are told is EventFeed's matter. *)
(***************************************************************************)
EXTENDS Integers, Sequences, FiniteSets

CONSTANTS
  Handlers,       \* the goroutines serving POST /api/publish
  MaxMessages,    \* BOUND of the model: how many messages are ever created
  MaxActive,      \* maxActiveMessages, 100 in the code
  MaxKeep,        \* maxCompletedKeep, 200 in the code
  MaxHistory,     \* length of the history ring, 50 in the code
  DefaultTarget,  \* DEFAULT_TARGET_DISPLAY_COUNT, any integer: never validated
  Targets,        \* values of target_display_count a request may give
  Priorities,     \* priorities a request may give
  IdleMode,       \* IDLE_MODE: "publish" and "" publish, all else keeps
  None            \* Go's nil

ASSUME HandlersAssumption == IsFiniteSet(Handlers)
ASSUME BoundsAssumption ==
  /\ MaxMessages \in Nat /\ MaxActive \in Nat \ {0} /\ MaxKeep \in Nat
  /\ MaxHistory \in Nat \ {0}
ASSUME InputsAssumption ==
  /\ DefaultTarget \in Int /\ Targets \subseteq Nat \ {0}
  /\ Priorities \subseteq {"normal", "high"}

Id == 1 .. MaxMessages

ASSUME NoneAssumption == None \notin Id

VARIABLES
  byID,       \* the keys of Store.byID
  status, count, target, priority,   \* the Message objects, evicted ones too
  nextId,     \* the clock: the message stamped next
  current,    \* Scheduler.current
  sel,        \* m, the local variable of schedulerTick
  spc,        \* where the scheduler goroutine is
  wakeup,     \* whether the one-slot wakeup channel holds a token
  cancelled,  \* whether the loop's context is cancelled
  hpc, hmsg,  \* where each handler is in AddMessage, and its message
  hist,       \* the history ring, newest record first
  shown,      \* history variable: publishes of a message that returned nil
  removedAt   \* history variable: shown[m] when m was first deleted

store     == <<byID, status, count, target, priority, nextId>>
loop      == <<current, sel, spc, cancelled>>
adders    == <<hpc, hmsg, hist>>
vars      == <<store, loop, wakeup, adders, shown, removedAt>>

SchedulerPc == {"tick", "chosen", "publish", "failed", "backoff", "mark", "dwell",
                "after", "clear", "between", "idle", "idlepub", "wait", "stopped"}
HandlerPc   == {"ready", "create", "add", "evict", "record", "signal"}
NotRemoved  == -1

ListActive == {m \in byID : status[m] # "Completed"}
Completed  == {m \in byID : status[m] = "Completed"}
Removed    == {m \in Id : removedAt[m] # NotRemoved}

TypeOK ==
  /\ byID \subseteq Id
  /\ status \in [Id -> {"Pending", "Active", "Completed"}]
  /\ count \in [Id -> Nat] /\ target \in [Id -> Int]
  /\ priority \in [Id -> {"normal", "high"}]
  /\ nextId \in 1 .. MaxMessages + 1
  /\ current \in Id \cup {None} /\ sel \in Id \cup {None}
  /\ spc \in SchedulerPc /\ wakeup \in BOOLEAN /\ cancelled \in BOOLEAN
  /\ hpc \in [Handlers -> HandlerPc] /\ hmsg \in [Handlers -> Id \cup {None}]
  /\ hist \in Seq(Id) /\ Len(hist) <= MaxHistory
  /\ shown \in [Id -> Nat] /\ removedAt \in [Id -> Nat \cup {NotRemoved}]
  \* The message a goroutine works on is a message wherever it is used.
  /\ spc \in {"chosen", "publish", "mark", "dwell", "after"} => sel \in Id
  /\ \A h \in Handlers :
       hpc[h] \in {"add", "evict", "record", "signal"} => hmsg[h] \in Id

\* The state when main has called New and Start and the server listens.
Init ==
  /\ byID = {} /\ nextId = 1
  /\ status = [m \in Id |-> "Pending"] /\ count = [m \in Id |-> 0]
  /\ target = [m \in Id |-> DefaultTarget] /\ priority = [m \in Id |-> "normal"]
  /\ current = None /\ sel = None /\ spc = "tick" /\ wakeup = FALSE
  /\ cancelled = FALSE
  /\ hpc = [h \in Handlers |-> "ready"] /\ hmsg = [h \in Handlers |-> None]
  /\ hist = <<>>
  /\ shown = [m \in Id |-> 0] /\ removedAt = [m \in Id |-> NotRemoved]

-----------------------------------------------------------------------------
(* Handlers: AddMessage, one action per critical section.                  *)

\* Mutant: the limit itself still counts as room.
RoomAtLimit  == Cardinality(ListActive) <= MaxActive
QueueHasRoom == Cardinality(ListActive) < MaxActive

CheckRoom(h) ==
  /\ hpc[h] = "ready" /\ QueueHasRoom
  /\ hpc' = [hpc EXCEPT ![h] = "create"]
  /\ UNCHANGED <<store, loop, wakeup, hmsg, hist, shown, removedAt>>

NewMessage(h, t, p) ==
  /\ hpc[h] = "create" /\ nextId <= MaxMessages
  /\ hpc' = [hpc EXCEPT ![h] = "add"] /\ hmsg' = [hmsg EXCEPT ![h] = nextId]
  /\ nextId' = nextId + 1
  /\ target' = [target EXCEPT ![nextId] = t]
  /\ priority' = [priority EXCEPT ![nextId] = p]
  /\ UNCHANGED <<byID, status, count, loop, wakeup, hist, shown, removedAt>>

AddToStore(h) ==
  /\ hpc[h] = "add"
  /\ byID' = byID \cup {hmsg[h]}
  /\ hpc' = [hpc EXCEPT ![h] = "evict"]
  /\ UNCHANGED <<status, count, target, priority, nextId, loop, wakeup, hmsg,
                 hist, shown, removedAt>>

\* Mutant: nothing is ever evicted.
NoSurplus == 0
Surplus   == IF Cardinality(Completed) > MaxKeep
             THEN Cardinality(Completed) - MaxKeep ELSE 0

EvictCompleted(h) ==
  /\ hpc[h] = "evict"
  /\ \E old \in SUBSET Completed :
       /\ Cardinality(old) = Surplus
       /\ \A m \in old, k \in Completed \ old : m < k
       /\ byID' = byID \ old
  /\ hpc' = [hpc EXCEPT ![h] = "record"]
  /\ UNCHANGED <<status, count, target, priority, nextId, loop, wakeup, hmsg,
                 hist, shown, removedAt>>

\* Mutants: no entry goes when the ring is full, or the newest does.
KeepAll(s)    == s
DropNewest(s) == IF Len(s) < MaxHistory THEN s ELSE SubSeq(s, 2, MaxHistory)
KeepRoom(s)   == IF Len(s) < MaxHistory THEN s ELSE SubSeq(s, 1, MaxHistory - 1)

RecordHistory(h) ==
  /\ hpc[h] = "record"
  /\ hist' = <<hmsg[h]>> \o KeepRoom(hist)
  /\ hpc' = [hpc EXCEPT ![h] = "signal"]
  /\ UNCHANGED <<store, loop, wakeup, hmsg, shown, removedAt>>

\* Mutant: an unbuffered channel, the signal is lost unless somebody waits.
TokenIfWaiting == wakeup \/ spc = "wait"
TokenAfterSend == TRUE

SignalWakeup(h) ==
  /\ hpc[h] = "signal"
  /\ wakeup' = TokenAfterSend
  /\ hpc' = [hpc EXCEPT ![h] = "ready"]
  /\ UNCHANGED <<store, loop, hmsg, hist, shown, removedAt>>

AddStep(h) == \/ AddToStore(h) \/ EvictCompleted(h) \/ RecordHistory(h)
              \/ SignalWakeup(h)

\* DELETE /api/messages/{id}.  Deleting a message twice succeeds twice.
RemoveMessage(m) ==
  /\ m \in byID
  /\ status' = [status EXCEPT ![m] = "Completed"]
  /\ removedAt' = IF m \in Removed THEN removedAt
                  ELSE [removedAt EXCEPT ![m] = shown[m]]
  /\ UNCHANGED <<byID, count, target, priority, nextId, loop, wakeup, adders,
                 shown>>

-----------------------------------------------------------------------------
(* The scheduler goroutine: schedulerTick, handleIdle and the run loop.    *)

GoTo(next) == spc' = next

PriorityRank(p) == IF p = "high" THEN 1 ELSE 0

\* Mutant: among equals the newest goes first.
NewestFirst(m, o) ==
  \/ PriorityRank(priority[m]) > PriorityRank(priority[o])
  \/ /\ PriorityRank(priority[m]) = PriorityRank(priority[o])
     /\ count[m] < count[o] \/ (count[m] = count[o] /\ m > o)
Before(m, o) ==
  \/ PriorityRank(priority[m]) > PriorityRank(priority[o])
  \/ /\ PriorityRank(priority[m]) = PriorityRank(priority[o])
     /\ count[m] < count[o] \/ (count[m] = count[o] /\ m < o)

SelectNextMessage ==
  /\ spc = "tick"
  /\ \E m \in ListActive :
       /\ \A o \in ListActive \ {m} : Before(m, o)
       /\ sel' = m
  /\ GoTo("chosen")
  /\ UNCHANGED <<store, current, cancelled, wakeup, adders, shown, removedAt>>

SelectNothing ==
  /\ spc = "tick" /\ ListActive = {}
  /\ sel' = None /\ GoTo("idle")
  /\ UNCHANGED <<store, current, cancelled, wakeup, adders, shown, removedAt>>

SetCurrent ==
  /\ spc = "chosen"
  /\ current' = sel /\ GoTo("publish")
  /\ UNCHANGED <<store, sel, cancelled, wakeup, adders, shown, removedAt>>

PublishSucceeds ==
  /\ spc = "publish"
  /\ shown' = [shown EXCEPT ![sel] = @ + 1] /\ GoTo("mark")
  /\ UNCHANGED <<store, current, sel, cancelled, wakeup, adders, removedAt>>

\* Not connected, a token error or the five-second timeout.
PublishFails ==
  /\ spc = "publish" /\ GoTo("failed")
  /\ UNCHANGED <<store, current, sel, cancelled, wakeup, adders, shown, removedAt>>

ClearFailed ==
  /\ spc = "failed"
  /\ current' = None /\ GoTo("backoff")
  /\ UNCHANGED <<store, sel, cancelled, wakeup, adders, shown, removedAt>>

\* Mutant: a failed publish ends the loop.
LoopGivesUp  == "stopped"
AfterBackoff == "between"

BackoffElapses ==
  /\ spc = "backoff" /\ GoTo(AfterBackoff)
  /\ UNCHANGED <<store, current, sel, cancelled, wakeup, adders, shown, removedAt>>

\* The backoff or the dwell ends early with ctx.Err and the loop returns.
SleepCancelled ==
  /\ spc \in {"backoff", "dwell"} /\ cancelled /\ GoTo("stopped")
  /\ UNCHANGED <<store, current, sel, cancelled, wakeup, adders, shown, removedAt>>

\* Mutant: every display makes the message Active, whatever it was.
AlwaysActive(s) == "Active"
Promoted(s)     == IF s = "Pending" THEN "Active" ELSE s

\* Mutant: only the first display is counted.
CountedOnce(m) == IF status[m] = "Pending" THEN count[m] + 1 ELSE count[m]
CountUp(m)     == count[m] + 1

\* store.Update: does nothing when the message has been evicted meanwhile.
MarkDisplayed ==
  /\ spc = "mark" /\ GoTo("dwell")
  /\ IF sel \in byID
     THEN /\ count' = [count EXCEPT ![sel] = CountUp(sel)]
          /\ status' = [status EXCEPT ![sel] = Promoted(@)]
     ELSE UNCHANGED <<count, status>>
  /\ UNCHANGED <<byID, target, priority, nextId, current, sel, cancelled, wakeup,
                 adders, shown, removedAt>>

DwellElapses ==
  /\ spc = "dwell" /\ GoTo("after")
  /\ UNCHANGED <<store, current, sel, cancelled, wakeup, adders, shown, removedAt>>

\* Mutants: one display too many, and one too few.
OnePastTarget(m) == count[m] > target[m]
OneShortOfIt(m)  == count[m] + 1 >= target[m]
TargetReached(m) == count[m] >= target[m]

Complete ==
  /\ spc = "after" /\ TargetReached(sel) /\ GoTo("clear")
  /\ status' = IF sel \in byID THEN [status EXCEPT ![sel] = "Completed"] ELSE status
  /\ UNCHANGED <<byID, count, target, priority, nextId, current, sel, cancelled,
                 wakeup, adders, shown, removedAt>>

NotYetComplete ==
  /\ spc = "after" /\ ~TargetReached(sel) /\ GoTo("between")
  /\ UNCHANGED <<store, current, sel, cancelled, wakeup, adders, shown, removedAt>>

ClearCompleted ==
  /\ spc = "clear"
  /\ current' = None /\ GoTo("between")
  /\ UNCHANGED <<store, sel, cancelled, wakeup, adders, shown, removedAt>>

\* Mutant: going idle leaves the last message current.
KeepCurrent    == current
CurrentIfIdle  == None

ClearIdle ==
  /\ spc = "idle"
  /\ current' = CurrentIfIdle
  /\ GoTo(IF IdleMode \in {"publish", ""} THEN "idlepub" ELSE "wait")
  /\ UNCHANGED <<store, sel, cancelled, wakeup, adders, shown, removedAt>>

\* The outcome of publishing the idle message is ignored.
PublishIdle ==
  /\ spc = "idlepub" /\ GoTo("wait")
  /\ UNCHANGED <<store, current, sel, cancelled, wakeup, adders, shown, removedAt>>

WaitWoken ==
  /\ spc = "wait" /\ wakeup
  /\ wakeup' = FALSE /\ GoTo("between")
  /\ UNCHANGED <<store, current, sel, cancelled, adders, shown, removedAt>>

\* The idle timer fires or the context is cancelled.
WaitEnds ==
  /\ spc = "wait" /\ GoTo("between")
  /\ UNCHANGED <<store, current, sel, cancelled, wakeup, adders, shown, removedAt>>

\* Mutant: the check between two ticks is missing.
AlwaysOn  == TRUE
MayTick   == ~cancelled

NextTick ==
  /\ spc = "between" /\ MayTick /\ GoTo("tick")
  /\ UNCHANGED <<store, current, sel, cancelled, wakeup, adders, shown, removedAt>>

LoopReturns ==
  /\ spc = "between" /\ ~MayTick /\ GoTo("stopped")
  /\ UNCHANGED <<store, current, sel, cancelled, wakeup, adders, shown, removedAt>>

TickStep == \/ SelectNextMessage \/ SelectNothing \/ SetCurrent \/ PublishSucceeds
            \/ PublishFails \/ ClearFailed \/ MarkDisplayed \/ DwellElapses
            \/ Complete \/ NotYetComplete \/ ClearCompleted
IdleStep == ClearIdle \/ PublishIdle \/ WaitWoken \/ WaitEnds
LoopStep == TickStep \/ IdleStep \/ BackoffElapses \/ SleepCancelled \/ NextTick
            \/ LoopReturns

\* Stop, called by main on SIGINT or SIGTERM; it returns once spc is "stopped".
Stop ==
  /\ ~cancelled /\ cancelled' = TRUE
  /\ UNCHANGED <<store, current, sel, spc, wakeup, adders, shown, removedAt>>

Next == \/ \E h \in Handlers :
             \/ CheckRoom(h) \/ AddStep(h)
             \/ \E t \in Targets \cup {DefaultTarget}, p \in Priorities :
                  NewMessage(h, t, p)
        \/ \E m \in Id : RemoveMessage(m)
        \/ LoopStep \/ Stop

Spec == Init /\ [][Next]_vars

(* Goroutines are never starved by the Go runtime; every sleep ends.  Nobody *)
(* is obliged to send a request or to stop the server.  The broker may fail  *)
(* any number of publishes, but not all of them for ever.                    *)
LoopFairness  == WF_vars(LoopStep)
FairSpec == /\ Spec /\ LoopFairness
            /\ \A h \in Handlers : WF_vars(AddStep(h))
            /\ SF_vars(PublishSucceeds)
-----------------------------------------------------------------------------
(* Safety.                                                                 *)

\* AddMessage checks the limit before it stores: concurrent requests overshoot
\* maxActiveMessages, but never by more than the other handlers.
ActiveBound == Cardinality(ListActive) <= MaxActive + Cardinality(Handlers) - 1

\* Eviction at every add keeps the whole store, completed messages included, within
\* a constant: the retained, the active with their overshoot, and one for every
\* handler that has added its message and is about to evict.
Evicting == {h \in Handlers : hpc[h] = "evict"}
StoreBound ==
  Cardinality(byID) <=
    MaxKeep + MaxActive + Cardinality(Handlers) - 1 + Cardinality(Evicting)

\* A message that is stored and announced while the scheduler goes idle or waits
\* has left a token in the wakeup channel: the wait ends at once.
Announced(m) ==
  \A h \in Handlers : hpc[h] \in {"add", "evict", "record", "signal"} => hmsg[h] # m
NoLostWakeup ==
  spc \in {"idle", "idlepub", "wait"} /\ (\E m \in ListActive : Announced(m))
    => wakeup

\* No message is counted as shown more often than its target asks for (once, if
\* the configured default is not positive).
CountWithinTarget ==
  \A m \in Id : count[m] <= IF target[m] > 0 THEN target[m] ELSE 1

\* No message is shown more often than its target asks for (once, if the configured
\* default is not positive), whatever deletes, evictions and failed publishes come between,
\* and one that completes without a delete was shown exactly that often.
Wanted(m) == IF target[m] > 0 THEN target[m] ELSE 1
ShownAsOftenAsWanted ==
  \A m \in Id : /\ shown[m] <= Wanted(m)
                /\ status[m] = "Completed" /\ m \notin Removed => shown[m] = Wanted(m)

\* A message is Completed because it was deleted, or because its last display
\* is over: the count is reached and its dwell has elapsed.
CompletionJustified ==
  \A m \in Id : status[m] = "Completed" /\ m \notin Removed =>
    /\ count[m] >= target[m] /\ count[m] > 0
    /\ ~(sel = m /\ spc \in {"mark", "dwell"})

\* displayCount of a stored message is the number of publishes that succeeded,
\* whatever deletes and failed publishes came between.
ShownMatchesCount ==
  \A m \in byID :
    shown[m] = count[m] + (IF spc = "mark" /\ sel = m THEN 1 ELSE 0)

\* A deleted message is published at most once more: the one publish that the
\* scheduler had already decided on.
AtMostOneLateShow == \A m \in Removed : shown[m] <= removedAt[m] + 1

\* While a message dwells it is what GetCurrentMessage reports, and nothing is
\* reported while the scheduler waits idle or backs off.
CurrentIsOnDisplay ==
  /\ spc \in {"mark", "dwell", "after"} => current = sel
  /\ spc \in {"idlepub", "wait", "backoff"} => current = None

\* A message missing from the history was pushed out by MaxHistory later records,
\* and only records of overlapping requests may be older than it.
Recorded(m) ==
  m < nextId /\ \A h \in Handlers : hpc[h] \in {"add", "evict", "record"} => hmsg[h] # m
HistoryKeepsNewest ==
  \A m \in Id : Recorded(m) /\ (\A i \in DOMAIN hist : hist[i] # m) =>
    /\ Len(hist) = MaxHistory
    /\ Cardinality({i \in DOMAIN hist : hist[i] < m}) < Cardinality(Handlers)

\* One request at a time: between two waiting messages of the same priority the
\* older one has never been shown less often.
NoOvertaking ==
  \A a, b \in ListActive : a < b /\ priority[a] = priority[b] => count[b] <= count[a]

\* A Completed message stays Completed, also when the display of it that was
\* under way is recorded after the delete.
CompletedIsFinal ==
  [][\A m \in Id : status[m] = "Completed" => status'[m] = "Completed"]_vars

\* The messages as a board sees them.  A message is accepted when it is stored, chosen
\* with the selection, shown by a publish, and its time is over when the dwell has been
\* accounted for; eviction, the current message and idling change nothing.
State(m)  == IF status[m] = "Completed" THEN "done"
             ELSE IF m \in byID THEN "waiting" ELSE "new"
Phase     == CASE spc \in {"chosen", "publish"} -> "chosen"
               [] spc \in {"mark", "dwell", "after"} -> "showing"
               [] spc = "stopped" -> "halted"
               [] OTHER -> "free"
Board == INSTANCE MessageBoard
  WITH Messages <- Id, Limit <- MaxActive + Cardinality(Handlers) - 1,
       state  <- [m \in Id |-> State(m)],
       wanted <- [m \in Id |-> IF State(m) = "new" THEN 0 ELSE Wanted(m)],
       rank   <- [m \in Id |-> IF State(m) = "new" THEN 0 ELSE PriorityRank(priority[m])],
       shows  <- shown, phase <- Phase,
       choice <- IF Phase \in {"chosen", "showing"} THEN sel ELSE None
ImplementsMessageBoard == Board!Spec

-----------------------------------------------------------------------------
(* Liveness, under FairSpec.                                               *)

\* Every stored message is completed in the end, unless the server stops.
EventuallyCompleted ==
  \A m \in Id : m \in ListActive ~> (m \notin ListActive \/ cancelled)

\* A deleted message does not stay the current one.
DeletedLeavesDisplay ==
  \A m \in Id : (m \in Removed /\ current = m) ~> (current # m \/ cancelled)

\* Stop returns: the loop notices the cancelled context wherever it is.
StopReturns == cancelled ~> spc = "stopped"

-----------------------------------------------------------------------------
(* Statements of comments and documents that the code does not keep.        *)

\* scheduler.go:181: "the maximum number of non-completed messages ... allowed
\* at once" is maxActiveMessages.
ActiveLimit == Cardinality(ListActive) <= MaxActive

\* BACKEND_SPEC.md, DELETE: the message "will never be displayed again".
DeletedNeverPublished == \A m \in Removed : shown[m] <= removedAt[m]
=============================================================================
