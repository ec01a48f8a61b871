------------------------------ MODULE EventFeed ------------------------------
(***************************************************************************)
(* What the scheduler tells its event streams.  Three things are announced *)
(* ("current", "queue", "history"), each by a whole snapshot, so a         *)
(* snapshot is modelled by the number of changes it contains (the marshal- *)
(* ling of a queue, message by message, is one step here).  A change and   *)
(* its announcement are separate steps: the loop and any number of request *)
(* handlers change, snapshot, collect the subscribers and push             *)
(* independently, and a new subscriber reads its seeds before it           *)
(* registers.  A subscriber's queue keeps order and drops no newest event  *)
(* (module Queue), so what its client shows is the event pushed last.      *)
(***************************************************************************)
EXTENDS Naturals, Sequences

CONSTANTS Subs,     \* event streams
          Callers,  \* request handlers that add or remove a message
          Loop,     \* the scheduler's goroutine
          MaxTicks, \* BOUND: parts of ticks the loop takes
          MaxRequests  \* BOUND: requests served

ASSUME LoopAssumption  == Loop \notin Callers
ASSUME BoundAssumption == MaxTicks \in Nat /\ MaxRequests \in Nat

Kinds  == {"current", "queue", "history"}
Actors == Callers \cup {Loop}

VARIABLES
  state,  \* per kind, how often it changed
  place,  \* where the loop is between two parts of its tick
  ticks, requests,  \* counters of the bounds
  job,    \* per actor, the steps of its operation that remain
  snap,   \* per actor, the snapshots it has marshalled
  to,     \* per actor, the subscribers it collected and has not pushed to
  spc,    \* per subscriber, where SubscribeQueue is
  seed,   \* per subscriber, the snapshots SubscribeQueue has read
  view,   \* per subscriber, the event of each kind its client shows
  best,   \* history variable: the newest event of each kind it was sent
  gap     \* history variable: per kind, the subscribers that were between their
          \* seed and their registration when it last changed

actorVars == <<job, snap, to>>
subVars   == <<spc, seed, view, best>>
loopVars  == <<place, ticks, requests>>
vars      == <<state, gap, loopVars, actorVars, subVars>>

Versions == [Kinds -> Nat]

-----------------------------------------------------------------------------
(* Operations, as the steps they take.                                     *)

Change(kinds)  == [do |-> "change",  kinds |-> kinds]
Collect        == [do |-> "collect", kinds |-> {}]
Snapshot(kind) == [do |-> "snap",    kinds |-> {kind}]
Push(kinds)    == [do |-> "push",    kinds |-> kinds]

Steps == [do : {"change", "collect", "snap", "push"}, kinds : SUBSET Kinds]

\* Marshal an event, then notify: the order of the tick.
Notify(kind) == <<Snapshot(kind), Collect, Push({kind})>>

\* The handlers collect first.  Mutants: an event with a name no client listens to;
\* snapshots that are older than the change.
Misnamed ==
  <<Change({"queue"}), Change({"history"}), Collect, Snapshot("queue"),
    Snapshot("history"), Push({"messages", "history"})>>
SnapshotsFirst ==
  <<Snapshot("queue"), Snapshot("history"), Change({"queue"}), Change({"history"}),
    Collect, Push({"queue", "history"})>>
AddMessage ==
  <<Change({"queue"}), Change({"history"}), Collect, Snapshot("queue"),
    Snapshot("history"), Push({"queue", "history"})>>

\* The status of the message on display changes too, but no client reads a status
\* from a "current" event.
RemoveMessage == <<Change({"queue"}), Collect, Snapshot("queue"), Push({"queue"})>>

\* The parts of a tick.  "nothing" and "kept" are the ends of ticks that leave
\* current nil and set; the message shows in "publish" and "dwell" as well.
\* Mutant: completion is announced in the queue only.
Part(from, goal, steps) == [from |-> from, goal |-> goal, steps |-> steps]

QuietCompletion == <<Change({"queue"}), Change({"current"})>> \o Notify("queue")
Completion ==
  <<Change({"queue"}), Change({"current"})>> \o Notify("queue") \o Notify("current")

Parts ==
  {Part(from, "publish", <<Change({"current"})>> \o Notify("current"))
     : from \in {"nothing", "kept"}}
  \cup
  {Part("publish", "nothing", <<Change({"current"})>> \o Notify("current")),
   Part("publish", "dwell",
        <<Change({"current", "queue"})>> \o Notify("current") \o Notify("queue")),
   Part("dwell", "nothing", Completion),
   Part("dwell", "kept", Notify("current")),
   Part("kept", "nothing", <<Change({"current"})>> \o Notify("current"))}

TypeOK ==
  /\ state \in Versions /\ ticks \in 0 .. MaxTicks /\ requests \in 0 .. MaxRequests
  /\ place \in {"nothing", "kept", "publish", "dwell"}
  /\ job \in [Actors -> Seq(Steps)] /\ snap \in [Actors -> Versions]
  /\ to \in [Actors -> SUBSET Subs]
  /\ spc \in [Subs -> Kinds \cup {"off", "push", "register", "on", "gone"}]
  /\ seed \in [Subs -> Versions] /\ view \in [Subs -> Versions] /\ best \in [Subs -> Versions]
  /\ gap \in [Kinds -> SUBSET Subs]

\* No client is connected and the loop has not ticked.
Init ==
  /\ state = [k \in Kinds |-> 0] /\ place = "nothing" /\ ticks = 0 /\ requests = 0
  /\ job = [a \in Actors |-> <<>>] /\ snap = [a \in Actors |-> state]
  /\ to = [a \in Actors |-> {}]
  /\ spc = [s \in Subs |-> "off"]
  /\ seed = [s \in Subs |-> state] /\ view = seed /\ best = seed /\ gap = [k \in Kinds |-> {}]

-----------------------------------------------------------------------------
(* The steps of an operation.                                              *)

Request(c) ==
  /\ job[c] = <<>> /\ requests < MaxRequests /\ requests' = requests + 1
  /\ \E operation \in {AddMessage, RemoveMessage} : job' = [job EXCEPT ![c] = operation]
  /\ UNCHANGED <<state, gap, place, ticks, snap, to, subVars>>

Tick ==
  /\ job[Loop] = <<>> /\ ticks < MaxTicks /\ ticks' = ticks + 1
  /\ \E p \in Parts : /\ p.from = place /\ place' = p.goal
                      /\ job' = [job EXCEPT ![Loop] = p.steps]
  /\ UNCHANGED <<state, gap, requests, snap, to, subVars>>

Doing(a, what) == job[a] # <<>> /\ Head(job[a]).do = what
Done(a)        == job' = [job EXCEPT ![a] = Tail(job[a])]

\* Where a subscriber is that has read its seed of a kind and has not registered.
BeforeRegister == [current |-> {"queue", "history", "push", "register"},
                   queue   |-> {"history", "push", "register"},
                   history |-> {"push", "register"}]

Changes(a) ==
  /\ Doing(a, "change") /\ Done(a)
  /\ state' = [k \in Kinds |-> IF k \in Head(job[a]).kinds THEN state[k] + 1 ELSE state[k]]
  /\ gap' = [k \in Kinds |-> IF k \in Head(job[a]).kinds
                              THEN {s \in Subs : spc[s] \in BeforeRegister[k]} ELSE gap[k]]
  /\ UNCHANGED <<loopVars, snap, to, subVars>>

Snapshots(a) ==
  /\ Doing(a, "snap") /\ Done(a)
  /\ snap' = [snap EXCEPT ![a] =
       [k \in Kinds |-> IF k \in Head(job[a]).kinds THEN state[k] ELSE snap[a][k]]]
  /\ UNCHANGED <<state, gap, loopVars, to, subVars>>

\* Where a subscriber is in the set.  Mutant: it registers before its seeds.
InFromTheStart   == {"push", "register", "on"}
InOnceRegistered == {"on"}

collectSubscribers(a) ==
  /\ Doing(a, "collect") /\ Done(a)
  /\ to' = [to EXCEPT ![a] = {s \in Subs : spc[s] \in InOnceRegistered}]
  /\ UNCHANGED <<state, gap, loopVars, snap, subVars>>

\* What happens to the stream s when events are pushed to it that make it show new.
Receives(s, new) ==
  /\ view' = [view EXCEPT ![s] = new]
  /\ best' = [best EXCEPT ![s] = [k \in Kinds |-> IF new[k] > @[k] THEN new[k] ELSE @[k]]]

\* To one subscriber after the other, in any order.
PushTo(a, s) ==
  LET kinds == Head(job[a]).kinds
  IN /\ Doing(a, "push") /\ s \in to[a] /\ to' = [to EXCEPT ![a] = @ \ {s}]
     /\ Receives(s, [k \in Kinds |-> IF k \in kinds THEN snap[a][k] ELSE view[s][k]])
     /\ UNCHANGED <<state, gap, loopVars, job, snap, spc, seed>>

Pushed(a) ==
  /\ Doing(a, "push") /\ to[a] = {} /\ Done(a)
  /\ UNCHANGED <<state, gap, loopVars, snap, to, subVars>>

-----------------------------------------------------------------------------
(* Subscribers.                                                            *)

\* A client that comes back is another member of Subs.
SubscribeQueue(s) ==
  /\ spc[s] = "off" /\ spc' = [spc EXCEPT ![s] = "current"]
  /\ UNCHANGED <<state, gap, loopVars, actorVars, seed, view, best>>

AfterSeed == [current |-> "queue", queue |-> "history", history |-> "push"]

ReadSeed(s) ==
  /\ spc[s] \in Kinds /\ spc' = [spc EXCEPT ![s] = AfterSeed[@]]
  /\ seed' = [seed EXCEPT ![s] = [@ EXCEPT ![spc[s]] = state[spc[s]]]]
  /\ UNCHANGED <<state, gap, loopVars, actorVars, view, best>>

PushSeeds(s) ==
  /\ spc[s] = "push" /\ spc' = [spc EXCEPT ![s] = "register"]
  /\ Receives(s, seed[s])
  /\ UNCHANGED <<state, gap, loopVars, actorVars, seed>>

Register(s) ==
  /\ spc[s] = "register" /\ spc' = [spc EXCEPT ![s] = "on"]
  /\ UNCHANGED <<state, gap, loopVars, actorVars, seed, view, best>>

UnsubscribeQueue(s) ==
  /\ spc[s] = "on" /\ spc' = [spc EXCEPT ![s] = "gone"]
  /\ UNCHANGED <<state, gap, loopVars, actorVars, seed, view, best>>

Act(a) ==
  \/ Changes(a) \/ Snapshots(a) \/ collectSubscribers(a) \/ Pushed(a)
  \/ \E s \in Subs : PushTo(a, s)

Subscriber(s) ==
  SubscribeQueue(s) \/ ReadSeed(s) \/ PushSeeds(s) \/ Register(s) \/ UnsubscribeQueue(s)

Next ==
  \/ Tick \/ \E c \in Callers : Request(c)
  \/ \E a \in Actors : Act(a)
  \/ \E s \in Subs : Subscriber(s)

Spec == Init /\ [][Next]_vars

-----------------------------------------------------------------------------
Resting(A) == \A a \in A : job[a] = <<>>

\* Between the parts of its tick, also during the dwell and when idle, the loop has
\* told every stream what is on display: only a change in the gap between a
\* stream's seed and its registration can be missing.
CurrentInSync ==
  Resting({Loop}) => \A s \in Subs :
    spc[s] = "on" => view[s]["current"] = state["current"] \/ s \in gap["current"]

\* When nothing is under way, every stream has been sent the latest queue and the
\* latest history, whoever changed them and however the handlers overlapped, unless
\* they changed in that gap.
NothingUnannounced ==
  Resting(Actors) => \A s \in Subs, k \in Kinds :
    spc[s] = "on" => best[s][k] = state[k] \/ s \in gap[k]

\* No stream is told of an older display after a newer one.
CurrentNeverGoesBack ==
  [][\A s \in Subs : view'[s]["current"] >= view[s]["current"]]_vars

-----------------------------------------------------------------------------
(* A statement of a comment that the code does not keep.                   *)

\* app.js:258: "No need to refetch - the server's SSE queue and history events will
\* deliver the new state."  Asked of the streams that missed nothing when they
\* registered.
ShowsQueue ==
  Resting(Actors) => \A s \in Subs :
    spc[s] = "on" /\ s \notin gap["queue"] => view[s]["queue"] = state["queue"]
=============================================================================
