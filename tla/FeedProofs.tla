------------------------------- MODULE FeedProofs -------------------------------
(***************************************************************************)
(* What the streams of EventFeed are told, for any number of streams,      *)
(* request handlers and operations.                                        *)
(***************************************************************************)
EXTENDS EventFeed, SequenceTheorems, TLAPS

-----------------------------------------------------------------------------
(* The steps j that an operation has before it.                            *)

Does(step, what, k) == step.do = what /\ k \in step.kinds

\* From its step i on, j pushes an event of kind k with a snapshot it takes and to the
\* subscribers it collects.
Announces(j, i, k) ==
  \E p \in i .. Len(j) :
    /\ Does(j[p], "push", k)
    /\ \E n \in i .. p - 1 : Does(j[n], "snap", k)
    /\ \E c \in i .. p - 1 : j[c].do = "collect" /\ \A q \in c .. p - 1 : j[q].do # "push"

\* Every change is announced after it.
Announced(j) ==
  \A i \in 1 .. Len(j), k \in Kinds : Does(j[i], "change", k) => Announces(j, i + 1, k)

\* No change of kind k comes between a snapshot of it and its push.
Unchanged(j, n, p, k) == \A c \in n .. p : ~Does(j[c], "change", k)
SnapsFirst(j, p, k) ==
  \E n \in 1 .. p - 1 : Does(j[n], "snap", k) /\ Unchanged(j, n, p, k)
Fresh(j, k) == \A p \in 1 .. Len(j) : Does(j[p], "push", k) => SnapsFirst(j, p, k)

Quiet(j, k) == \A i \in 1 .. Len(j) : k \notin j[i].kinds

\* j pushes the latest event of kind k to a stream: which it has listed or is going to
\* collect, with a snapshot which is fresh or it is going to take.
Delivers(j, listed, fresh, k) ==
  \E p \in 1 .. Len(j) :
    /\ Does(j[p], "push", k)
    /\ fresh \/ \E n \in 1 .. p - 1 : Does(j[n], "snap", k)
    /\ \/ listed /\ \A q \in 1 .. p - 1 : j[q].do # "push"
       \/ \E c \in 1 .. p - 1 : j[c].do = "collect" /\ \A q \in c .. p - 1 : j[q].do # "push"

Owes(a, s, k) == Delivers(job[a], s \in to[a], snap[a][k] = state[k], k)

-----------------------------------------------------------------------------
(* The invariant.                                                          *)

Bounded ==
  /\ \A a \in Actors, k \in Kinds : snap[a][k] <= state[k]
  /\ \A s \in Subs, k \in Kinds :
       seed[s][k] <= state[k] /\ view[s][k] <= state[k] /\ best[s][k] <= state[k]

\* The display is the loop's; the history is the handler's where there is only one.
Owns(a, k) == \/ a = Loop /\ k = "current"
              \/ a \in Callers /\ Callers = {a} /\ k = "history"

\* What a pushes of its kind is never older than its last change of it.
InOrder(a, k) ==
  \A p \in 1 .. Len(job[a]) : Does(job[a][p], "push", k) =>
    \/ SnapsFirst(job[a], p, k)
    \/ snap[a][k] = state[k] /\ Unchanged(job[a], 1, p, k)

Shaped ==
  /\ \A a \in Actors : Announced(job[a])
  /\ \A c \in Callers : Quiet(job[c], "current")
  /\ Quiet(job[Loop], "history")
  /\ \A a \in Actors, k \in Kinds : Owns(a, k) => InOrder(a, k)

Seeded ==
  /\ \A a \in Actors : \A s \in to[a] : spc[s] \in {"on", "gone"}
  /\ \A s \in Subs, k \in Kinds :
       /\ spc[s] \in Kinds \cup {"off", "push"} => view[s][k] = 0 /\ best[s][k] = 0
       /\ spc[s] = "register" => view[s][k] = seed[s][k] /\ best[s][k] = seed[s][k]
       /\ spc[s] \in BeforeRegister[k] => seed[s][k] = state[k] \/ s \in gap[k]

Told ==
  \A s \in Subs, k \in Kinds : spc[s] = "on" =>
    best[s][k] = state[k] \/ s \in gap[k] \/ \E a \in Actors : Owes(a, s, k)

Synced ==
  \A a \in Actors, k \in Kinds : Owns(a, k) =>
    \A s \in Subs : spc[s] = "on" =>
      view[s][k] = state[k] \/ s \in gap[k] \/ Owes(a, s, k)

-----------------------------------------------------------------------------
(* The operations.                                                         *)

\* A part as one sequence.
Shown      == <<Change({"current"}), Snapshot("current"), Collect, Push({"current"})>>
Displayed  == <<Change({"current", "queue"}), Snapshot("current"), Collect,
                Push({"current"}), Snapshot("queue"), Collect, Push({"queue"})>>
Completed  == <<Change({"queue"}), Change({"current"}), Snapshot("queue"), Collect,
                Push({"queue"}), Snapshot("current"), Collect, Push({"current"})>>
Again      == <<Snapshot("current"), Collect, Push({"current"})>>

LEMMA StepTypes ==
  /\ \A kinds \in SUBSET Kinds : Change(kinds) \in Steps /\ Push(kinds) \in Steps
  /\ \A kind \in Kinds : Snapshot(kind) \in Steps
  /\ Collect \in Steps
BY DEF Change, Push, Snapshot, Collect, Steps

LEMMA KindSets ==
  /\ {{"current"}, {"queue"}, {"history"}, {"current", "queue"}, {"queue", "history"}}
       \subseteq SUBSET Kinds
  /\ "current" \in Kinds /\ "queue" \in Kinds /\ "history" \in Kinds
BY DEF Kinds

LEMMA NotifyAfter ==
  ASSUME NEW x \in Seq(Steps), NEW z \in Seq(Steps), NEW k \in Kinds,
         Len(z) = Len(x) + 3, \A i \in 1 .. Len(x) : z[i] = x[i],
         z[Len(x) + 1] = Snapshot(k), z[Len(x) + 2] = Collect, z[Len(x) + 3] = Push({k})
  PROVE  x \o Notify(k) = z
<1> DEFINE y == Notify(k)
<1>1. /\ y \in Seq(Steps) /\ Len(y) = 3
      /\ y[1] = Snapshot(k) /\ y[2] = Collect /\ y[3] = Push({k})
  BY StepTypes DEF Notify
<1>2. Len(x) \in Nat
  OBVIOUS
<1> HIDE DEF y
<1>3. x \o y \in Seq(Steps) /\ Len(x \o y) = Len(z)
  <2>1. x \o y \in Seq(Steps) /\ Len(x \o y) = Len(x) + Len(y)
    BY <1>1, ConcatProperties
  <2> QED
    BY <1>1, <2>1
<1>4. ASSUME NEW i \in 1 .. Len(z) PROVE (x \o y)[i] = z[i]
  <2>1. (x \o y)[i] = IF i <= Len(x) THEN x[i] ELSE y[i - Len(x)]
    BY <1>1, ConcatProperties
  <2>2. i <= Len(x) \/ i = Len(x) + 1 \/ i = Len(x) + 2 \/ i = Len(x) + 3
    BY <1>2
  <2> QED
    BY <1>1, <1>2, <2>1, <2>2
<1>5. x \o y = z
  BY <1>3, <1>4, SeqEqual
<1> QED
  BY <1>5 DEF y

LEMMA PartSteps == \A p \in Parts :
  /\ p.steps \in {Shown, Displayed, Completed, Again}
  /\ p.goal \in {"nothing", "kept", "publish", "dwell"}
<1> DEFINE changed == <<Change({"current"})>>
           both    == <<Change({"current", "queue"})>>
           either  == <<Change({"queue"}), Change({"current"})>>
           shown   == <<Change({"current", "queue"}), Snapshot("current"), Collect,
                        Push({"current"})>>
           done    == <<Change({"queue"}), Change({"current"}), Snapshot("queue"),
                        Collect, Push({"queue"})>>
<1>1. /\ {changed, both, either, shown, done, Shown, Displayed, Completed} \subseteq Seq(Steps)
  BY StepTypes, KindSets DEF Shown, Displayed, Completed
<1>2. changed \o Notify("current") = Shown
  <2>1. /\ Len(Shown) = Len(changed) + 3 /\ \A i \in 1 .. Len(changed) : Shown[i] = changed[i]
        /\ Shown[Len(changed) + 1] = Snapshot("current") /\ Shown[Len(changed) + 2] = Collect
        /\ Shown[Len(changed) + 3] = Push({"current"})
    BY DEF Shown
  <2> HIDE DEF changed
  <2> QED
    BY <1>1, <2>1, NotifyAfter, KindSets
<1>3. both \o Notify("current") = shown
  <2>1. /\ Len(shown) = Len(both) + 3 /\ \A i \in 1 .. Len(both) : shown[i] = both[i]
        /\ shown[Len(both) + 1] = Snapshot("current") /\ shown[Len(both) + 2] = Collect
        /\ shown[Len(both) + 3] = Push({"current"})
    OBVIOUS
  <2> HIDE DEF both, shown
  <2> QED
    BY <1>1, <2>1, NotifyAfter, KindSets
<1>4. shown \o Notify("queue") = Displayed
  <2>1. /\ Len(Displayed) = Len(shown) + 3 /\ \A i \in 1 .. Len(shown) : Displayed[i] = shown[i]
        /\ Displayed[Len(shown) + 1] = Snapshot("queue") /\ Displayed[Len(shown) + 2] = Collect
        /\ Displayed[Len(shown) + 3] = Push({"queue"})
    BY DEF Displayed
  <2> HIDE DEF shown
  <2> QED
    BY <1>1, <2>1, NotifyAfter, KindSets
<1>5. either \o Notify("queue") = done
  <2>1. /\ Len(done) = Len(either) + 3 /\ \A i \in 1 .. Len(either) : done[i] = either[i]
        /\ done[Len(either) + 1] = Snapshot("queue") /\ done[Len(either) + 2] = Collect
        /\ done[Len(either) + 3] = Push({"queue"})
    OBVIOUS
  <2> HIDE DEF either, done
  <2> QED
    BY <1>1, <2>1, NotifyAfter, KindSets
<1>6. done \o Notify("current") = Completed
  <2>1. /\ Len(Completed) = Len(done) + 3 /\ \A i \in 1 .. Len(done) : Completed[i] = done[i]
        /\ Completed[Len(done) + 1] = Snapshot("current") /\ Completed[Len(done) + 2] = Collect
        /\ Completed[Len(done) + 3] = Push({"current"})
    BY DEF Completed
  <2> HIDE DEF done
  <2> QED
    BY <1>1, <2>1, NotifyAfter, KindSets
<1>7. Notify("current") = Again
  BY DEF Notify, Again
<1> HIDE DEF changed, both, either
<1>8. \A p \in Parts :
        /\ p.steps \in {changed \o Notify("current"),
                        both \o Notify("current") \o Notify("queue"), Completion,
                        Notify("current")}
        /\ p.goal \in {"nothing", "kept", "publish", "dwell"}
  BY DEF Parts, Part, changed, both
<1>9. Completion = Completed
  BY <1>5, <1>6 DEF Completion, either
<1> QED
  BY <1>2, <1>3, <1>4, <1>7, <1>8, <1>9

LEMMA OperationTypes ==
  {Shown, Displayed, Completed, Again, AddMessage, RemoveMessage} \subseteq Seq(Steps)
BY StepTypes, KindSets DEF Shown, Displayed, Completed, Again, AddMessage, RemoveMessage

LEMMA TailOf ==
  ASSUME NEW S, NEW j \in Seq(S), j # <<>>
  PROVE  /\ Tail(j) \in Seq(S) /\ Len(j) \in Nat \ {0} /\ Len(Tail(j)) = Len(j) - 1
         /\ Head(j) = j[1] /\ Head(j) \in S
         /\ \A i \in 1 .. Len(j) - 1 : Tail(j)[i] = j[i + 1]
OBVIOUS

LEMMA StepFields ==
  /\ \A x : Change(x).do = "change" /\ Change(x).kinds = x
  /\ \A x : Push(x).do = "push" /\ Push(x).kinds = x
  /\ \A k : Snapshot(k).do = "snap" /\ Snapshot(k).kinds = {k}
  /\ Collect.do = "collect" /\ Collect.kinds = {}
BY DEF Change, Push, Snapshot, Collect

LEMMA AddShape ==
  Announced(AddMessage) /\ Fresh(AddMessage, "history") /\ Quiet(AddMessage, "current")
<1> DEFINE j == AddMessage
<1>1. /\ Len(j) = 6 /\ j[1] = Change({"queue"}) /\ j[2] = Change({"history"})
      /\ j[3] = Collect /\ j[4] = Snapshot("queue") /\ j[5] = Snapshot("history")
      /\ j[6] = Push({"queue", "history"})
  BY DEF AddMessage
<1> HIDE DEF j
<1>2. ASSUME NEW i \in 1 .. Len(j), NEW k \in Kinds, Does(j[i], "change", k)
      PROVE  Announces(j, i + 1, k)
  <2>1. (i = 1 /\ k = "queue") \/ (i = 2 /\ k = "history")
    BY <1>1, <1>2, StepFields DEF Does
  <2>2. 6 \in i + 1 .. Len(j) /\ Does(j[6], "push", k)
    BY <1>1, <2>1, StepFields DEF Does
  <2>3. \E n \in i + 1 .. 6 - 1 : Does(j[n], "snap", k)
    BY <1>1, <2>1, StepFields DEF Does
  <2>4. 3 \in i + 1 .. 6 - 1 /\ j[3].do = "collect" /\ \A q \in 3 .. 6 - 1 : j[q].do # "push"
    BY <1>1, <2>1, StepFields
  <2> QED
    BY <2>2, <2>3, <2>4 DEF Announces
<1>3. Quiet(j, "current")
  BY <1>1, StepFields DEF Quiet
<1>4. ASSUME NEW p \in 1 .. Len(j), Does(j[p], "push", "history")
      PROVE  SnapsFirst(j, p, "history")
  <2>1. p = 6
    BY <1>1, <1>4, StepFields DEF Does
  <2>2. 5 \in 1 .. p - 1 /\ Does(j[5], "snap", "history") /\ Unchanged(j, 5, p, "history")
    BY <1>1, <2>1, StepFields DEF Does, Unchanged
  <2> QED
    BY <2>2 DEF SnapsFirst
<1> QED
  BY <1>2, <1>3, <1>4 DEF Announced, Fresh, j

LEMMA RemoveShape ==
  /\ Announced(RemoveMessage) /\ Fresh(RemoveMessage, "history")
  /\ Quiet(RemoveMessage, "current")
<1> DEFINE j == RemoveMessage
<1>1. /\ Len(j) = 4 /\ j[1] = Change({"queue"}) /\ j[2] = Collect
      /\ j[3] = Snapshot("queue") /\ j[4] = Push({"queue"})
  BY DEF RemoveMessage
<1> HIDE DEF j
<1>2. ASSUME NEW i \in 1 .. Len(j), NEW k \in Kinds, Does(j[i], "change", k)
      PROVE  Announces(j, i + 1, k)
  <2>1. i = 1 /\ k = "queue"
    BY <1>1, <1>2, StepFields DEF Does
  <2>2. 4 \in i + 1 .. Len(j) /\ Does(j[4], "push", k)
    BY <1>1, <2>1, StepFields DEF Does
  <2>3. \E n \in i + 1 .. 4 - 1 : Does(j[n], "snap", k)
    BY <1>1, <2>1, StepFields DEF Does
  <2>4. 2 \in i + 1 .. 4 - 1 /\ j[2].do = "collect" /\ \A q \in 2 .. 4 - 1 : j[q].do # "push"
    BY <1>1, <2>1, StepFields
  <2> QED
    BY <2>2, <2>3, <2>4 DEF Announces
<1>3. Quiet(j, "current")
  BY <1>1, StepFields DEF Quiet
<1>4. Fresh(j, "history")
  BY <1>1, StepFields DEF Fresh, Does
<1> QED
  BY <1>2, <1>3, <1>4 DEF Announced, j

LEMMA AgainShape ==
  Announced(Again) /\ Fresh(Again, "current") /\ Quiet(Again, "history")
<1> DEFINE j == Again
<1>1. /\ Len(j) = 3 /\ j[1] = Snapshot("current") /\ j[2] = Collect
      /\ j[3] = Push({"current"})
  BY DEF Again
<1> HIDE DEF j
<1>2. Announced(j)
  BY <1>1, StepFields DEF Announced, Does
<1>3. ASSUME NEW p \in 1 .. Len(j), Does(j[p], "push", "current")
      PROVE  SnapsFirst(j, p, "current")
  <2>1. p = 3
    BY <1>1, <1>3, StepFields DEF Does
  <2>2. 1 \in 1 .. p - 1 /\ Does(j[1], "snap", "current") /\ Unchanged(j, 1, p, "current")
    BY <1>1, <2>1, StepFields DEF Does, Unchanged
  <2> QED
    BY <2>2 DEF SnapsFirst
<1>4. Quiet(j, "history")
  BY <1>1, StepFields DEF Quiet
<1> QED
  BY <1>2, <1>3, <1>4 DEF Fresh, j

LEMMA ShownShape ==
  Announced(Shown) /\ Fresh(Shown, "current") /\ Quiet(Shown, "history")
<1> DEFINE j == Shown
<1>1. /\ Len(j) = 4 /\ j[1] = Change({"current"}) /\ j[2] = Snapshot("current")
      /\ j[3] = Collect /\ j[4] = Push({"current"})
  BY DEF Shown
<1> HIDE DEF j
<1>2. ASSUME NEW i \in 1 .. Len(j), NEW k \in Kinds, Does(j[i], "change", k)
      PROVE  Announces(j, i + 1, k)
  <2>1. i = 1 /\ k = "current"
    BY <1>1, <1>2, StepFields DEF Does
  <2>2. 4 \in i + 1 .. Len(j) /\ Does(j[4], "push", k)
    BY <1>1, <2>1, StepFields DEF Does
  <2>3. \E n \in i + 1 .. 4 - 1 : Does(j[n], "snap", k)
    BY <1>1, <2>1, StepFields DEF Does
  <2>4. 3 \in i + 1 .. 4 - 1 /\ j[3].do = "collect" /\ \A q \in 3 .. 4 - 1 : j[q].do # "push"
    BY <1>1, <2>1, StepFields
  <2> QED
    BY <2>2, <2>3, <2>4 DEF Announces
<1>3. ASSUME NEW p \in 1 .. Len(j), Does(j[p], "push", "current")
      PROVE  SnapsFirst(j, p, "current")
  <2>1. p = 4
    BY <1>1, <1>3, StepFields DEF Does
  <2>2. 2 \in 1 .. p - 1 /\ Does(j[2], "snap", "current") /\ Unchanged(j, 2, p, "current")
    BY <1>1, <2>1, StepFields DEF Does, Unchanged
  <2> QED
    BY <2>2 DEF SnapsFirst
<1>4. Quiet(j, "history")
  BY <1>1, StepFields DEF Quiet
<1> QED
  BY <1>2, <1>3, <1>4 DEF Announced, Fresh, j

LEMMA DisplayedShape ==
  Announced(Displayed) /\ Fresh(Displayed, "current") /\ Quiet(Displayed, "history")
<1> DEFINE j == Displayed
<1>1. /\ Len(j) = 7 /\ j[1] = Change({"current", "queue"}) /\ j[2] = Snapshot("current")
      /\ j[3] = Collect /\ j[4] = Push({"current"}) /\ j[5] = Snapshot("queue")
      /\ j[6] = Collect /\ j[7] = Push({"queue"})
  BY DEF Displayed
<1> HIDE DEF j
<1>2. ASSUME NEW i \in 1 .. Len(j), NEW k \in Kinds, Does(j[i], "change", k)
      PROVE  Announces(j, i + 1, k)
  <2>1. i = 1 /\ k \in {"current", "queue"}
    BY <1>1, <1>2, StepFields DEF Does
  <2>2. PICK p \in {4, 7} : Does(j[p], "push", k) /\ Does(j[p - 2], "snap", k)
    BY <1>1, <2>1, StepFields DEF Does
  <2>3. p \in i + 1 .. Len(j) /\ p - 2 \in i + 1 .. p - 1
    BY <1>1, <2>1
  <2>4. /\ p - 1 \in i + 1 .. p - 1 /\ j[p - 1].do = "collect"
        /\ \A q \in p - 1 .. p - 1 : j[q].do # "push"
    BY <1>1, <2>1, StepFields
  <2> QED
    BY <2>2, <2>3, <2>4 DEF Announces
<1>3. ASSUME NEW p \in 1 .. Len(j), Does(j[p], "push", "current")
      PROVE  SnapsFirst(j, p, "current")
  <2>1. p = 4
    BY <1>1, <1>3, StepFields DEF Does
  <2>2. 2 \in 1 .. p - 1 /\ Does(j[2], "snap", "current") /\ Unchanged(j, 2, p, "current")
    BY <1>1, <2>1, StepFields DEF Does, Unchanged
  <2> QED
    BY <2>2 DEF SnapsFirst
<1>4. Quiet(j, "history")
  BY <1>1, StepFields DEF Quiet
<1> QED
  BY <1>2, <1>3, <1>4 DEF Announced, Fresh, j

LEMMA CompletedShape ==
  Announced(Completed) /\ Fresh(Completed, "current") /\ Quiet(Completed, "history")
<1> DEFINE j == Completed
<1>1. /\ Len(j) = 8 /\ j[1] = Change({"queue"}) /\ j[2] = Change({"current"})
      /\ j[3] = Snapshot("queue") /\ j[4] = Collect /\ j[5] = Push({"queue"})
      /\ j[6] = Snapshot("current") /\ j[7] = Collect /\ j[8] = Push({"current"})
  BY DEF Completed
<1> HIDE DEF j
<1>2. ASSUME NEW i \in 1 .. Len(j), NEW k \in Kinds, Does(j[i], "change", k)
      PROVE  Announces(j, i + 1, k)
  <2>1. (i = 1 /\ k = "queue") \/ (i = 2 /\ k = "current")
    BY <1>1, <1>2, StepFields DEF Does
  <2>2. PICK p \in {5, 8} : Does(j[p], "push", k) /\ Does(j[p - 2], "snap", k)
    BY <1>1, <2>1, StepFields DEF Does
  <2>3. p \in i + 1 .. Len(j) /\ p - 2 \in i + 1 .. p - 1
    BY <1>1, <2>1
  <2>4. /\ p - 1 \in i + 1 .. p - 1 /\ j[p - 1].do = "collect"
        /\ \A q \in p - 1 .. p - 1 : j[q].do # "push"
    BY <1>1, <2>1, StepFields
  <2> QED
    BY <2>2, <2>3, <2>4 DEF Announces
<1>3. ASSUME NEW p \in 1 .. Len(j), Does(j[p], "push", "current")
      PROVE  SnapsFirst(j, p, "current")
  <2>1. p = 8
    BY <1>1, <1>3, StepFields DEF Does
  <2>2. 6 \in 1 .. p - 1 /\ Does(j[6], "snap", "current") /\ Unchanged(j, 6, p, "current")
    BY <1>1, <2>1, StepFields DEF Does, Unchanged
  <2> QED
    BY <2>2 DEF SnapsFirst
<1>4. Quiet(j, "history")
  BY <1>1, StepFields DEF Quiet
<1> QED
  BY <1>2, <1>3, <1>4 DEF Announced, Fresh, j

-----------------------------------------------------------------------------
(* Types.                                                                  *)

LEMMA TypeInit == Init => TypeOK
<1> SUFFICES ASSUME Init PROVE TypeOK
  OBVIOUS
<1>1. state \in Versions
  BY DEF Init, Versions
<1>2. job \in [Actors -> Seq(Steps)]
  BY DEF Init
<1>3. spc \in [Subs -> Kinds \cup {"off", "push", "register", "on", "gone"}]
  BY DEF Init
<1>4. /\ snap \in [Actors -> Versions] /\ seed \in [Subs -> Versions]
      /\ view \in [Subs -> Versions] /\ best \in [Subs -> Versions]
  BY <1>1 DEF Init
<1>5. ticks \in 0 .. MaxTicks /\ requests \in 0 .. MaxRequests
  BY BoundAssumption DEF Init
<1> QED
  BY <1>1, <1>2, <1>3, <1>4, <1>5 DEF Init, TypeOK

LEMMA TypeKept == TypeOK /\ [Next]_vars => TypeOK'
<1> SUFFICES ASSUME TypeOK, [Next]_vars PROVE TypeOK'
  OBVIOUS
<1> USE BoundAssumption DEF TypeOK, actorVars, subVars, loopVars
<1>1. ASSUME NEW c \in Callers, Request(c) PROVE TypeOK'
  BY <1>1, OperationTypes DEF Request, Actors
<1>2. CASE Tick
  <2>1. PICK p \in Parts : place' = p.goal /\ job' = [job EXCEPT ![Loop] = p.steps]
    BY <1>2 DEF Tick
  <2>2. place' \in {"nothing", "kept", "publish", "dwell"} /\ p.steps \in Seq(Steps)
    BY <2>1, PartSteps, OperationTypes
  <2>3. job' \in [Actors -> Seq(Steps)]
    BY <2>1, <2>2
  <2>4. ticks' \in 0 .. MaxTicks
    BY <1>2 DEF Tick
  <2> QED
    BY <1>2, <2>2, <2>3, <2>4 DEF Tick
<1>3. ASSUME NEW a \in Actors, Act(a) PROVE TypeOK'
  <2>1. Doing(a, "change") \/ Doing(a, "snap") \/ Doing(a, "collect") \/ Doing(a, "push")
        => Tail(job[a]) \in Seq(Steps)
    BY TailOf DEF Doing
  <2>2. CASE Changes(a)
    <3>1. state' \in Versions
      BY <2>2 DEF Changes, Versions
    <3>2. gap' \in [Kinds -> SUBSET Subs]
      BY <2>2 DEF Changes
    <3>3. job' \in [Actors -> Seq(Steps)]
      BY <2>1, <2>2 DEF Changes, Done
    <3> QED
      BY <2>2, <3>1, <3>2, <3>3 DEF Changes
  <2>3. CASE Snapshots(a)
    <3>1. [k \in Kinds |-> IF k \in Head(job[a]).kinds THEN state[k] ELSE snap[a][k]]
            \in Versions
      BY DEF Versions
    <3> QED
      BY <2>1, <2>3, <3>1 DEF Snapshots, Done
  <2>4. CASE collectSubscribers(a)
    BY <2>1, <2>4 DEF collectSubscribers, Done
  <2>5. CASE Pushed(a)
    BY <2>1, <2>5 DEF Pushed, Done
  <2>6. ASSUME NEW s \in Subs, PushTo(a, s) PROVE TypeOK'
    <3> DEFINE new == [k \in Kinds |-> IF k \in Head(job[a]).kinds THEN snap[a][k]
                                       ELSE view[s][k]]
    <3>1. new \in Versions
      BY DEF Versions
    <3> HIDE DEF new
    <3>2. Receives(s, new)
      BY <2>6 DEF PushTo, new
    <3>3. view' \in [Subs -> Versions] /\ best' \in [Subs -> Versions]
      BY <3>1, <3>2 DEF Receives, Versions
    <3>4. to' \in [Actors -> SUBSET Subs]
      BY <2>6 DEF PushTo
    <3> QED
      BY <2>6, <3>3, <3>4 DEF PushTo
  <2> QED
    BY <1>3, <2>2, <2>3, <2>4, <2>5, <2>6 DEF Act
<1>4. ASSUME NEW s \in Subs, Subscriber(s) PROVE TypeOK'
  <2>1. CASE SubscribeQueue(s) \/ Register(s) \/ UnsubscribeQueue(s)
    BY <2>1 DEF SubscribeQueue, Register, UnsubscribeQueue, Kinds
  <2>2. CASE ReadSeed(s)
    <3>1. spc' \in [Subs -> Kinds \cup {"off", "push", "register", "on", "gone"}]
      BY <2>2 DEF ReadSeed, AfterSeed, Kinds
    <3>2. seed' \in [Subs -> Versions]
      BY <2>2 DEF ReadSeed, Versions
    <3> QED
      BY <2>2, <3>1, <3>2 DEF ReadSeed
  <2>3. CASE PushSeeds(s)
    <3>1. view' \in [Subs -> Versions] /\ best' \in [Subs -> Versions]
      BY <2>3 DEF PushSeeds, Receives, Versions
    <3> QED
      BY <2>3, <3>1 DEF PushSeeds
  <2> QED
    BY <1>4, <2>1, <2>2, <2>3 DEF Subscriber
<1>5. CASE UNCHANGED vars
  BY <1>5 DEF vars
<1> QED
  BY <1>1, <1>2, <1>3, <1>4, <1>5 DEF Next

-----------------------------------------------------------------------------
(* What remains of an operation after its first step.                      *)

LEMMA AnnouncesTail ==
  ASSUME NEW j \in Seq(Steps), j # <<>>, NEW k \in Kinds, NEW i \in Nat \ {0},
         Announces(j, i + 1, k)
  PROVE  Announces(Tail(j), i, k)
<1>1. PICK p \in i + 1 .. Len(j) :
        /\ Does(j[p], "push", k)
        /\ \E n \in i + 1 .. p - 1 : Does(j[n], "snap", k)
        /\ \E c \in i + 1 .. p - 1 : /\ j[c].do = "collect"
                                     /\ \A q \in c .. p - 1 : j[q].do # "push"
  BY DEF Announces
<1>2. PICK n \in i + 1 .. p - 1 : Does(j[n], "snap", k)
  BY <1>1
<1>3. PICK c \in i + 1 .. p - 1 : /\ j[c].do = "collect"
                                  /\ \A q \in c .. p - 1 : j[q].do # "push"
  BY <1>1
<1> DEFINE r == Tail(j)
<1>4. Len(j) \in Nat /\ Len(r) = Len(j) - 1 /\ \A m \in 1 .. Len(j) - 1 : r[m] = j[m + 1]
  BY TailOf
<1> HIDE DEF r
<1>5. p - 1 \in i .. Len(r) /\ r[p - 1] = j[p]
  BY <1>4
<1>6. n - 1 \in i .. (p - 1) - 1 /\ r[n - 1] = j[n]
  BY <1>4
<1>7. c - 1 \in i .. (p - 1) - 1 /\ r[c - 1] = j[c]
  BY <1>4
<1>8. \A q \in c - 1 .. (p - 1) - 1 : r[q].do # "push"
  <2> TAKE q \in c - 1 .. (p - 1) - 1
  <2>1. q + 1 \in c .. p - 1 /\ r[q] = j[q + 1]
    BY <1>4
  <2> QED
    BY <1>3, <2>1
<1>9. Announces(r, i, k)
  BY <1>1, <1>2, <1>3, <1>5, <1>6, <1>7, <1>8 DEF Announces
<1> QED
  BY <1>9 DEF r

LEMMA AnnouncedTail ==
  ASSUME NEW j \in Seq(Steps), j # <<>>, Announced(j)
  PROVE  Announced(Tail(j))
<1> SUFFICES ASSUME NEW i \in 1 .. Len(Tail(j)), NEW k \in Kinds,
                    Does(Tail(j)[i], "change", k)
             PROVE  Announces(Tail(j), i + 1, k)
  BY DEF Announced
<1>1. i + 1 \in 1 .. Len(j) /\ Tail(j)[i] = j[i + 1] /\ i \in Nat
  BY TailOf
<1>2. Announces(j, (i + 1) + 1, k)
  BY <1>1 DEF Announced
<1> QED
  BY <1>1, <1>2, AnnouncesTail

LEMMA QuietTail ==
  ASSUME NEW j \in Seq(Steps), j # <<>>, NEW k, Quiet(j, k)
  PROVE  Quiet(Tail(j), k) /\ k \notin Head(j).kinds
BY TailOf DEF Quiet

\* The rest of a delivery is one too, if its first step is not the push.
LEMMA DeliversTail ==
  ASSUME NEW j \in Seq(Steps), j # <<>>, NEW k \in Kinds,
         NEW listed \in BOOLEAN, NEW fresh \in BOOLEAN, Delivers(j, listed, fresh, k),
         NEW listed2 \in BOOLEAN, NEW fresh2 \in BOOLEAN,
         fresh => fresh2, Does(Head(j), "snap", k) => fresh2,
         listed => listed2 /\ Head(j).do # "push", Head(j).do = "collect" => listed2
  PROVE  Delivers(Tail(j), listed2, fresh2, k)
<1>1. PICK p \in 1 .. Len(j) :
        /\ Does(j[p], "push", k)
        /\ fresh \/ \E n \in 1 .. p - 1 : Does(j[n], "snap", k)
        /\ \/ listed /\ \A q \in 1 .. p - 1 : j[q].do # "push"
           \/ \E c \in 1 .. p - 1 : /\ j[c].do = "collect"
                                    /\ \A q \in c .. p - 1 : j[q].do # "push"
  BY DEF Delivers
<1> DEFINE r == Tail(j)
<1>2. /\ Len(j) \in Nat \ {0} /\ Len(r) = Len(j) - 1 /\ Head(j) = j[1]
      /\ \A m \in 1 .. Len(j) - 1 : r[m] = j[m + 1]
  BY TailOf
<1> HIDE DEF r
<1>3. p # 1
  <2> SUFFICES ASSUME p = 1 PROVE FALSE
    OBVIOUS
  <2>1. Head(j).do = "push"
    BY <1>1, <1>2 DEF Does
  <2>2. listed
    BY <1>1
  <2> QED
    BY <2>1, <2>2
<1>4. p - 1 \in 1 .. Len(r) /\ r[p - 1] = j[p]
  BY <1>2, <1>3
<1>5. fresh2 \/ \E n \in 1 .. (p - 1) - 1 : Does(r[n], "snap", k)
  <2>1. CASE fresh
    BY <2>1
  <2>2. ASSUME NEW n \in 1 .. p - 1, Does(j[n], "snap", k)
        PROVE  fresh2 \/ \E m \in 1 .. (p - 1) - 1 : Does(r[m], "snap", k)
    <3>1. CASE n = 1
      BY <1>2, <2>2, <3>1
    <3>2. CASE n # 1
      <4>1. n - 1 \in 1 .. (p - 1) - 1 /\ r[n - 1] = j[n]
        BY <1>2, <3>2
      <4> QED
        BY <2>2, <4>1
    <3> QED
      BY <3>1, <3>2
  <2> QED
    BY <1>1, <2>1, <2>2
<1>6. \A c \in 1 .. p - 1 : (\A q \in c .. p - 1 : j[q].do # "push") =>
        \A q \in 1 .. (p - 1) - 1 : q + 1 >= c => r[q].do # "push"
  <2> SUFFICES ASSUME NEW c \in 1 .. p - 1, \A q \in c .. p - 1 : j[q].do # "push",
                      NEW q \in 1 .. (p - 1) - 1, q + 1 >= c
               PROVE  r[q].do # "push"
    OBVIOUS
  <2>1. q + 1 \in c .. p - 1 /\ r[q] = j[q + 1]
    BY <1>2
  <2> QED
    BY <2>1
<1>7. \/ listed2 /\ \A q \in 1 .. (p - 1) - 1 : r[q].do # "push"
      \/ \E c \in 1 .. (p - 1) - 1 :
           r[c].do = "collect" /\ \A q \in c .. (p - 1) - 1 : r[q].do # "push"
  <2>1. CASE listed /\ \A q \in 1 .. p - 1 : j[q].do # "push"
    <3>1. \A q \in 1 .. (p - 1) - 1 : q + 1 >= 1 => r[q].do # "push"
      BY <1>3, <1>6, <2>1
    <3> QED
      BY <2>1, <3>1
  <2>2. ASSUME NEW c \in 1 .. p - 1, j[c].do = "collect",
               \A q \in c .. p - 1 : j[q].do # "push"
        PROVE  \/ listed2 /\ \A q \in 1 .. (p - 1) - 1 : r[q].do # "push"
               \/ \E d \in 1 .. (p - 1) - 1 :
                    r[d].do = "collect" /\ \A q \in d .. (p - 1) - 1 : r[q].do # "push"
    <3>1. \A q \in 1 .. (p - 1) - 1 : q + 1 >= c => r[q].do # "push"
      BY <1>6, <2>2
    <3>2. CASE c = 1
      BY <1>2, <2>2, <3>1, <3>2
    <3>3. CASE c # 1
      <4>1. c - 1 \in 1 .. (p - 1) - 1 /\ r[c - 1] = j[c]
        BY <1>2, <3>3
      <4>2. \A q \in c - 1 .. (p - 1) - 1 : r[q].do # "push"
        BY <3>1, <4>1
      <4> QED
        BY <2>2, <4>1, <4>2
    <3> QED
      BY <3>2, <3>3
  <2> QED
    BY <1>1, <2>1, <2>2
<1>8. Does(r[p - 1], "push", k)
  BY <1>1, <1>4
<1> HIDE DEF Does
<1>9. Delivers(r, listed2, fresh2, k)
  BY <1>4, <1>5, <1>7, <1>8 DEF Delivers
<1> QED
  BY <1>9 DEF r

\* A push that is under way delivers, or the delivery comes later and collects again.
LEMMA DeliversNowOrLater ==
  ASSUME NEW j \in Seq(Steps), j # <<>>, NEW k \in Kinds, Head(j).do = "push",
         NEW listed \in BOOLEAN, NEW fresh \in BOOLEAN, Delivers(j, listed, fresh, k),
         NEW listed2 \in BOOLEAN
  PROVE  (fresh /\ k \in Head(j).kinds) \/ Delivers(j, listed2, fresh, k)
<1>1. PICK p \in 1 .. Len(j) :
        /\ Does(j[p], "push", k)
        /\ fresh \/ \E n \in 1 .. p - 1 : Does(j[n], "snap", k)
        /\ \/ listed /\ \A q \in 1 .. p - 1 : j[q].do # "push"
           \/ \E c \in 1 .. p - 1 : /\ j[c].do = "collect"
                                    /\ \A q \in c .. p - 1 : j[q].do # "push"
  BY DEF Delivers
<1>2. Head(j) = j[1] /\ Len(j) \in Nat
  BY TailOf
<1>3. CASE p = 1
  <2>1. fresh \/ \E n \in 1 .. p - 1 : Does(j[n], "snap", k)
    BY <1>1
  <2>2. fresh
    BY <1>3, <2>1
  <2>3. k \in Head(j).kinds
    BY <1>1, <1>2, <1>3 DEF Does
  <2> QED
    BY <2>2, <2>3
<1>4. CASE p # 1
  <2>1. 1 \in 1 .. p - 1
    BY <1>2, <1>4
  <2>2. \E c \in 1 .. p - 1 : j[c].do = "collect" /\ \A q \in c .. p - 1 : j[q].do # "push"
    BY <1>1, <1>2, <2>1
  <2> QED
    BY <1>1, <2>2 DEF Delivers
<1> QED
  BY <1>3, <1>4

-----------------------------------------------------------------------------
(* The steps of an actor.                                                  *)

\* Only an actor's own steps touch its operation.
LEMMA JobSteps ==
  ASSUME TypeOK, [Next]_vars, NEW a \in Actors
  PROVE  \/ /\ job'[a] = job[a] /\ snap'[a] = snap[a]
            /\ to'[a] = to[a] \/ \E s \in Subs : PushTo(a, s)
         \/ /\ job[a] = <<>> /\ snap'[a] = snap[a] /\ to'[a] = to[a] /\ state' = state
            /\ \/ a \in Callers /\ job'[a] \in {AddMessage, RemoveMessage}
               \/ a = Loop /\ job'[a] \in {Shown, Displayed, Completed, Again}
         \/ /\ job[a] # <<>> /\ job'[a] = Tail(job[a])
            /\ Changes(a) \/ Snapshots(a) \/ collectSubscribers(a) \/ Pushed(a)
<1> DEFINE Idle == /\ job'[a] = job[a] /\ snap'[a] = snap[a]
                   /\ to'[a] = to[a] \/ \E s \in Subs : PushTo(a, s)
<1> USE DEF TypeOK, actorVars, loopVars, subVars
<1>1. ASSUME NEW c \in Callers, Request(c)
      PROVE  \/ Idle
             \/ /\ job[a] = <<>> /\ snap'[a] = snap[a] /\ to'[a] = to[a] /\ state' = state
                /\ a \in Callers /\ job'[a] \in {AddMessage, RemoveMessage}
  BY <1>1 DEF Request, Actors
<1>2. CASE Tick
  <2>1. PICK p \in Parts : job' = [job EXCEPT ![Loop] = p.steps]
    BY <1>2 DEF Tick
  <2>2. p.steps \in {Shown, Displayed, Completed, Again}
    BY PartSteps
  <2>3. /\ job[Loop] = <<>> /\ snap'[a] = snap[a] /\ to'[a] = to[a] /\ state' = state
        /\ Loop \in Actors
    BY <1>2 DEF Tick, Actors
  <2> QED
    BY <2>1, <2>2, <2>3
<1>3. ASSUME NEW b \in Actors, Act(b)
      PROVE  Idle \/ /\ job[a] # <<>> /\ job'[a] = Tail(job[a])
                     /\ Changes(a) \/ Snapshots(a) \/ collectSubscribers(a) \/ Pushed(a)
  <2>1. CASE Changes(b)
    BY <2>1 DEF Changes, Doing, Done
  <2>2. CASE Snapshots(b)
    BY <2>2 DEF Snapshots, Doing, Done
  <2>3. CASE collectSubscribers(b)
    BY <2>3 DEF collectSubscribers, Doing, Done
  <2>4. CASE Pushed(b)
    BY <2>4 DEF Pushed, Doing, Done
  <2>5. ASSUME NEW s \in Subs, PushTo(b, s) PROVE Idle
    BY <2>5 DEF PushTo
  <2> QED
    BY <1>3, <2>1, <2>2, <2>3, <2>4, <2>5 DEF Act
<1>4. ASSUME NEW s \in Subs, Subscriber(s) PROVE Idle
  BY <1>4 DEF Subscriber, SubscribeQueue, ReadSeed, PushSeeds, Register, UnsubscribeQueue
<1>5. CASE UNCHANGED vars
  BY <1>5 DEF vars
<1> QED
  BY <1>1, <1>2, <1>3, <1>4, <1>5 DEF Next

\* Only a change of a kind changes its state, and with it the gap of the kind.
LEMMA ChangeSteps ==
  ASSUME TypeOK, [Next]_vars, NEW k \in Kinds
  PROVE  \/ state'[k] = state[k] /\ gap'[k] = gap[k]
         \/ /\ state'[k] = state[k] + 1
            /\ gap'[k] = {s \in Subs : spc[s] \in BeforeRegister[k]}
            /\ \E a \in Actors : Changes(a) /\ Does(job[a][1], "change", k)
<1> USE DEF TypeOK, actorVars, loopVars, subVars
<1>1. ASSUME NEW a \in Actors, Changes(a)
      PROVE  \/ state'[k] = state[k] /\ gap'[k] = gap[k]
             \/ /\ state'[k] = state[k] + 1
                /\ gap'[k] = {s \in Subs : spc[s] \in BeforeRegister[k]}
                /\ Does(job[a][1], "change", k)
  <2>1. Head(job[a]) = job[a][1] /\ Head(job[a]).do = "change"
    BY <1>1, TailOf DEF Changes, Doing
  <2>2. state'[k] = IF k \in Head(job[a]).kinds THEN state[k] + 1 ELSE state[k]
    BY <1>1 DEF Changes
  <2>3. gap'[k] = IF k \in Head(job[a]).kinds
                  THEN {s \in Subs : spc[s] \in BeforeRegister[k]} ELSE gap[k]
    BY <1>1 DEF Changes
  <2> QED
    BY <2>1, <2>2, <2>3 DEF Does
<1>2. \/ state' = state /\ gap' = gap
      \/ \E a \in Actors : Changes(a)
  BY DEF Next, Tick, Request, Act, Snapshots, collectSubscribers, PushTo, Pushed,
         Subscriber, SubscribeQueue, ReadSeed, PushSeeds, Register, UnsubscribeQueue, vars
<1> QED
  BY <1>1, <1>2

-----------------------------------------------------------------------------
(* Snapshots are of the past, and operations announce what they change.    *)

LEMMA BoundedKept == TypeOK /\ Bounded /\ [Next]_vars => Bounded'
<1> SUFFICES ASSUME TypeOK, Bounded, [Next]_vars PROVE Bounded'
  OBVIOUS
<1> USE DEF TypeOK, Bounded, Versions, actorVars, loopVars, subVars
<1>1. \A k \in Kinds : state'[k] \in Nat /\ state[k] <= state'[k]
  BY ChangeSteps
<1>2. ASSUME NEW a \in Actors, Changes(a) PROVE Bounded'
  BY <1>1, <1>2 DEF Changes
<1>3. ASSUME NEW a \in Actors, Snapshots(a) PROVE Bounded'
  BY <1>1, <1>3 DEF Snapshots
<1>4. ASSUME NEW a \in Actors, NEW s \in Subs, PushTo(a, s) PROVE Bounded'
  <2>1. \A k \in Kinds : /\ view'[s][k] \in {snap[a][k], view[s][k]}
                         /\ best'[s][k] \in {view'[s][k], best[s][k]}
    BY <1>4 DEF PushTo, Receives
  <2>2. \A r \in Subs \ {s} : view'[r] = view[r] /\ best'[r] = best[r]
    BY <1>4 DEF PushTo, Receives
  <2>3. state' = state /\ seed' = seed /\ snap' = snap
    BY <1>4 DEF PushTo
  <2>4. \A r \in Subs, k \in Kinds : view'[r][k] <= state[k]
    BY <2>1, <2>2
  <2>5. \A r \in Subs, k \in Kinds : best'[r][k] <= state[k]
    BY <2>1, <2>2, <2>4
  <2> QED
    BY <2>3, <2>4, <2>5
<1>5. ASSUME NEW s \in Subs, PushSeeds(s) PROVE Bounded'
  <2>1. \A k \in Kinds : view'[s][k] = seed[s][k] /\ best'[s][k] \in {seed[s][k], best[s][k]}
    BY <1>5 DEF PushSeeds, Receives
  <2>2. \A r \in Subs \ {s} : view'[r] = view[r] /\ best'[r] = best[r]
    BY <1>5 DEF PushSeeds, Receives
  <2>3. state' = state /\ seed' = seed /\ snap' = snap
    BY <1>5 DEF PushSeeds
  <2>4. \A r \in Subs, k \in Kinds : view'[r][k] <= state[k]
    BY <2>1, <2>2
  <2>5. \A r \in Subs, k \in Kinds : best'[r][k] <= state[k]
    BY <2>1, <2>2
  <2> QED
    BY <2>3, <2>4, <2>5
<1>6. ASSUME NEW s \in Subs, ReadSeed(s) PROVE Bounded'
  <2>1. \A k \in Kinds : seed'[s][k] \in {seed[s][k], state[k]}
    BY <1>6 DEF ReadSeed
  <2>2. \A r \in Subs \ {s} : seed'[r] = seed[r]
    BY <1>6 DEF ReadSeed
  <2>3. state' = state /\ view' = view /\ best' = best /\ snap' = snap
    BY <1>6 DEF ReadSeed
  <2>4. ASSUME NEW r \in Subs, NEW k \in Kinds PROVE seed'[r][k] <= state[k]
    <3>1. CASE r = s
      <4>1. seed[s][k] <= state[k] /\ state[k] <= state[k]
        OBVIOUS
      <4> QED
        BY <2>1, <3>1, <4>1
    <3>2. CASE r # s
      BY <2>2, <3>2
    <3> QED
      BY <3>1, <3>2
  <2> QED
    BY <2>3, <2>4
<1>7. \/ UNCHANGED <<state, snap, seed, view, best>>
      \/ \E a \in Actors : \/ Changes(a) \/ Snapshots(a)
                           \/ \E s \in Subs : PushTo(a, s)
      \/ \E s \in Subs : PushSeeds(s) \/ ReadSeed(s)
  BY DEF Next, Tick, Request, Act, collectSubscribers, Pushed, Subscriber,
         SubscribeQueue, Register, UnsubscribeQueue, vars
<1> QED
  <2>1. CASE UNCHANGED <<state, snap, seed, view, best>>
    BY <2>1
  <2> QED
    BY <2>1, <1>2, <1>3, <1>4, <1>5, <1>6, <1>7

\* Only its owner's operations name a kind.
LEMMA OthersAreQuiet ==
  ASSUME Shaped, NEW a \in Actors, NEW k \in Kinds, Owns(a, k), NEW b \in Actors, b # a
  PROVE  Quiet(job[b], k)
BY LoopAssumption DEF Shaped, Owns, Actors

LEMMA OwnersChange ==
  ASSUME TypeOK, Shaped, [Next]_vars, NEW a \in Actors, NEW k \in Kinds, Owns(a, k),
         state'[k] # state[k]
  PROVE  Changes(a) /\ Does(job[a][1], "change", k)
<1>1. PICK b \in Actors : Changes(b) /\ Does(job[b][1], "change", k)
  BY ChangeSteps
<1>2. b = a
  <2> SUFFICES ASSUME b # a PROVE FALSE
    OBVIOUS
  <2>1. Quiet(job[b], k)
    BY OthersAreQuiet
  <2>2. Head(job[b]) = job[b][1] /\ k \notin Head(job[b]).kinds
    BY <1>1, <2>1, QuietTail, TailOf DEF TypeOK, Changes, Doing
  <2> QED
    BY <1>1, <2>2 DEF Does
<1> QED
  BY <1>1, <1>2

LEMMA ShapedKept == TypeOK /\ Shaped /\ [Next]_vars => Shaped'
<1> SUFFICES ASSUME TypeOK, Shaped, [Next]_vars PROVE Shaped'
  OBVIOUS
<1>0. /\ \A a \in Actors : job[a] \in Seq(Steps)
      /\ Loop \in Actors /\ Callers \subseteq Actors
  BY DEF TypeOK, Actors
<1>1. \A a \in Actors : Announced(job'[a])
  <2> SUFFICES ASSUME NEW a \in Actors PROVE Announced(job'[a])
    OBVIOUS
  <2>1. \/ job'[a] \in {job[a], AddMessage, RemoveMessage, Shown, Displayed, Completed, Again}
        \/ job[a] # <<>> /\ job'[a] = Tail(job[a])
    BY JobSteps, Zenon
  <2> QED
    BY <1>0, <2>1, AnnouncedTail, AddShape, RemoveShape, ShownShape, DisplayedShape,
       CompletedShape, AgainShape DEF Shaped
<1>2. \A c \in Callers : Quiet(job'[c], "current")
  <2> SUFFICES ASSUME NEW c \in Callers PROVE Quiet(job'[c], "current")
    OBVIOUS
  <2>1. \/ job'[c] \in {job[c], AddMessage, RemoveMessage}
        \/ job[c] # <<>> /\ job'[c] = Tail(job[c])
    <3>1. c # Loop /\ c \in Actors
      BY LoopAssumption, <1>0
    <3> QED
      BY <3>1, JobSteps, Zenon
  <2> QED
    BY <1>0, <2>1, QuietTail, AddShape, RemoveShape DEF Shaped
<1>3. Quiet(job'[Loop], "history")
  <2>1. \/ job'[Loop] \in {job[Loop], Shown, Displayed, Completed, Again}
        \/ job[Loop] # <<>> /\ job'[Loop] = Tail(job[Loop])
    BY <1>0, LoopAssumption, JobSteps, Zenon
  <2> QED
    BY <1>0, <2>1, QuietTail, ShownShape, DisplayedShape, CompletedShape, AgainShape
       DEF Shaped
<1>4. ASSUME NEW a \in Actors, NEW k \in Kinds, Owns(a, k) PROVE InOrder(a, k)'
  <2> DEFINE j == job[a]
             r == job'[a]
             same == snap[a][k] = state[k]
  <2> SUFFICES ASSUME NEW p \in 1 .. Len(r), Does(r[p], "push", k)
               PROVE  \/ SnapsFirst(r, p, k)
                      \/ snap'[a][k] = state'[k] /\ Unchanged(r, 1, p, k)
    BY DEF InOrder
  <2>1. CASE r = j /\ snap'[a] = snap[a]
    <3>1. state'[k] = state[k]
      <4> SUFFICES ASSUME state'[k] # state[k] PROVE FALSE
        OBVIOUS
      <4>1. job[a] # <<>> /\ job'[a] = Tail(job[a])
        BY <1>4, OwnersChange, <1>0 DEF Changes, Doing, Done, TypeOK
      <4>2. Len(job'[a]) = Len(job[a]) - 1 /\ Len(job[a]) \in Nat
        BY <4>1, <1>0, TailOf
      <4> QED
        BY <2>1, <4>2
    <3> QED
      BY <1>4, <2>1, <3>1 DEF Shaped, InOrder
  <2>2. CASE \/ a \in Callers /\ r \in {AddMessage, RemoveMessage}
             \/ a = Loop /\ r \in {Shown, Displayed, Completed, Again}
    <3>1. Fresh(r, k)
      BY <1>4, <2>2, LoopAssumption, AddShape, RemoveShape, ShownShape, DisplayedShape,
         CompletedShape, AgainShape DEF Owns
    <3> QED
      BY <3>1 DEF Fresh
  <2>3. CASE /\ j # <<>> /\ r = Tail(j)
             /\ Changes(a) \/ Snapshots(a) \/ collectSubscribers(a) \/ Pushed(a)
    <3>1. /\ j \in Seq(Steps) /\ Len(j) \in Nat \ {0} /\ Len(r) = Len(j) - 1 /\ Head(j) = j[1]
          /\ \A i \in 1 .. Len(j) - 1 : r[i] = j[i + 1]
      BY <1>0, <2>3, TailOf
    <3>2. p + 1 \in 1 .. Len(j) /\ r[p] = j[p + 1] /\ p \in Nat \ {0}
      BY <3>1
    <3>3. \/ SnapsFirst(j, p + 1, k)
          \/ same /\ Unchanged(j, 1, p + 1, k)
      BY <1>4, <3>2 DEF Shaped, InOrder
    <3>4. \A n \in 2 .. p + 1 : Unchanged(j, n, p + 1, k) => Unchanged(r, n - 1, p, k)
      <4> SUFFICES ASSUME NEW n \in 2 .. p + 1, Unchanged(j, n, p + 1, k),
                          NEW c \in n - 1 .. p
                   PROVE  ~Does(r[c], "change", k)
        BY DEF Unchanged
      <4>1. c + 1 \in n .. p + 1 /\ r[c] = j[c + 1]
        BY <3>1, <3>2
      <4> QED
        BY <4>1 DEF Unchanged
    <3>5. CASE same /\ Unchanged(j, 1, p + 1, k)
      <4>1. ~Does(j[1], "change", k) /\ Unchanged(j, 2, p + 1, k)
        BY <3>2, <3>5 DEF Unchanged
      <4>2. Unchanged(r, 1, p, k)
        BY <3>2, <3>4, <4>1
      <4>3. state'[k] = state[k]
        BY <4>1, <1>4, OwnersChange
      <4>4. snap'[a][k] \in {snap[a][k], state[k]}
        BY <2>3, <1>0
           DEF Changes, Snapshots, collectSubscribers, Pushed, loopVars, TypeOK
      <4> QED
        BY <3>5, <4>2, <4>3, <4>4
    <3>6. CASE SnapsFirst(j, p + 1, k)
      <4>1. PICK n \in 1 .. p : Does(j[n], "snap", k) /\ Unchanged(j, n, p + 1, k)
        BY <3>2, <3>6 DEF SnapsFirst
      <4>2. CASE n = 1
        <5>1. Snapshots(a) /\ k \in Head(job[a]).kinds
          BY <2>3, <3>1, <4>1, <4>2
             DEF Does, Changes, collectSubscribers, Pushed, Doing
        <5>2. snap'[a][k] = state[k] /\ state' = state
          BY <5>1, <1>0 DEF Snapshots, TypeOK
        <5>3. Unchanged(j, 2, p + 1, k)
          BY <3>2, <4>1, <4>2 DEF Unchanged
        <5> QED
          BY <3>2, <3>4, <5>2, <5>3
      <4>3. CASE n # 1
        <5>1. n - 1 \in 1 .. p - 1 /\ r[n - 1] = j[n]
          <6>1. n - 1 \in 1 .. p - 1 /\ n - 1 \in 1 .. Len(j) - 1 /\ (n - 1) + 1 = n
            BY <3>1, <3>2, <4>3
          <6> QED
            BY <3>1, <6>1
        <5>2. Unchanged(r, n - 1, p, k)
          BY <3>2, <3>4, <4>1, <4>3
        <5> QED
          BY <4>1, <5>1, <5>2 DEF SnapsFirst
      <4> QED
        BY <4>2, <4>3
    <3> QED
      BY <3>3, <3>5, <3>6
  <2> QED
    BY <2>1, <2>2, <2>3, JobSteps
<1> QED
  BY <1>1, <1>2, <1>3, <1>4 DEF Shaped

-----------------------------------------------------------------------------
(* A new stream has its seeds or is in the gap.                            *)

LEMMA PlacesOfKinds ==
  ASSUME NEW k \in Kinds
  PROVE  /\ "current" \notin BeforeRegister[k]
         /\ {"push", "register"} \subseteq BeforeRegister[k]
         /\ {"off", "on", "gone"} \cap BeforeRegister[k] = {}
         /\ \A l \in Kinds : AfterSeed[l] \in BeforeRegister[k] =>
              l = k \/ l \in BeforeRegister[k]
<1>1. /\ AfterSeed["current"] = "queue" /\ AfterSeed["queue"] = "history"
      /\ AfterSeed["history"] = "push"
  BY DEF AfterSeed
<1>2. /\ BeforeRegister["current"] = {"queue", "history", "push", "register"}
      /\ BeforeRegister["queue"] = {"history", "push", "register"}
      /\ BeforeRegister["history"] = {"push", "register"}
  BY DEF BeforeRegister
<1>3. CASE k = "current"
  BY <1>1, <1>2, <1>3 DEF Kinds
<1>4. CASE k = "queue"
  BY <1>1, <1>2, <1>4 DEF Kinds
<1>5. CASE k = "history"
  BY <1>1, <1>2, <1>5 DEF Kinds
<1> QED
  BY <1>3, <1>4, <1>5 DEF Kinds

LEMMA SeededKept == TypeOK /\ Seeded /\ [Next]_vars => Seeded'
<1> SUFFICES ASSUME TypeOK, Seeded, [Next]_vars PROVE Seeded'
  OBVIOUS
<1> USE DEF TypeOK, Seeded, actorVars, loopVars, subVars
<1>1. ASSUME NEW a \in Actors, NEW s \in to'[a] PROVE spc'[s] \in {"on", "gone"}
  <2>1. s \in to[a] \/ spc[s] = "on"
    BY <1>1 DEF Next, Tick, Request, Act, Changes, Snapshots, collectSubscribers, PushTo,
                Pushed, Subscriber, SubscribeQueue, ReadSeed, PushSeeds, Register,
                UnsubscribeQueue, InOnceRegistered, vars
  <2>2. s \in Subs
    <3>1. to' \in [Actors -> SUBSET Subs]
      BY TypeKept DEF TypeOK
    <3> QED
      BY <1>1, <3>1
  <2>3. spc[s] \in {"on", "gone"}
    BY <2>1
  <2> QED
    BY <2>2, <2>3
       DEF Next, Tick, Request, Act, Changes, Snapshots, collectSubscribers, PushTo,
                Pushed, Subscriber, SubscribeQueue, ReadSeed, PushSeeds, Register,
                UnsubscribeQueue, Kinds, vars
<1>2. ASSUME NEW s \in Subs, NEW k \in Kinds
      PROVE  /\ spc'[s] \in Kinds \cup {"off", "push"} => view'[s][k] = 0 /\ best'[s][k] = 0
             /\ spc'[s] = "register" => /\ view'[s][k] = seed'[s][k]
                                        /\ best'[s][k] = seed'[s][k]
             /\ spc'[s] \in BeforeRegister[k] => seed'[s][k] = state'[k] \/ s \in gap'[k]
  <2>1. CASE UNCHANGED <<spc, seed, view, best>>
    BY <2>1, ChangeSteps
  <2>2. ASSUME NEW a \in Actors, NEW r \in Subs, PushTo(a, r)
        PROVE  UNCHANGED <<spc, seed, state, gap>> /\ (s = r => spc[s] \in {"on", "gone"})
               /\ (s # r => view'[s] = view[s] /\ best'[s] = best[s])
    BY <2>2 DEF PushTo, Receives
  <2>3. ASSUME NEW r \in Subs, Subscriber(r), s # r
        PROVE  UNCHANGED <<state, gap>> /\ spc'[s] = spc[s] /\ seed'[s] = seed[s]
               /\ view'[s] = view[s] /\ best'[s] = best[s]
    BY <2>3 DEF Subscriber, SubscribeQueue, ReadSeed, PushSeeds, Register,
                UnsubscribeQueue, Receives
  <2>4. CASE SubscribeQueue(s)
    <3>1. spc[s] = "off" /\ spc'[s] = "current" /\ UNCHANGED <<view, best>>
      BY <2>4 DEF SubscribeQueue
    <3>2. "current" \notin BeforeRegister[k]
      BY PlacesOfKinds
    <3> QED
      BY <3>1, <3>2
  <2>5. CASE ReadSeed(s)
    <3>1. /\ seed'[s][k] = IF spc[s] = k THEN state[k] ELSE seed[s][k]
          /\ spc'[s] = AfterSeed[spc[s]] /\ spc[s] \in Kinds
          /\ UNCHANGED <<state, gap, view, best>>
      BY <2>5 DEF ReadSeed, Versions
    <3>2. spc'[s] \in BeforeRegister[k] => spc[s] = k \/ spc[s] \in BeforeRegister[k]
      BY <3>1, PlacesOfKinds
    <3>3. spc'[s] \in Kinds \cup {"push"} /\ spc'[s] # "register"
      BY <3>1 DEF AfterSeed, Kinds
    <3> QED
      BY <3>1, <3>2, <3>3
  <2>6. CASE PushSeeds(s)
    <3>1. /\ view'[s][k] = seed[s][k] /\ spc[s] = "push" /\ spc'[s] = "register"
          /\ best'[s][k] = (IF seed[s][k] > best[s][k] THEN seed[s][k] ELSE best[s][k])
          /\ UNCHANGED <<state, gap, seed>>
      BY <2>6 DEF PushSeeds, Receives
    <3>2. best'[s][k] = seed[s][k]
      BY <3>1 DEF Versions
    <3>3. "push" \in BeforeRegister[k] /\ "register" \notin Kinds \cup {"off", "push"}
      BY PlacesOfKinds DEF Kinds
    <3> QED
      BY <3>1, <3>2, <3>3
  <2>7. CASE Register(s) \/ UnsubscribeQueue(s)
    <3>1. spc'[s] \in {"on", "gone"}
      BY <2>7 DEF Register, UnsubscribeQueue
    <3> QED
      BY <3>1, PlacesOfKinds DEF Kinds
  <2>8. \/ UNCHANGED <<spc, seed, view, best>>
        \/ \E a \in Actors, r \in Subs : PushTo(a, r)
        \/ \E r \in Subs : Subscriber(r)
    BY DEF Next, Tick, Request, Act, Changes, Snapshots, collectSubscribers, Pushed, vars
  <2>9. CASE \E a \in Actors, r \in Subs : PushTo(a, r)
    BY <2>2, <2>9, PlacesOfKinds DEF Kinds
  <2>10. CASE \E r \in Subs \ {s} : Subscriber(r)
    BY <2>3, <2>10
  <2> QED
    BY <2>1, <2>4, <2>5, <2>6, <2>7, <2>8, <2>9, <2>10 DEF Subscriber
<1> QED
  BY <1>1, <1>2

-----------------------------------------------------------------------------
(* Who owes an event pushes it.                                            *)

LEMMA OwesKept ==
  ASSUME TypeOK, [Next]_vars, NEW a \in Actors, NEW s \in Subs, NEW k \in Kinds,
         spc[s] = "on", Owes(a, s, k), state'[k] = state[k]
  PROVE  \/ Owes(a, s, k)'
         \/ PushTo(a, s) /\ k \in Head(job[a]).kinds /\ snap[a][k] = state[k]
<1> DEFINE listed == s \in to[a]
           listed2 == s \in to'[a]
           fresh == snap[a][k] = state[k]
           fresh2 == snap'[a][k] = state'[k]
<1>1. Delivers(job[a], listed, fresh, k) /\ job[a] \in Seq(Steps)
  BY DEF Owes, TypeOK
<1>2. job[a] # <<>>
  <2> SUFFICES ASSUME job[a] = <<>> PROVE FALSE
    OBVIOUS
  <2> QED
    BY <1>1 DEF Delivers
<1>3. Owes(a, s, k)' <=> Delivers(job'[a], listed2, fresh2, k)
  BY DEF Owes
<1>4. CASE /\ job'[a] = job[a] /\ snap'[a] = snap[a] /\ to'[a] = to[a]
  BY <1>1, <1>3, <1>4
<1>5. ASSUME job'[a] = job[a], snap'[a] = snap[a], NEW r \in Subs, PushTo(a, r)
      PROVE  \/ Owes(a, s, k)'
             \/ PushTo(a, s) /\ k \in Head(job[a]).kinds /\ snap[a][k] = state[k]
  <2>1. CASE r # s
    <3>1. listed2 <=> listed
      BY <1>5, <2>1 DEF PushTo, TypeOK
    <3>2. CASE listed
      BY <1>1, <1>3, <1>5, <3>1, <3>2
    <3> QED
      BY <1>1, <1>3, <1>5, <3>1
  <2>2. CASE r = s
    <3>1. Head(job[a]).do = "push"
      BY <1>5 DEF PushTo, Doing
    <3> HIDE DEF listed, fresh, listed2
    <3>2. (fresh /\ k \in Head(job[a]).kinds) \/ Delivers(job[a], listed2, fresh, k)
      <4>1. listed \in BOOLEAN /\ fresh \in BOOLEAN /\ listed2 \in BOOLEAN
        BY DEF listed, fresh, listed2
      <4> QED
        BY <1>1, <1>2, <3>1, <4>1, DeliversNowOrLater
    <3> QED
      BY <1>3, <1>5, <2>2, <3>2 DEF listed, fresh, listed2
  <2> QED
    BY <2>1, <2>2
<1>6. CASE /\ job'[a] = Tail(job[a])
           /\ Changes(a) \/ Snapshots(a) \/ collectSubscribers(a) \/ Pushed(a)
  <2>1. fresh => fresh2
    BY <1>6 DEF Changes, Snapshots, collectSubscribers, Pushed, loopVars, TypeOK
  <2>2. Does(Head(job[a]), "snap", k) => fresh2
    BY <1>6 DEF Does, Doing, Changes, Snapshots, collectSubscribers, Pushed, TypeOK
  <2>3. listed => listed2 /\ Head(job[a]).do # "push"
    BY <1>6 DEF Doing, Changes, Snapshots, collectSubscribers, Pushed, TypeOK,
                InOnceRegistered
  <2>4. Head(job[a]).do = "collect" => listed2
    BY <1>6 DEF Doing, Changes, Snapshots, collectSubscribers, Pushed, TypeOK,
                InOnceRegistered
  <2>5. {listed, listed2, fresh, fresh2} \subseteq BOOLEAN
    OBVIOUS
  <2> HIDE DEF listed, listed2, fresh, fresh2
  <2> QED
    BY <1>1, <1>2, <1>3, <1>6, <2>1, <2>2, <2>3, <2>4, <2>5, DeliversTail
<1> QED
  BY <1>2, <1>4, <1>5, <1>6, JobSteps

LEMMA ChangeIsOwed ==
  ASSUME TypeOK, Shaped, NEW a \in Actors, Changes(a), NEW k \in Kinds,
         Does(job[a][1], "change", k), NEW s \in Subs
  PROVE  Owes(a, s, k)'
<1>1. job[a] \in Seq(Steps) /\ job[a] # <<>> /\ job'[a] = Tail(job[a])
  BY DEF TypeOK, Changes, Doing, Done
<1>2. Announces(job[a], 1 + 1, k)
  BY <1>1, TailOf DEF Shaped, Announced
<1>3. Announces(job'[a], 1, k)
  BY <1>1, <1>2, AnnouncesTail
<1>4. Delivers(job'[a], (s \in to[a])', (snap[a][k] = state[k])', k)
  BY <1>3 DEF Announces, Delivers
<1> QED
  BY <1>4 DEF Owes

LEMMA Joins ==
  ASSUME TypeOK, [Next]_vars, NEW s \in Subs, spc'[s] = "on"
  PROVE  spc[s] = "on" \/ Register(s)
<1> USE DEF TypeOK, actorVars, loopVars, subVars
<1>1. ASSUME NEW r \in Subs, ReadSeed(r) PROVE spc[s] = "on"
  <2>1. AfterSeed[spc[r]] # "on"
    BY <1>1 DEF ReadSeed, AfterSeed, Kinds
  <2> QED
    BY <1>1, <2>1 DEF ReadSeed
<1>2. ASSUME NEW r \in Subs, SubscribeQueue(r) \/ PushSeeds(r) \/ UnsubscribeQueue(r)
      PROVE  spc[s] = "on"
  BY <1>2 DEF SubscribeQueue, PushSeeds, UnsubscribeQueue
<1>3. ASSUME NEW r \in Subs, Register(r) PROVE spc[s] = "on" \/ r = s
  BY <1>3 DEF Register
<1>4. UNCHANGED spc \/ \E r \in Subs : Subscriber(r)
  BY DEF Next, Tick, Request, Act, Changes, Snapshots, collectSubscribers, PushTo, Pushed,
         vars
<1> QED
  BY <1>1, <1>2, <1>3, <1>4 DEF Subscriber

\* What a registered stream shows changes by a push to it alone.
LEMMA ViewSteps ==
  ASSUME TypeOK, [Next]_vars, NEW s \in Subs, spc[s] = "on"
  PROVE  \/ view'[s] = view[s] /\ best'[s] = best[s]
         \/ \E a \in Actors :
              /\ PushTo(a, s) /\ state' = state
              /\ \A k \in Kinds :
                   /\ view'[s][k] = IF k \in Head(job[a]).kinds THEN snap[a][k]
                                    ELSE view[s][k]
                   /\ best'[s][k] = IF view'[s][k] > best[s][k] THEN view'[s][k]
                                    ELSE best[s][k]
<1> USE DEF TypeOK, actorVars, loopVars, subVars
<1>1. ASSUME NEW a \in Actors, NEW r \in Subs, PushTo(a, r), r # s
      PROVE  view'[s] = view[s] /\ best'[s] = best[s]
  BY <1>1 DEF PushTo, Receives
<1>2. ASSUME NEW a \in Actors, PushTo(a, s)
      PROVE  /\ state' = state
             /\ \A k \in Kinds :
                  /\ view'[s][k] = IF k \in Head(job[a]).kinds THEN snap[a][k]
                                   ELSE view[s][k]
                  /\ best'[s][k] = IF view'[s][k] > best[s][k] THEN view'[s][k]
                                   ELSE best[s][k]
  BY <1>2 DEF PushTo, Receives
<1>3. ASSUME NEW r \in Subs, PushSeeds(r) PROVE view'[s] = view[s] /\ best'[s] = best[s]
  BY <1>3 DEF PushSeeds, Receives
<1>4. \/ UNCHANGED <<view, best>> \/ \E r \in Subs : PushSeeds(r)
      \/ \E a \in Actors, r \in Subs : PushTo(a, r)
  BY DEF Next, Tick, Request, Act, Changes, Snapshots, collectSubscribers, Pushed,
         Subscriber, SubscribeQueue, ReadSeed, Register, UnsubscribeQueue, vars
<1> QED
  BY <1>1, <1>2, <1>3, <1>4

\* What an owner pushes is of the moment.
LEMMA OwnersPush ==
  ASSUME TypeOK, Shaped, NEW a \in Actors, NEW k \in Kinds, Owns(a, k),
         NEW b \in Actors, NEW s \in Subs, PushTo(b, s), k \in Head(job[b]).kinds
  PROVE  snap[b][k] = state[k]
<1>1. /\ job[b] \in Seq(Steps) /\ job[b] # <<>> /\ Head(job[b]) = job[b][1]
      /\ 1 \in 1 .. Len(job[b]) /\ Does(job[b][1], "push", k)
  BY TailOf DEF TypeOK, PushTo, Doing, Does
<1>2. b = a
  BY <1>1, OthersAreQuiet, QuietTail
<1>3. ~SnapsFirst(job[b], 1, k)
  BY DEF SnapsFirst
<1> QED
  BY <1>1, <1>2, <1>3 DEF Shaped, InOrder

LEMMA ToldKept ==
  TypeOK /\ Bounded /\ Shaped /\ Seeded /\ Told /\ [Next]_vars => Told'
<1> SUFFICES ASSUME TypeOK, Bounded, Shaped, Seeded, Told, [Next]_vars,
                    NEW s \in Subs, NEW k \in Kinds, spc'[s] = "on"
             PROVE  \/ best'[s][k] = state'[k] \/ s \in gap'[k]
                    \/ \E a \in Actors : Owes(a, s, k)'
  BY DEF Told
<1>1. CASE state'[k] # state[k]
  <2>1. PICK a \in Actors : Changes(a) /\ Does(job[a][1], "change", k)
    BY <1>1, ChangeSteps
  <2> QED
    BY <2>1, ChangeIsOwed
<1>2. CASE state'[k] = state[k] /\ Register(s)
  <2>1. spc[s] = "register" /\ best' = best /\ gap' = gap
    BY <1>2 DEF Register
  <2>2. spc[s] \in BeforeRegister[k]
    BY <2>1, PlacesOfKinds
  <2>3. best[s][k] = seed[s][k] /\ (seed[s][k] = state[k] \/ s \in gap[k])
    BY <2>1, <2>2 DEF Seeded
  <2> QED
    BY <1>2, <2>1, <2>3
<1>3. CASE state'[k] = state[k] /\ spc[s] = "on"
  <2>1. gap'[k] = gap[k]
    <3>1. state[k] \in Nat
      BY DEF TypeOK, Versions
    <3>2. state'[k] # state[k] + 1
      BY <1>3, <3>1
    <3> QED
      BY <3>2, ChangeSteps
  <2>2. /\ best[s][k] \in Nat /\ state[k] \in Nat /\ best[s][k] <= state[k]
        /\ \A a \in Actors : snap[a][k] \in Nat /\ snap[a][k] <= state[k]
        /\ view[s][k] \in Nat /\ view[s][k] <= state[k]
    BY DEF Bounded, TypeOK, Versions
  <2>3. CASE best[s][k] = state[k]
    <3>1. best'[s][k] = state[k]
      BY <1>3, <2>2, <2>3, ViewSteps
    <3> QED
      BY <1>3, <3>1
  <2>4. ASSUME NEW a \in Actors, Owes(a, s, k)
        PROVE  best'[s][k] = state'[k] \/ Owes(a, s, k)'
    <3>1. CASE PushTo(a, s) /\ k \in Head(job[a]).kinds /\ snap[a][k] = state[k]
      <4>1. view'[s][k] = state[k]
        BY <3>1 DEF PushTo, Receives, TypeOK
      <4>2. best'[s][k] = IF view'[s][k] > best[s][k] THEN view'[s][k] ELSE best[s][k]
        BY <3>1 DEF PushTo, Receives, TypeOK
      <4> QED
        BY <1>3, <2>2, <4>1, <4>2
    <3> QED
      BY <1>3, <2>4, <3>1, OwesKept
  <2>5. CASE s \in gap[k]
    BY <2>1, <2>5
  <2> QED
    BY <1>3, <2>3, <2>4, <2>5 DEF Told
<1> QED
  BY <1>1, <1>2, <1>3, Joins

LEMMA SyncedKept ==
  TypeOK /\ Bounded /\ Shaped /\ Seeded /\ Synced /\ [Next]_vars => Synced'
<1> SUFFICES ASSUME TypeOK, Bounded, Shaped, Seeded, Synced, [Next]_vars,
                    NEW a \in Actors, NEW k \in Kinds, Owns(a, k),
                    NEW s \in Subs, spc'[s] = "on"
             PROVE  \/ view'[s][k] = state'[k] \/ s \in gap'[k] \/ Owes(a, s, k)'
  BY DEF Synced
<1> DEFINE now == state[k]
<1>1. CASE state'[k] # now
  BY <1>1, OwnersChange, ChangeIsOwed
<1>2. CASE state'[k] = now /\ Register(s)
  <2>1. spc[s] = "register" /\ view' = view /\ gap' = gap
    BY <1>2 DEF Register
  <2>2. spc[s] \in BeforeRegister[k]
    BY <2>1, PlacesOfKinds
  <2>3. view[s][k] = seed[s][k]
        /\ (seed[s][k] = now \/ s \in gap[k])
    BY <2>1, <2>2 DEF Seeded
  <2> QED
    BY <1>2, <2>1, <2>3
<1>3. CASE state'[k] = now /\ spc[s] = "on"
  <2>1. gap'[k] = gap[k]
    <3>1. now \in Nat
      BY DEF TypeOK, Versions
    <3>2. state'[k] # now + 1
      BY <1>3, <3>1
    <3> QED
      BY <3>2, ChangeSteps
  <2>2. CASE view[s][k] = now
    <3>1. view'[s][k] \in {now, view[s][k]}
      BY <1>3, OwnersPush, ViewSteps
    <3> QED
      BY <1>3, <2>2, <3>1
  <2>3. CASE Owes(a, s, k)
    <3>1. CASE /\ PushTo(a, s) /\ k \in Head(job[a]).kinds
               /\ snap[a][k] = now
      <4>1. view'[s][k] = now
        BY <3>1 DEF PushTo, Receives, TypeOK
      <4> QED
        BY <1>3, <4>1
    <3> QED
      BY <1>3, <2>3, <3>1, OwesKept
  <2>4. CASE s \in gap[k]
    BY <2>1, <2>4
  <2> QED
    BY <1>3, <2>2, <2>3, <2>4 DEF Synced
<1> QED
  BY <1>1, <1>2, <1>3, Joins

-----------------------------------------------------------------------------
(* The invariant and what follows.                                         *)

IInv == TypeOK /\ Bounded /\ Shaped /\ Seeded /\ Told /\ Synced

LEMMA FeedInit == Init => IInv
<1> SUFFICES ASSUME Init PROVE IInv
  OBVIOUS
<1>1. TypeOK
  BY TypeInit
<1>2. Bounded
  BY DEF Init, Bounded
<1>3. Shaped
  <2>1. \A a \in Actors : job[a] = <<>>
    BY DEF Init
  <2>2. /\ Announced(<<>>) /\ Quiet(<<>>, "current") /\ Quiet(<<>>, "history")
        /\ \A a \in Actors, k \in Kinds : job[a] = <<>> => InOrder(a, k)
    BY DEF Announced, Quiet, InOrder
  <2>3. Loop \in Actors /\ Callers \subseteq Actors
    BY DEF Actors
  <2> QED
    BY <2>1, <2>2, <2>3 DEF Shaped
<1>4. Seeded
  BY PlacesOfKinds DEF Init, Seeded
<1>5. Told /\ Synced
  BY DEF Init, Told, Synced
<1> QED
  BY <1>1, <1>2, <1>3, <1>4, <1>5 DEF IInv

LEMMA FeedKept == IInv /\ [Next]_vars => IInv'
BY TypeKept, BoundedKept, ShapedKept, SeededKept, ToldKept, SyncedKept DEF IInv

LEMMA FeedInvariant == Spec => []IInv
BY FeedInit, FeedKept, PTL DEF Spec

LEMMA NothingOwed ==
  ASSUME NEW a, job[a] = <<>>, NEW s, NEW k PROVE ~Owes(a, s, k)
BY DEF Owes, Delivers

\* TypeOK: operations, snapshots and views keep their types, for any number of streams,
\* handlers and operations.
THEOREM FeedTyped == Spec => []TypeOK
<1>1. IInv => TypeOK
  BY DEF IInv
<1> QED BY <1>1, FeedInvariant, PTL

\* CurrentInSync: between the parts of its tick the loop has told every stream what is on
\* display, whichever requests and subscriptions overlapped with it.
THEOREM DisplayInSync == Spec => []CurrentInSync
<1>1. IInv => CurrentInSync
  <2> SUFFICES ASSUME IInv, job[Loop] = <<>>, NEW s \in Subs, spc[s] = "on"
               PROVE  view[s]["current"] = state["current"] \/ s \in gap["current"]
    BY DEF CurrentInSync, Resting
  <2> QED
    BY KindSets, NothingOwed DEF IInv, Synced, Owns, Actors
<1> QED BY <1>1, FeedInvariant, PTL

\* NothingUnannounced: however many handlers overlap with each other and with the loop,
\* when they are done every stream has been sent the latest of each kind, except for
\* changes between its seed and its registration.
THEOREM EverythingAnnounced == Spec => []NothingUnannounced
<1>1. IInv => NothingUnannounced
  <2> SUFFICES ASSUME IInv, \A a \in Actors : job[a] = <<>>,
                      NEW s \in Subs, NEW k \in Kinds, spc[s] = "on"
               PROVE  best[s][k] = state[k] \/ s \in gap[k]
    BY DEF NothingUnannounced, Resting
  <2> QED
    BY NothingOwed DEF IInv, Told
<1> QED BY <1>1, FeedInvariant, PTL

\* A stream is told of what has one owner in the order of its changes.
LEMMA NeverBack ==
  ASSUME IInv, [Next]_vars, NEW a \in Actors, NEW k \in Kinds, Owns(a, k), NEW s \in Subs
  PROVE  view'[s][k] >= view[s][k]
<1> USE DEF TypeOK, Versions, subVars, actorVars, loopVars
<1>1. TypeOK /\ view[s][k] \in Nat /\ state[k] \in Nat /\ view[s][k] <= state[k]
  BY DEF IInv, Bounded
<1>2. ASSUME NEW b \in Actors, NEW r \in Subs, PushTo(b, r)
      PROVE  view'[s][k] >= view[s][k]
  <2>1. view'[s][k] \in {view[s][k], state[k]}
    BY <1>1, <1>2, OwnersPush DEF PushTo, Receives, IInv
  <2>2. view'[s][k] = view[s][k] \/ view'[s][k] = state[k]
    BY <2>1
  <2> QED
    BY <1>1, <2>2
<1>3. ASSUME NEW r \in Subs, PushSeeds(r) PROVE view'[s][k] >= view[s][k]
  <2>1. CASE r = s
    <3>1. view[s][k] = 0 /\ seed[s][k] \in Nat
      BY <1>1, <1>3, <2>1 DEF IInv, Seeded, PushSeeds
    <3>2. view'[s][k] = seed[s][k]
      BY <1>1, <1>3, <2>1 DEF PushSeeds, Receives
    <3> QED
      BY <3>1, <3>2
  <2>2. CASE r # s
    BY <1>1, <1>3, <2>2 DEF PushSeeds, Receives
  <2> QED
    BY <2>1, <2>2
<1>4. \/ UNCHANGED view \/ \E r \in Subs : PushSeeds(r)
      \/ \E b \in Actors, r \in Subs : PushTo(b, r)
  BY DEF Next, Tick, Request, Act, Changes, Snapshots, collectSubscribers, Pushed,
         Subscriber, SubscribeQueue, ReadSeed, Register, UnsubscribeQueue, vars
<1>5. CASE UNCHANGED view
  BY <1>1, <1>5
<1> QED
  BY <1>2, <1>3, <1>4, <1>5

\* CurrentNeverGoesBack: no stream is told of an older display after a newer one, also
\* when its seeds race with the loop.
THEOREM DisplayNeverGoesBack == Spec => CurrentNeverGoesBack
<1> DEFINE Forward == \A s \in Subs : view'[s]["current"] >= view[s]["current"]
<1>1. Loop \in Actors /\ "current" \in Kinds /\ Owns(Loop, "current")
  BY KindSets DEF Actors, Owns
<1>2. IInv /\ [Next]_vars => [Forward]_vars
  BY <1>1, NeverBack
<1> QED
  BY <1>2, FeedInvariant, PTL DEF Spec, CurrentNeverGoesBack

-----------------------------------------------------------------------------
(* What only overlapping requests break.                                   *)

\* A client whose stream is registered shows the latest history while no request is under
\* way, but for additions between its seed and its registration.
HistoryInSync ==
  Resting(Callers) => \A s \in Subs :
    spc[s] = "on" => view[s]["history"] = state["history"] \/ s \in gap["history"]

\* No stream is told of an older history after a newer one.
HistoryNeverGoesBack == [][\A s \in Subs : view'[s]["history"] >= view[s]["history"]]_vars

\* The loop leaves the history alone: with one handler at a time every client shows the
\* latest history once the handler is done, and never an older one after a newer one,
\* whatever the loop and the subscriptions do meanwhile.
THEOREM HistoryInSyncAlone ==
  ASSUME NEW c, Callers = {c}
  PROVE  Spec => []HistoryInSync /\ HistoryNeverGoesBack
<1> DEFINE Forward == \A s \in Subs : view'[s]["history"] >= view[s]["history"]
<1>1. c \in Actors /\ "history" \in Kinds /\ Owns(c, "history")
  BY KindSets DEF Actors, Owns
<1>2. IInv => HistoryInSync
  <2> SUFFICES ASSUME IInv, job[c] = <<>>, NEW s \in Subs, spc[s] = "on"
               PROVE  view[s]["history"] = state["history"] \/ s \in gap["history"]
    BY DEF HistoryInSync, Resting
  <2> QED
    BY <1>1, NothingOwed DEF IInv, Synced
<1>3. IInv /\ [Next]_vars => [Forward]_vars
  BY <1>1, NeverBack
<1> QED
  BY <1>2, <1>3, FeedInvariant, PTL DEF Spec, HistoryNeverGoesBack
=============================================================================
