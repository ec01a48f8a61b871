----------------------------- MODULE DisplayProofs -----------------------------
(***************************************************************************)
(* What DisplayFeed promises its clients, for every set of subscribers,    *)
(* every size of the history and every number of payloads.                 *)
(***************************************************************************)
EXTENDS DisplayFeed, SequenceTheorems, TLAPS

USE CapacityAssumption, BoundAssumption

-----------------------------------------------------------------------------
\* MakeRoom leaves room for one more entry and keeps the newest ones in order.
LEMMA RoomIsMade ==
  ASSUME NEW h \in Seq(Payloads), Len(h) <= Capacity
  PROVE  /\ MakeRoom(h) \in Seq(Payloads)
         /\ Len(MakeRoom(h)) = IF Len(h) = Capacity THEN Capacity - 1 ELSE Len(h)
         /\ \A i \in 1 .. Len(MakeRoom(h)) :
              MakeRoom(h)[i] = h[Len(h) - Len(MakeRoom(h)) + i]
<1>1. CASE Len(h) = Capacity
  <2>1. h # <<>>
    BY <1>1
  <2>2. Tail(h) \in Seq(Payloads) /\ Len(Tail(h)) = Len(h) - 1
    BY <2>1, HeadTailProperties
  <2>3. \A i \in 1 .. Len(Tail(h)) : Tail(h)[i] = h[i + 1]
    BY <2>1, HeadTailProperties
  <2>4. MakeRoom(h) = Tail(h)
    BY <1>1 DEF MakeRoom
  <2> QED BY <1>1, <2>2, <2>3, <2>4
<1>2. CASE Len(h) < Capacity
  <2>1. MakeRoom(h) = h /\ Len(h) \in Nat
    BY <1>2 DEF MakeRoom
  <2>2. \A i \in 1 .. Len(h) : Len(h) - Len(h) + i = i
    BY <2>1
  <2> QED BY <1>2, <2>1, <2>2
<1> QED BY <1>1, <1>2

\* The type of every variable is kept.
LEMMA TypeInit == Init => TypeOK
BY DEF Init, TypeOK, Payloads

LEMMA TypeStep == TypeOK /\ [Next]_vars => TypeOK'
<1> SUFFICES ASSUME TypeOK, [Next]_vars PROVE TypeOK'
  OBVIOUS
<1> USE DEF TypeOK, Payloads
<1>1. CASE Receive
  <2>1. /\ MakeRoom(history) \in Seq(Payloads)
        /\ Len(MakeRoom(history)) < Capacity
    BY RoomIsMade
  <2>2. latest + 1 \in Payloads
    BY <1>1 DEF Receive
  <2>3. history' \in Seq(Payloads) /\ Len(history') <= Capacity
    BY <1>1, <2>1, <2>2, AppendProperties DEF Receive
  <2> QED BY <1>1, <2>2, <2>3 DEF Receive, subVars
<1>2. CASE Collect
  BY <1>2 DEF Collect, subVars
<1>3. ASSUME NEW s \in Subs, PushTo(s) PROVE TypeOK'
  BY <1>3 DEF PushTo
<1>4. CASE Return
  BY <1>4 DEF Return, subVars
<1>5. ASSUME NEW s \in Subs, Subscriber(s) PROVE TypeOK'
  <2>1. CASE SubscribeDisplayState(s)
    BY <2>1 DEF SubscribeDisplayState, SeedNow
  <2>2. CASE PushSeed(s)
    BY <2>2 DEF PushSeed
  <2>3. CASE Register(s)
    BY <2>3 DEF Register
  <2>4. CASE UnsubscribeDisplayState(s)
    BY <2>4 DEF UnsubscribeDisplayState
  <2> QED BY <1>5, <2>1, <2>2, <2>3, <2>4 DEF Subscriber
<1>6. CASE UNCHANGED vars
  BY <1>6 DEF vars, subVars
<1> QED
  BY <1>1, <1>2, <1>3, <1>4, <1>5, <1>6 DEF Next, HandleMessage

\* TypeOK: the history, too, never outgrows its capacity.
THEOREM DisplayTyped == Spec => []TypeOK
<1> QED BY TypeInit, TypeStep, PTL DEF Spec

-----------------------------------------------------------------------------
\* HistoryIsNewest: the history is the newest payloads in order, at every size.
LEMMA HistoryStep == TypeOK /\ HistoryIsNewest /\ [Next]_vars => HistoryIsNewest'
<1> SUFFICES ASSUME TypeOK, HistoryIsNewest, [Next]_vars PROVE HistoryIsNewest'
  OBVIOUS
<1>1. CASE Receive
  <2> DEFINE room == MakeRoom(history)
  <2>1. latest \in Nat /\ latest' = latest + 1 /\ history' = Append(room, latest + 1)
    BY <1>1 DEF Receive, TypeOK, Payloads
  <2>2. /\ room \in Seq(Payloads)
        /\ Len(room) = IF Len(history) = Capacity THEN Capacity - 1 ELSE Len(history)
        /\ \A i \in 1 .. Len(room) : room[i] = history[Len(history) - Len(room) + i]
    BY RoomIsMade DEF TypeOK
  <2>3. /\ Len(history') = Len(room) + 1
        /\ \A i \in 1 .. Len(room) : history'[i] = room[i]
        /\ history'[Len(room) + 1] = latest + 1
    BY <2>1, <2>2 DEF TypeOK
  <2>4. Len(history) \in Nat /\ Len(history) <= Capacity
    BY DEF TypeOK
  <2>5. Len(history') = IF latest' < Capacity THEN latest' ELSE Capacity
    BY <2>1, <2>2, <2>3, <2>4 DEF HistoryIsNewest
  <2>6. ASSUME NEW i \in 1 .. Len(room)
        PROVE  history'[i] = latest' - Len(history') + i
    <3>1. Len(history) - Len(room) + i \in 1 .. Len(history)
      BY <2>2, <2>4
    <3>2. history'[i] = latest - Len(history) + (Len(history) - Len(room) + i)
      BY <2>2, <2>3, <3>1 DEF HistoryIsNewest
    <3>3. Len(room) \in Nat /\ Len(history) \in Nat /\ latest \in Nat /\ i \in Nat
      BY <2>1, <2>2, <2>4
    <3>4. latest' = latest + 1 /\ Len(history') = Len(room) + 1
      BY <2>1, <2>3
    <3> HIDE DEF room
    <3> QED BY <3>2, <3>3, <3>4
  <2>7. history'[Len(history')] = latest' - Len(history') + Len(history')
    BY <2>1, <2>2, <2>3, <2>4
  <2>8. \A i \in 1 .. Len(history') : i = Len(history') \/ i \in 1 .. Len(room)
    BY <2>2, <2>3, <2>4
  <2> QED BY <2>5, <2>6, <2>7, <2>8 DEF HistoryIsNewest
<1>2. CASE UNCHANGED <<latest, history>>
  BY <1>2 DEF HistoryIsNewest
<1>3. Receive \/ UNCHANGED <<latest, history>>
  BY DEF Next, HandleMessage, Collect, PushTo, Return, Subscriber, SubscribeDisplayState,
         PushSeed, Register, UnsubscribeDisplayState, vars
<1> QED BY <1>1, <1>2, <1>3

THEOREM HistoryKept == Spec => []HistoryIsNewest
<1>1. Init => HistoryIsNewest
  BY DEF Init, HistoryIsNewest
<1> QED BY <1>1, HistoryStep, DisplayTyped, PTL DEF Spec

-----------------------------------------------------------------------------
\* A client that is not registered has a current seed or is in the gap, and a
\* registered one that handleMessage is not about to serve is up to date or in it.
Fresh(s) ==
  /\ seed[s] <= latest /\ shown[s] <= latest
  /\ spc[s] \in {"off", "push"} => shown[s] = 0
  /\ spc[s] \in {"push", "register"} => seed[s] = latest \/ s \in gap
  /\ spc[s] = "register" => shown[s] = seed[s]
  /\ s \in to => spc[s] \in {"on", "gone"}
  /\ spc[s] = "on" /\ hpc # "collect" /\ s \notin to => shown[s] = latest \/ s \in gap

IInv == /\ \A s \in Subs : Fresh(s)
        /\ hpc # "push" => to = {}

LEMMA FreshInit == Init => IInv
BY DEF Init, IInv, Fresh

LEMMA FreshStep == TypeOK /\ IInv /\ [Next]_vars => IInv'
<1> SUFFICES ASSUME TypeOK, IInv, [Next]_vars PROVE IInv'
  OBVIOUS
<1>t. /\ latest \in Nat /\ seed \in [Subs -> Nat] /\ shown \in [Subs -> Nat]
      /\ DOMAIN spc = Subs
  BY DEF TypeOK, Payloads
<1> USE <1>t DEF IInv, Fresh
<1>1. CASE Receive
  BY <1>1 DEF Receive, subVars
<1>2. CASE Collect
  BY <1>2 DEF Collect, subVars, InOnceRegistered
<1>3. ASSUME NEW s \in Subs, PushTo(s) PROVE IInv'
  BY <1>3 DEF PushTo
<1>4. CASE Return
  BY <1>4 DEF Return, subVars
<1>5. ASSUME NEW s \in Subs, Subscriber(s) PROVE IInv'
  <2>1. CASE SubscribeDisplayState(s)
    BY <2>1 DEF SubscribeDisplayState, SeedNow
  <2>2. CASE PushSeed(s)
    BY <2>2 DEF PushSeed
  <2>3. CASE Register(s)
    BY <2>3 DEF Register
  <2>4. CASE UnsubscribeDisplayState(s)
    BY <2>4 DEF UnsubscribeDisplayState
  <2> QED BY <1>5, <2>1, <2>2, <2>3, <2>4 DEF Subscriber
<1>6. CASE UNCHANGED vars
  BY <1>6 DEF vars, subVars
<1> QED
  BY <1>1, <1>2, <1>3, <1>4, <1>5, <1>6 DEF Next, HandleMessage

\* ShowsLatest: outside the gap no registered client is left behind.
THEOREM LatestShown == Spec => []ShowsLatest
<1>1. IInv => ShowsLatest
  BY DEF IInv, Fresh, ShowsLatest
<1> QED BY <1>1, FreshInit, FreshStep, DisplayTyped, PTL DEF Spec

\* NeverGoesBack: no client is shown an older payload after a newer one.
LEMMA NoStepBack ==
  TypeOK /\ IInv /\ [Next]_vars => [\A s \in Subs : shown'[s] >= shown[s]]_vars
<1> SUFFICES ASSUME TypeOK, IInv, Next, NEW s \in Subs PROVE shown'[s] >= shown[s]
  OBVIOUS
<1>t. latest \in Nat /\ seed \in [Subs -> Nat] /\ shown \in [Subs -> Nat]
  BY DEF TypeOK, Payloads
<1>1. CASE UNCHANGED shown
  BY <1>1, <1>t
<1>2. ASSUME NEW r \in Subs, PushTo(r) PROVE shown'[s] >= shown[s]
  BY <1>2, <1>t DEF PushTo, IInv, Fresh
<1>3. ASSUME NEW r \in Subs, PushSeed(r) PROVE shown'[s] >= shown[s]
  BY <1>3, <1>t DEF PushSeed, IInv, Fresh
<1>4. \/ UNCHANGED shown
      \/ \E r \in Subs : PushTo(r) \/ PushSeed(r)
  BY DEF Next, HandleMessage, Receive, Collect, Return, subVars, Subscriber,
         SubscribeDisplayState, Register, UnsubscribeDisplayState
<1> QED BY <1>1, <1>2, <1>3, <1>4

THEOREM ShownForward == Spec => NeverGoesBack
<1> QED BY FreshInit, FreshStep, NoStepBack, DisplayTyped, PTL DEF Spec, NeverGoesBack
=============================================================================
