------------------------------- MODULE SseProofs -------------------------------
(***************************************************************************)
(* The life of a stream in SseStream, for queues of any size, any number   *)
(* of events and any interleaving of the handler, the writer, the fallback *)
(* and Shutdown: who feeds and cancels it, what its queues hold, and that  *)
(* it implements LossyStream.                                              *)
(***************************************************************************)
EXTENDS SseStream, FiniteSetTheorems, FunctionTheorems, SequenceTheorems, TLAPS

W0 == WriterCleanup
W1 == <<"sched", "unregister", "cancel">>
W2 == <<"unregister", "cancel">>
W3 == <<"cancel">>
F0 == FallbackCleanup
F1 == <<"sched", "display", "unregister">>
F2 == <<"display", "unregister">>
F3 == <<"unregister">>

LEMMA Calls ==
  /\ Head(W0) = "display" /\ Tail(W0) = W1 /\ Head(W1) = "sched" /\ Tail(W1) = W2
  /\ Head(W2) = "unregister" /\ Tail(W2) = W3 /\ Head(W3) = "cancel" /\ Tail(W3) = <<>>
  /\ Head(F0) = "cancel" /\ Tail(F0) = F1 /\ Head(F1) = "sched" /\ Tail(F1) = F2
  /\ Head(F2) = "display" /\ Tail(F2) = F3 /\ Head(F3) = "unregister" /\ Tail(F3) = <<>>
BY DEF W0, W1, W2, W3, F0, F1, F2, F3, WriterCleanup, FallbackCleanup

LEMMA Distinct ==
  /\ W0 # W1 /\ W0 # W2 /\ W0 # W3 /\ W1 # W2 /\ W1 # W3 /\ W2 # W3
  /\ <<>> \notin {W0, W1, W2, W3, F0, F1, F2, F3}
  /\ F0 \notin {F1, F2, F3}
BY DEF W0, W1, W2, W3, F0, F1, F2, F3, WriterCleanup, FallbackCleanup

-----------------------------------------------------------------------------
(* Who subscribes, registers, cancels and cleans up.                       *)

SetUp   == {"spawn", "respond", "returned"}
Started == SetUp \cup {"register"}

\* The fallback's first call cancels, so a live stream has only been touched by its
\* writer, and that only when the writer has ended.
CInv ==
  /\ hpc \in {"sched", "display", "register", "spawn", "respond", "returned"}
  /\ cleanup \in [{"writer", "fallback"} -> {W0, W1, W2, W3, <<>>, F0, F1, F2, F3}]
  /\ cleanup["writer"] \in {W0, W1, W2, W3, <<>>}
  /\ cleanup["fallback"] \in {F0, F1, F2, F3, <<>>}
  /\ cleanup["fallback"] # F0 => cancelled
  /\ cleanup["writer"] = <<>> => cancelled
  /\ wpc \notin {"cleanup", "done"} => cleanup["writer"] = W0
  /\ wpc # "off" => hpc = "returned"
  /\ fpc # "off" => hpc \in SetUp
  /\ \A s \in Sources : rpc[s] = "done" => cancelled
  /\ \A s \in Sources : rpc[s] # "off" => hpc \in {"respond", "returned"}
  /\ hpc = "display" => "sched" \in subs
  /\ hpc \in Started /\ ~cancelled /\ cleanup["writer"] = W0 => subs = Sources
  /\ hpc \in SetUp /\ ~cancelled /\ cleanup["writer"] \in {W0, W1, W2} => registered
  /\ cancelled => hpc \in SetUp
  /\ registered => hpc \in SetUp
  /\ sweep = "late" => hpc \in SetUp /\ ~registered
  /\ sweep \in {"none", "early", "late"}
  /\ subs \subseteq Sources /\ rpc \in [Sources -> {"off", "wait", "drain", "push", "done"}]
  /\ {cancelled, registered} \subseteq BOOLEAN

LEMMA ControlInit == Init => CInv
<1> SUFFICES ASSUME Init PROVE CInv
  OBVIOUS
<1>1. cleanup = [writer |-> W0, fallback |-> F0]
  BY DEF Init, W0, F0
<1>2. /\ cleanup["writer"] = W0 /\ cleanup["fallback"] = F0
      /\ cleanup \in [{"writer", "fallback"} -> {W0, W1, W2, W3, <<>>, F0, F1, F2, F3}]
  BY <1>1
<1>3. rpc \in [Sources -> {"off", "wait", "drain", "push", "done"}]
      /\ \A s \in Sources : rpc[s] = "off"
  BY DEF Init
<1> QED
  BY <1>2, <1>3, Distinct DEF Init, CInv, Sources, SetUp, Started

LEMMA ControlKept == CInv /\ [Next]_vars => CInv'
<1> SUFFICES ASSUME CInv, [Next]_vars PROVE CInv'
  OBVIOUS
<1> USE DEF CInv, control, sources, relays, writer, SetUp, Started
<1>1. ASSUME NEW s \in Sources, Push(s) PROVE CInv'
  BY <1>1 DEF Push
<1>2. ASSUME NEW s \in Sources, Subscribe(s) PROVE CInv'
  BY <1>2, Distinct DEF Subscribe, Sources
<1>3. CASE RegisterSSE
  BY <1>3 DEF RegisterSSE
<1>4. CASE Spawn
  BY <1>4 DEF Spawn
<1>5. CASE Respond
  BY <1>5 DEF Respond
<1>6. ASSUME NEW s \in Sources, Relay(s) PROVE CInv'
  BY <1>6 DEF Relay, RelayNotified, RelayPops, RelayPushes, RelayFoundEmpty,
              RelayCancelled
<1>7. CASE WriterStarts
  BY <1>7 DEF WriterStarts
<1>8. CASE WriterPops \/ WriteSucceeds \/ WriteFails \/ WriterFoundEmpty
           \/ WriterNotified \/ WriterCancelled \/ WriterReturns
  BY <1>8 DEF WriterPops, WriteSucceeds, WriteFails, WriterFoundEmpty, WriterNotified,
              WriterCancelled, WriterReturns
<1>9. CASE WriteBlocks \/ WriteUnblocks
  BY <1>9 DEF WriteBlocks, WriteUnblocks
<1>10. CASE WriterCleansUp
  BY <1>10, Calls, Distinct DEF WriterCleansUp, CleanUp, Sources
<1>11. CASE FallbackCleansUp
  BY <1>11, Calls, Distinct DEF FallbackCleansUp, CleanUp, Sources
<1>12. CASE FallbackReturns \/ FallbackFires
  BY <1>12 DEF FallbackReturns, FallbackFires
<1>13. CASE CancelStreams
  BY <1>13 DEF CancelStreams
<1>14. CASE ClientLeaves
  BY <1>14 DEF ClientLeaves
<1>15. CASE UNCHANGED vars
  BY <1>15 DEF vars
<1> QED
  BY <1>1, <1>2, <1>3, <1>4, <1>5, <1>6, <1>7, <1>8, <1>9, <1>10, <1>11, <1>12, <1>13,
     <1>14, <1>15 DEF Next, Handler, Seed, Announce, Writer, Fallback

LEMMA Controlled == Spec => []CInv
BY ControlInit, ControlKept, PTL DEF Spec

\* FedWhileLive: for as long as a stream is written and not cancelled both sources feed
\* it, in whichever order the fallback, the writer's start and Shutdown come.
THEOREM LiveStreamIsFed == Spec => []FedWhileLive
<1>1. CInv => FedWhileLive
  BY DEF CInv, FedWhileLive, Writing, SetUp, Started
<1> QED BY <1>1, Controlled, PTL

\* CanBeCancelled: a live stream that Shutdown's sweep has found registered or would still
\* find is in the registry before the sweep, or its writer has ended and cancels next; the
\* one stream the sweep can miss is the one that registers after it.
THEOREM LiveStreamCanBeCancelled == Spec => []CanBeCancelled
<1>1. CInv => CanBeCancelled
  <2> SUFFICES ASSUME CInv, ~cancelled, hpc \in SetUp,
                      ~(registered /\ sweep \in {"none", "early"})
               PROVE  cleanup["writer"] = W3
    BY DEF CanBeCancelled, SetUp, W3
  <2>1. ~registered
    BY DEF CInv
  <2> QED
    BY <2>1 DEF CInv
<1> QED BY <1>1, Controlled, PTL

-----------------------------------------------------------------------------
(* The queues.                                                             *)

\* TypeOK without its conjunct about cleanup.
Data ==
  /\ hpc \in {"sched", "display", "register", "spawn", "respond", "returned"}
  /\ subs \subseteq Sources
  /\ buf \in [Sources -> Seq(Nat)] /\ \A s \in Sources : Len(buf[s]) <= Capacity[s]
  /\ token \in [Sources -> BOOLEAN] /\ hand \in Numbers
  /\ rpc \in [Sources -> {"off", "wait", "drain", "push", "done"}]
  /\ merged \in Seq(Sources \X Nat) /\ Len(merged) <= MergedCapacity
  /\ wpc \in {"off", "drain", "write", "blocked", "select", "cleanup", "done"}
  /\ wire \in (Sources \X Nat) \cup {None}
  /\ fpc \in {"off", "sleep", "cleanup", "done"}
  /\ {mtoken, cancelled, registered, gone} \subseteq BOOLEAN
  /\ sweep \in {"none", "early", "late"}
  /\ sent \in Numbers /\ last \in Numbers

LEMMA Appended ==
  ASSUME NEW S, NEW q \in Seq(S), NEW size \in Nat \ {0}, Len(q) <= size, NEW e \in S
  PROVE  /\ Append(MakeRoom(q, size), e) \in Seq(S)
         /\ Len(Append(MakeRoom(q, size), e)) <= size
<1>1. CASE Len(q) < size
  BY <1>1 DEF MakeRoom
<1>2. CASE Len(q) >= size
  <2>1. Len(q) > 0 /\ Tail(q) \in Seq(S) /\ Len(Tail(q)) = Len(q) - 1
    BY <1>2
  <2> QED
    BY <1>2, <2>1 DEF MakeRoom
<1> QED BY <1>1, <1>2

LEMMA DataInit == Init => Data
<1> SUFFICES ASSUME Init PROVE Data
  OBVIOUS
<1>1. buf \in [Sources -> Seq(Nat)] /\ \A s \in Sources : Len(buf[s]) <= Capacity[s]
  <2>1. <<>> \in Seq(Nat) /\ Len(<<>>) = 0
    OBVIOUS
  <2>2. \A s \in Sources : buf[s] = <<>> /\ 0 <= Capacity[s]
    BY CapacityAssumption DEF Init
  <2> QED
    BY <2>1, <2>2 DEF Init
<1>2. /\ token \in [Sources -> BOOLEAN] /\ hand \in Numbers
      /\ sent \in Numbers /\ last \in Numbers
      /\ rpc \in [Sources -> {"off", "wait", "drain", "push", "done"}]
  BY DEF Init, Numbers
<1>3. merged \in Seq(Sources \X Nat) /\ Len(merged) <= MergedCapacity
  BY CapacityAssumption DEF Init
<1> QED
  BY <1>1, <1>2, <1>3 DEF Init, Data

LEMMA DataKept == Data /\ [Next]_vars => Data'
<1> SUFFICES ASSUME Data, [Next]_vars PROVE Data'
  OBVIOUS
<1> USE CapacityAssumption DEF Data, control, sources, relays, writer
<1>1. ASSUME NEW s \in Sources, Push(s) PROVE Data'
  <2>1. sent[s] + 1 \in Nat
    BY DEF Numbers
  <2>2. /\ Append(MakeRoom(buf[s], Capacity[s]), sent[s] + 1) \in Seq(Nat)
        /\ Len(Append(MakeRoom(buf[s], Capacity[s]), sent[s] + 1)) <= Capacity[s]
    BY <2>1, Appended
  <2>3. sent' \in Numbers /\ token' \in [Sources -> BOOLEAN]
    BY <1>1, <2>1 DEF Push, Numbers
  <2>4. buf' \in [Sources -> Seq(Nat)] /\ \A t \in Sources : Len(buf'[t]) <= Capacity[t]
    BY <1>1, <2>2 DEF Push
  <2> QED
    BY <1>1, <2>3, <2>4 DEF Push
<1>2. ASSUME NEW s \in Sources, Subscribe(s) PROVE Data'
  BY <1>2 DEF Subscribe
<1>3. CASE RegisterSSE \/ Spawn \/ Respond
  BY <1>3 DEF RegisterSSE, Spawn, Respond
<1>4. ASSUME NEW s \in Sources, RelayPushes(s) PROVE Data'
  <2>1. <<s, hand[s]>> \in Sources \X Nat
    BY DEF Numbers
  <2>2. /\ Append(MakeRoom(merged, MergedCapacity), <<s, hand[s]>>) \in Seq(Sources \X Nat)
        /\ Len(Append(MakeRoom(merged, MergedCapacity), <<s, hand[s]>>)) <= MergedCapacity
    BY <2>1, Appended
  <2> QED
    BY <1>4, <2>2 DEF RelayPushes, Numbers
<1>5. ASSUME NEW s \in Sources, RelayPops(s) PROVE Data'
  <2>1. /\ Head(buf[s]) \in Nat /\ Tail(buf[s]) \in Seq(Nat)
        /\ Len(Tail(buf[s])) <= Capacity[s]
    BY <1>5 DEF RelayPops
  <2> QED
    BY <1>5, <2>1 DEF RelayPops, Numbers
<1>6. ASSUME NEW s \in Sources,
             RelayNotified(s) \/ RelayFoundEmpty(s) \/ RelayCancelled(s)
      PROVE  Data'
  BY <1>6 DEF RelayNotified, RelayFoundEmpty, RelayCancelled
<1>7. CASE WriterPops
  <2>1. /\ Head(merged) \in Sources \X Nat /\ Tail(merged) \in Seq(Sources \X Nat)
        /\ Len(Tail(merged)) <= MergedCapacity
    BY <1>7 DEF WriterPops
  <2> QED
    BY <1>7, <2>1 DEF WriterPops
<1>8. CASE WriteSucceeds
  <2>1. wire[2] \in Nat
    BY DEF None
  <2>2. last' \in Numbers
    BY <1>8, <2>1 DEF WriteSucceeds, AfterWrite, Numbers
  <2> QED
    BY <1>8, <2>2 DEF WriteSucceeds, AfterWrite
<1>9. CASE WriterStarts \/ WriteFails \/ WriterFoundEmpty \/ WriterNotified
           \/ WriterCancelled \/ WriterReturns \/ WriteBlocks \/ WriteUnblocks
  BY <1>9 DEF WriterStarts, WriteFails, WriterFoundEmpty, WriterNotified,
              WriterCancelled, WriterReturns, WriteBlocks, WriteUnblocks
<1>10. CASE WriterCleansUp \/ FallbackCleansUp
  BY <1>10 DEF WriterCleansUp, FallbackCleansUp, CleanUp
<1>11. CASE FallbackReturns \/ FallbackFires \/ CancelStreams \/ ClientLeaves
  BY <1>11 DEF FallbackReturns, FallbackFires, CancelStreams, ClientLeaves
<1>12. CASE UNCHANGED vars
  BY <1>12 DEF vars
<1> QED
  BY <1>1, <1>2, <1>3, <1>4, <1>5, <1>6, <1>7, <1>8, <1>9, <1>10, <1>11, <1>12
     DEF Next, Handler, Seed, Announce, Relay, Writer, Fallback

\* TypeOK: no queue of a stream ever holds more than its capacity.
THEOREM StreamTyped == Spec => []TypeOK
<1>1. CInv /\ Data => TypeOK
  <2> SUFFICES ASSUME CInv, Data PROVE TypeOK
    OBVIOUS
  <2> DEFINE Names == {"sched", "display", "unregister", "cancel"}
  <2>1. {W0, W1, W2, W3, <<>>, F0, F1, F2, F3} \subseteq Seq(Names)
    BY DEF W0, W1, W2, W3, F0, F1, F2, F3, WriterCleanup, FallbackCleanup
  <2>2. cleanup \in [{"writer", "fallback"} -> Seq(Names)]
    BY <2>1 DEF CInv
  <2> QED
    BY <2>2 DEF Data, TypeOK
<1> QED BY <1>1, Controlled, DataInit, DataKept, PTL DEF Spec

-----------------------------------------------------------------------------
(* The stream as a lossy stream.  The events of a source lie in their order *)
(* on the wire, in the merged queue, in the hand of its relay and in the    *)
(* source's own queue, which holds the newest of them without a gap.        *)

\* The newest event of s that has left its queue, and whether an event has its place
\* between the last one written and the hand of its relay.
Left(s)      == sent[s] - Len(buf[s])
Between(e)   == /\ last[e[1]] < e[2] /\ e[2] <= Left(e[1])
                /\ hand[e[1]] # 0 => e[2] < hand[e[1]]
Precedes(e, f) == e[1] = f[1] => e[2] < f[2]

Lined(s) ==
  /\ \A i \in 1 .. Len(buf[s]) : buf[s][i] = Left(s) + i
  /\ last[s] <= Left(s) /\ hand[s] <= Left(s)
  /\ rpc[s] = "push" <=> hand[s] # 0
  /\ hand[s] # 0 => last[s] < hand[s]

LinedUp ==
  /\ \A s \in Sources : Lined(s)
  /\ \A i \in 1 .. Len(merged) : Between(merged[i])
  /\ \A i, j \in 1 .. Len(merged) : i < j => Precedes(merged[i], merged[j])
  /\ wire # None => Between(wire) /\ \A i \in 1 .. Len(merged) : Precedes(wire, merged[i])
  /\ wpc \in {"off", "drain", "select"} => wire = None
  /\ wpc = "write" => wire # None

\* Between, of an event in the next state.
After(e) == /\ last'[e[1]] < e[2] /\ e[2] <= sent'[e[1]] - Len(buf'[e[1]])
            /\ hand'[e[1]] # 0 => e[2] < hand'[e[1]]

LEMMA NextLine ==
  ASSUME \A s \in Sources : Lined(s)',
         \A i \in 1 .. Len(merged') : After(merged'[i]),
         \A i, j \in 1 .. Len(merged') : i < j => Precedes(merged'[i], merged'[j]),
         wire' # None => /\ After(wire')
                         /\ \A i \in 1 .. Len(merged') : Precedes(wire', merged'[i]),
         wpc' \in {"off", "drain", "select"} => wire' = None,
         wpc' = "write" => wire' # None
  PROVE  LinedUp'
<1>1. \A i \in 1 .. Len(merged') : Between(merged[i])'
  BY DEF Between, After, Left
<1>2. wire' # None => Between(wire)'
  BY DEF Between, After, Left
<1> QED
  BY <1>1, <1>2 DEF LinedUp, Precedes

\* A push moves the queue by one place when it is full.
Excess(q, size) == IF Len(q) < size THEN 0 ELSE 1

Pushed(q, size, e) == Append(MakeRoom(q, size), e)

LEMMA Shifted ==
  ASSUME NEW S, NEW q \in Seq(S), NEW size \in Nat \ {0}, Len(q) <= size, NEW e \in S
  PROVE  /\ Excess(q, size) \in {0, 1} /\ Excess(q, size) <= Len(q)
         /\ (Excess(q, size) = 1 => Len(q) = size)
         /\ Len(Pushed(q, size, e)) = Len(q) - Excess(q, size) + 1
         /\ \A i \in 1 .. Len(q) - Excess(q, size) :
              Pushed(q, size, e)[i] = q[i + Excess(q, size)]
         /\ Pushed(q, size, e)[Len(q) - Excess(q, size) + 1] = e
<1> USE DEF Pushed, Excess
<1>1. CASE Len(q) < size
  BY <1>1 DEF MakeRoom
<1>2. CASE ~(Len(q) < size)
  <2>1. Len(q) = size /\ q # <<>>
    BY <1>2
  <2>2. /\ Tail(q) \in Seq(S) /\ Len(Tail(q)) = Len(q) - 1
        /\ \A i \in 1 .. Len(q) - 1 : Tail(q)[i] = q[i + 1]
    BY <2>1, HeadTailProperties
  <2>3. Append(MakeRoom(q, size), e) = Append(Tail(q), e)
    BY <1>2 DEF MakeRoom
  <2> QED
    BY <1>2, <2>1, <2>2, <2>3
<1> QED BY <1>1, <1>2

LEMMA ShiftedAt ==
  ASSUME NEW S, NEW q \in Seq(S), NEW size \in Nat \ {0}, Len(q) <= size, NEW e \in S,
         NEW i \in 1 .. Len(q) - Excess(q, size)
  PROVE  Pushed(q, size, e)[i] = q[i + Excess(q, size)]
BY Shifted

LEMMA NewestPushed ==
  ASSUME NEW S, NEW q \in Seq(S), NEW size \in Nat \ {0}, Len(q) <= size, NEW e \in S
  PROVE  Pushed(q, size, e)[Len(Pushed(q, size, e))] = e
BY Shifted

LEMMA LinedInit == Init => LinedUp
BY DEF Init, LinedUp, Lined, Left

\* What the queues hold, in the form the steps below use.
LEMMA Numbered ==
  ASSUME Data
  PROVE  /\ \A s \in Sources : /\ sent[s] \in Nat /\ last[s] \in Nat /\ hand[s] \in Nat
                               /\ Len(buf[s]) \in Nat /\ Len(buf[s]) <= Capacity[s]
                               /\ Left(s) \in Int
         /\ Len(merged) \in Nat /\ Len(merged) <= MergedCapacity
         /\ \A i \in 1 .. Len(merged) :
              /\ merged[i][1] \in Sources /\ merged[i][2] \in Nat
              /\ merged[i] = <<merged[i][1], merged[i][2]>>
         /\ wire # None => /\ wire[1] \in Sources /\ wire[2] \in Nat
                           /\ wire = <<wire[1], wire[2]>>
<1>1. \A i \in 1 .. Len(merged) : merged[i] \in Sources \X Nat
  BY ElementOfSeq DEF Data
<1>2. ASSUME NEW s \in Sources
      PROVE  /\ sent[s] \in Nat /\ last[s] \in Nat /\ hand[s] \in Nat
             /\ Len(buf[s]) \in Nat /\ Len(buf[s]) <= Capacity[s] /\ Left(s) \in Int
  <2>1. buf[s] \in Seq(Nat)
    BY DEF Data
  <2> QED
    BY <2>1 DEF Data, Numbers, Left
<1>3. Len(merged) \in Nat /\ Len(merged) <= MergedCapacity
  BY DEF Data
<1>4. wire # None => wire \in Sources \X Nat
  BY DEF Data
<1> QED
  BY <1>1, <1>2, <1>3, <1>4

\* What a push, a relay and the writer do to the queues.  d is 1 when the oldest goes.
LEMMA PushMoves ==
  ASSUME Data, NEW s \in Sources, Push(s)
  PROVE  /\ sent' = [sent EXCEPT ![s] = sent[s] + 1] /\ sent'[s] = sent[s] + 1
         /\ \A t \in Sources \ {s} : /\ buf'[t] = buf[t] /\ sent'[t] = sent[t]
                                    /\ Left(t)' = Left(t)
         /\ UNCHANGED <<hand, rpc, merged, wire, wpc, last>>
         /\ \E d \in {0, 1} :
              /\ d <= Len(buf[s]) /\ (d = 1 => Len(buf[s]) = Capacity[s])
              /\ Len(buf'[s]) = Len(buf[s]) - d + 1 /\ Left(s)' = Left(s) + d
              /\ \A i \in 1 .. Len(buf[s]) - d : buf'[s][i] = buf[s][i + d]
              /\ buf'[s][Len(buf'[s])] = sent[s] + 1
<1> DEFINE d == Excess(buf[s], Capacity[s])
<1>1. /\ d \in {0, 1} /\ d <= Len(buf[s]) /\ (d = 1 => Len(buf[s]) = Capacity[s])
      /\ Len(buf'[s]) = Len(buf[s]) - d + 1
      /\ \A i \in 1 .. Len(buf[s]) - d : buf'[s][i] = buf[s][i + d]
      /\ buf'[s][Len(buf'[s])] = sent[s] + 1
  <2>1. /\ buf[s] \in Seq(Nat) /\ Capacity[s] \in Nat \ {0} /\ Len(buf[s]) <= Capacity[s]
        /\ sent[s] + 1 \in Nat
    BY CapacityAssumption DEF Data, Numbers
  <2> DEFINE A == Pushed(buf[s], Capacity[s], sent[s] + 1)
  <2>2. buf'[s] = A
    BY DEF Push, Data, Pushed
  <2>3. d = Excess(buf[s], Capacity[s]) /\ A = Pushed(buf[s], Capacity[s], sent[s] + 1)
    OBVIOUS
  <2> HIDE DEF d, A
  <2>4. /\ d \in {0, 1} /\ d <= Len(buf[s]) /\ Len(A) = Len(buf[s]) - d + 1
        /\ d = 1 => Len(buf[s]) = Capacity[s]
    BY <2>1, <2>3, Shifted
  <2>5. A[Len(A)] = sent[s] + 1
    BY <2>1, <2>3, NewestPushed
  <2>6. ASSUME NEW i \in 1 .. Len(buf[s]) - d PROVE A[i] = buf[s][i + d]
    BY <2>1, <2>3, <2>6, ShiftedAt
  <2> QED
    BY <2>2, <2>4, <2>5, <2>6
<1> HIDE DEF d
<1>2. /\ sent' = [sent EXCEPT ![s] = sent[s] + 1]
      /\ \A t \in Sources \ {s} : buf'[t] = buf[t] /\ sent'[t] = sent[t]
      /\ sent'[s] = sent[s] + 1
      /\ UNCHANGED <<hand, rpc, merged, wire, wpc, last>>
  BY DEF Push, Data, Numbers, relays, writer
<1>n. sent[s] \in Nat /\ Len(buf[s]) \in Nat /\ d \in 0 .. 1 /\ Left(s) \in Int
  BY <1>1, Numbered
<1>3. Left(s)' = Left(s) + d /\ \A t \in Sources \ {s} : Left(t)' = Left(t)
  <2>1. Left(s)' = sent'[s] - Len(buf'[s]) /\ Left(s) = sent[s] - Len(buf[s])
    BY DEF Left
  <2>2. Len(buf'[s]) = Len(buf[s]) - d + 1 /\ sent'[s] = sent[s] + 1
    BY <1>1, <1>2
  <2>3. \A t \in Sources \ {s} : Left(t)' = Left(t)
    BY <1>2 DEF Left
  <2> QED
    BY <1>n, <2>1, <2>2, <2>3
<1> QED
  BY <1>1, <1>2, <1>3

LEMMA PopMoves ==
  ASSUME Data, LinedUp, NEW s \in Sources, RelayPops(s)
  PROVE  /\ \A t \in Sources \ {s} : /\ buf'[t] = buf[t] /\ hand'[t] = hand[t]
                                    /\ rpc'[t] = rpc[t] /\ Left(t)' = Left(t)
         /\ rpc'[s] = "push" /\ hand[s] = 0 /\ hand'[s] = Left(s) + 1
         /\ Left(s)' = Left(s) + 1 /\ Left(s) \in Nat /\ Left(s) < sent[s]
         /\ Len(buf'[s]) = Len(buf[s]) - 1
         /\ \A i \in 1 .. Len(buf[s]) - 1 : buf'[s][i] = buf[s][i + 1]
         /\ UNCHANGED <<sent, merged, wire, wpc, last>>
<1>1. /\ buf[s] # <<>> /\ hand'[s] = buf[s][1] /\ buf'[s] = Tail(buf[s])
      /\ \A t \in Sources \ {s} : buf'[t] = buf[t] /\ hand'[t] = hand[t] /\ rpc'[t] = rpc[t]
      /\ rpc'[s] = "push" /\ hand[s] = 0
      /\ UNCHANGED <<sent, merged, wire, wpc, last>>
  BY DEF RelayPops, Data, Numbers, writer, LinedUp, Lined
<1>2. /\ Len(buf'[s]) = Len(buf[s]) - 1 /\ Len(buf[s]) > 0
      /\ \A i \in 1 .. Len(buf[s]) - 1 : buf'[s][i] = buf[s][i + 1]
  <2>1. buf[s] \in Seq(Nat)
    BY DEF Data
  <2> QED
    BY <1>1, <2>1, HeadTailProperties
<1>3. /\ sent[s] \in Nat /\ Len(buf[s]) \in Nat /\ hand[s] \in Nat
      /\ Left(s) = sent[s] - Len(buf[s]) /\ Left(s)' = sent'[s] - Len(buf'[s])
  BY Numbered DEF Left
<1>4. \A t \in Sources \ {s} : Left(t)' = Left(t)
  BY <1>1 DEF Left
<1>5. hand[s] <= Left(s) /\ buf[s][1] = Left(s) + 1
  <2>1. Lined(s)
    BY DEF LinedUp
  <2> QED
    BY <1>2, <1>3, <2>1 DEF Lined
<1> QED
  BY <1>1, <1>2, <1>3, <1>4, <1>5

LEMMA MergeMoves ==
  ASSUME Data, LinedUp, NEW s \in Sources, RelayPushes(s)
  PROVE  /\ \A t \in Sources \ {s} : hand'[t] = hand[t] /\ rpc'[t] = rpc[t]
         /\ hand'[s] = 0 /\ rpc'[s] # "push" /\ hand[s] # 0
         /\ UNCHANGED <<buf, sent, wire, wpc, last>>
         /\ \A t : Left(t)' = Left(t)
         /\ \E d \in {0, 1} :
              /\ d <= Len(merged) /\ (d = 1 => Len(merged) = MergedCapacity)
              /\ Len(merged') = Len(merged) - d + 1
              /\ \A i \in 1 .. Len(merged) - d : merged'[i] = merged[i + d]
              /\ merged'[Len(merged')] = <<s, hand[s]>>
<1> DEFINE d == Excess(merged, MergedCapacity)
           event == <<s, hand[s]>>
<1>1. /\ d \in {0, 1} /\ d <= Len(merged) /\ (d = 1 => Len(merged) = MergedCapacity)
      /\ Len(merged') = Len(merged) - d + 1
      /\ \A i \in 1 .. Len(merged) - d : merged'[i] = merged[i + d]
      /\ merged'[Len(merged')] = event
  <2>1. /\ merged \in Seq(Sources \X Nat) /\ MergedCapacity \in Nat \ {0}
        /\ Len(merged) <= MergedCapacity /\ event \in Sources \X Nat
    BY CapacityAssumption DEF Data, Numbers
  <2> DEFINE A == Pushed(merged, MergedCapacity, event)
  <2>2. merged' = A
    BY DEF RelayPushes, Pushed
  <2>3. d = Excess(merged, MergedCapacity) /\ A = Pushed(merged, MergedCapacity, event)
    OBVIOUS
  <2> HIDE DEF d, A, event
  <2>4. /\ d \in {0, 1} /\ d <= Len(merged) /\ Len(A) = Len(merged) - d + 1
        /\ d = 1 => Len(merged) = MergedCapacity
    BY <2>1, <2>3, Shifted
  <2>5. A[Len(A)] = event
    BY <2>1, <2>3, NewestPushed
  <2>6. ASSUME NEW i \in 1 .. Len(merged) - d PROVE A[i] = merged[i + d]
    BY <2>1, <2>3, <2>6, ShiftedAt
  <2> QED
    BY <2>2, <2>4, <2>5, <2>6
<1>2. merged'[Len(merged')] = <<s, hand[s]>>
  BY <1>1
<1> HIDE DEF d, event
<1>3. /\ \A t \in Sources \ {s} : hand'[t] = hand[t] /\ rpc'[t] = rpc[t]
      /\ hand'[s] = 0 /\ rpc'[s] # "push" /\ hand[s] # 0
      /\ UNCHANGED <<buf, sent, wire, wpc, last>>
  BY DEF RelayPushes, Data, Numbers, sources, writer, LinedUp, Lined
<1>4. \A t : Left(t)' = Left(t)
  BY <1>3 DEF Left
<1> QED
  BY <1>1, <1>2, <1>3, <1>4

LEMMA TakeMoves ==
  ASSUME Data, LinedUp, WriterPops
  PROVE  /\ wire' = merged[1] /\ wire = None /\ wpc' = "write"
         /\ Len(merged') = Len(merged) - 1 /\ Len(merged) > 0
         /\ \A i \in 1 .. Len(merged) - 1 : merged'[i] = merged[i + 1]
         /\ UNCHANGED <<buf, sent, hand, rpc, last>>
<1>1. /\ merged # <<>> /\ wire' = merged[1] /\ merged' = Tail(merged) /\ wpc' = "write"
      /\ wire = None
      /\ UNCHANGED <<buf, sent, hand, rpc, last>>
  BY DEF WriterPops, sources, relays, Data, LinedUp
<1>2. /\ Len(merged') = Len(merged) - 1 /\ Len(merged) > 0
      /\ \A i \in 1 .. Len(merged) - 1 : merged'[i] = merged[i + 1]
  <2>1. merged \in Seq(Sources \X Nat)
    BY DEF Data
  <2> QED
    BY <1>1, <2>1, HeadTailProperties
<1> QED
  BY <1>1, <1>2

LEMMA LinedPush ==
  ASSUME Data, LinedUp, NEW s \in Sources, Push(s) PROVE LinedUp'
<1>1. PICK d \in {0, 1} :
        /\ d <= Len(buf[s])
        /\ Len(buf'[s]) = Len(buf[s]) - d + 1 /\ Left(s)' = Left(s) + d
        /\ \A i \in 1 .. Len(buf[s]) - d : buf'[s][i] = buf[s][i + d]
        /\ buf'[s][Len(buf'[s])] = sent[s] + 1
  BY PushMoves
<1>2. /\ sent'[s] = sent[s] + 1
      /\ \A t \in Sources \ {s} : /\ buf'[t] = buf[t] /\ sent'[t] = sent[t]
                                 /\ Left(t)' = Left(t)
      /\ UNCHANGED <<hand, rpc, merged, wire, wpc, last>>
  BY PushMoves
<1>n. sent[s] \in Nat /\ Len(buf[s]) \in Nat /\ d \in 0 .. 1 /\ Left(s) \in Int
  BY Numbered
<1>3. Left(s)' = Left(s) + d /\ \A t \in Sources \ {s} : Left(t)' = Left(t)
  BY <1>1, <1>2
<1>4. \A i \in 1 .. Len(buf'[s]) : buf'[s][i] = Left(s)' + i
  <2> SUFFICES ASSUME NEW i \in 1 .. Len(buf'[s]) PROVE buf'[s][i] = Left(s)' + i
    OBVIOUS
  <2>1. CASE i = Len(buf'[s])
    BY <1>1, <1>3, <1>n, <2>1 DEF Left
  <2>2. CASE i # Len(buf'[s])
    <3>1. i \in 1 .. Len(buf[s]) - d /\ i + d \in 1 .. Len(buf[s])
      BY <1>1, <2>2, Numbered
    <3>2. buf'[s][i] = Left(s) + (i + d)
      BY <1>1, <3>1 DEF LinedUp, Lined
    <3> QED
      BY <1>1, <1>3, <3>1, <3>2, Numbered
  <2> QED
    BY <2>1, <2>2
<1>5. \A e : e[1] \in Sources /\ e[2] \in Nat /\ Between(e) => After(e)
  <2> SUFFICES ASSUME NEW e, e[1] \in Sources, e[2] \in Nat, Between(e) PROVE After(e)
    OBVIOUS
  <2>1. Left(e[1]) <= sent'[e[1]] - Len(buf'[e[1]]) /\ Left(e[1]) \in Int
        /\ sent'[e[1]] - Len(buf'[e[1]]) \in Int
    <3>1. CASE e[1] = s
      <4>1. Left(s)' = sent'[s] - Len(buf'[s])
        BY DEF Left
      <4> QED
        BY <1>3, <1>n, <3>1, <4>1
    <3>2. CASE e[1] # s
      <4>1. Left(e[1]) = sent'[e[1]] - Len(buf'[e[1]])
        BY <1>2, <3>2 DEF Left
      <4> QED
        BY <4>1, Numbered
    <3> QED
      BY <3>1, <3>2
  <2> QED
    BY <1>2, <2>1 DEF Between, After
<1>6. ASSUME NEW t \in Sources
      PROVE  Lined(t)'
  <2>1. CASE t = s
    BY <1>1, <1>2, <1>3, <1>4, <2>1, Numbered DEF LinedUp, Lined
  <2>2. CASE t # s
    BY <1>2, <1>3, <2>2 DEF LinedUp, Lined
  <2> QED
    BY <2>1, <2>2
<1>7. \A i \in 1 .. Len(merged') : After(merged'[i])
  BY <1>2, <1>5, Numbered DEF LinedUp, Lined
<1>8. wire' # None => After(wire')
  BY <1>2, <1>5, Numbered DEF LinedUp, Lined
<1> QED
  BY <1>2, <1>6, <1>7, <1>8, NextLine DEF LinedUp, Lined

LEMMA LinedPop ==
  ASSUME Data, LinedUp, NEW s \in Sources, RelayPops(s) PROVE LinedUp'
<1>1. /\ \A t \in Sources \ {s} : /\ buf'[t] = buf[t] /\ hand'[t] = hand[t]
                                 /\ rpc'[t] = rpc[t]
      /\ rpc'[s] = "push" /\ hand[s] = 0
      /\ UNCHANGED <<sent, merged, wire, wpc, last>>
  BY PopMoves
<1>2. /\ Len(buf'[s]) = Len(buf[s]) - 1
      /\ \A i \in 1 .. Len(buf[s]) - 1 : buf'[s][i] = buf[s][i + 1]
  BY PopMoves
<1>3. Left(s)' = Left(s) + 1 /\ \A t \in Sources \ {s} : Left(t)' = Left(t)
  BY PopMoves
<1>4. hand'[s] = Left(s) + 1 /\ last[s] <= Left(s) /\ Left(s) \in Nat
  BY PopMoves DEF LinedUp, Lined
<1>5. \A e : e[1] \in Sources /\ e[2] \in Nat /\ Between(e) => After(e)
  <2> SUFFICES ASSUME NEW e, e[1] \in Sources, e[2] \in Nat, Between(e) PROVE After(e)
    OBVIOUS
  <2>1. Left(e[1]) <= sent'[e[1]] - Len(buf'[e[1]]) /\ Left(e[1]) \in Int
        /\ sent'[e[1]] - Len(buf'[e[1]]) \in Int
    <3>1. CASE e[1] = s
      <4>1. Left(s)' = sent'[s] - Len(buf'[s])
        BY DEF Left
      <4>2. Left(s) \in Int
        BY Numbered
      <4> QED
        BY <1>3, <3>1, <4>1, <4>2
    <3>2. CASE e[1] # s
      <4>1. Left(e[1]) = sent'[e[1]] - Len(buf'[e[1]])
        BY <1>1, <3>2 DEF Left
      <4> QED
        BY <4>1, Numbered
    <3> QED
      BY <3>1, <3>2
  <2> QED
    BY <1>1, <1>4, <2>1 DEF Between, After
<1>6. ASSUME NEW t \in Sources
      PROVE  Lined(t)'
  <2>1. CASE t = s
    <3>1. \A i \in 1 .. Len(buf'[s]) : buf'[s][i] = Left(s)' + i
      <4> SUFFICES ASSUME NEW i \in 1 .. Len(buf'[s]) PROVE buf'[s][i] = Left(s)' + i
        OBVIOUS
      <4>1. Len(buf[s]) \in Nat /\ Left(s) \in Int
        BY Numbered
      <4>2. i + 1 \in 1 .. Len(buf[s]) /\ buf'[s][i] = buf[s][i + 1]
        BY <1>2, <4>1
      <4>3. buf[s][i + 1] = Left(s) + (i + 1)
        BY <4>2 DEF LinedUp, Lined
      <4> QED
        BY <1>3, <4>1, <4>2, <4>3
    <3> QED
      <4>1. Left(s) \in Nat /\ last[s] \in Nat
        BY <1>4, Numbered
      <4>2. /\ last'[s] <= Left(s)' /\ hand'[s] <= Left(s)' /\ rpc'[s] = "push"
            /\ hand'[s] # 0 /\ last'[s] < hand'[s]
        BY <1>1, <1>3, <1>4, <4>1
      <4> QED
        BY <2>1, <3>1, <4>2 DEF Lined
  <2>2. CASE t # s
    BY <1>1, <1>3, <2>2 DEF LinedUp, Lined
  <2> QED
    BY <2>1, <2>2
<1>7. \A i \in 1 .. Len(merged') : After(merged'[i])
  BY <1>1, <1>5, Numbered DEF LinedUp, Lined
<1>8. wire' # None => After(wire')
  BY <1>1, <1>5, Numbered DEF LinedUp, Lined
<1> QED
  BY <1>1, <1>6, <1>7, <1>8, NextLine DEF LinedUp, Lined

LEMMA LinedMerge ==
  ASSUME Data, LinedUp, NEW s \in Sources, RelayPushes(s) PROVE LinedUp'
<1> DEFINE event == <<s, hand[s]>>
<1>1. PICK d \in {0, 1} :
        /\ d <= Len(merged) /\ Len(merged') = Len(merged) - d + 1
        /\ \A i \in 1 .. Len(merged) - d : merged'[i] = merged[i + d]
        /\ merged'[Len(merged')] = event
  BY MergeMoves
<1>2. /\ \A t \in Sources \ {s} : hand'[t] = hand[t] /\ rpc'[t] = rpc[t]
      /\ hand'[s] = 0 /\ rpc'[s] # "push" /\ hand[s] # 0
      /\ UNCHANGED <<buf, sent, wire, wpc, last>>
  BY MergeMoves
<1>3. \A t : Left(t)' = Left(t)
  BY MergeMoves
<1>4. \A e : e[1] \in Sources /\ e[2] \in Nat /\ Between(e) => After(e)
  BY <1>2, <1>3, Numbered DEF Between, After, Left
<1>5. After(event) /\ event[1] = s /\ event[2] = hand[s]
  BY <1>2, <1>3, Numbered DEF After, Left, LinedUp, Lined
<1> HIDE DEF event
<1>6. ASSUME NEW i \in 1 .. Len(merged'), i # Len(merged')
      PROVE  i + d \in 1 .. Len(merged) /\ merged'[i] = merged[i + d]
  <2>1. Len(merged) \in Nat /\ d \in 0 .. 1 /\ Len(merged') = Len(merged) - d + 1
    BY <1>1, Numbered
  <2>2. i \in 1 .. Len(merged) - d /\ i + d \in 1 .. Len(merged)
    BY <1>6, <2>1
  <2> QED
    BY <1>1, <2>2
<1>7. \A i \in 1 .. Len(merged) : Precedes(merged[i], event)
  BY <1>2, <1>5, Numbered DEF LinedUp, Between, Precedes
<1>8. \A i \in 1 .. Len(merged') : After(merged'[i])
  <2> SUFFICES ASSUME NEW i \in 1 .. Len(merged') PROVE After(merged'[i])
    OBVIOUS
  <2>1. CASE i = Len(merged')
    BY <1>1, <1>5, <2>1
  <2>2. CASE i # Len(merged')
    BY <1>4, <1>6, <2>2, Numbered DEF LinedUp, Lined
  <2> QED
    BY <2>1, <2>2
<1>9. \A i, j \in 1 .. Len(merged') : i < j => Precedes(merged'[i], merged'[j])
  <2> SUFFICES ASSUME NEW i \in 1 .. Len(merged'), NEW j \in 1 .. Len(merged'), i < j
               PROVE  Precedes(merged'[i], merged'[j])
    OBVIOUS
  <2>0. Len(merged') \in Int
    BY <1>1, Numbered
  <2>1. i # Len(merged') /\ i + d \in 1 .. Len(merged) /\ merged'[i] = merged[i + d]
    BY <1>6, <2>0
  <2>2. CASE j = Len(merged')
    BY <1>1, <1>7, <2>1, <2>2
  <2>3. CASE j # Len(merged')
    <3>1. j + d \in 1 .. Len(merged) /\ merged'[j] = merged[j + d] /\ i + d < j + d
      BY <1>1, <1>6, <2>3
    <3> QED
      BY <2>1, <3>1 DEF LinedUp, Lined
  <2> QED
    BY <2>2, <2>3
<1>10. wire' # None => After(wire') /\ \A i \in 1 .. Len(merged') : Precedes(wire', merged'[i])
  <2> SUFFICES ASSUME wire # None
               PROVE  After(wire') /\ \A i \in 1 .. Len(merged') : Precedes(wire', merged'[i])
    BY <1>2
  <2>1. After(wire')
    BY <1>2, <1>4, Numbered DEF LinedUp, Lined
  <2>2. Precedes(wire, event)
    BY <1>2, <1>5, Numbered DEF LinedUp, Between, Precedes
  <2>3. \A i \in 1 .. Len(merged') : Precedes(wire', merged'[i])
    <3> SUFFICES ASSUME NEW i \in 1 .. Len(merged') PROVE Precedes(wire', merged'[i])
      OBVIOUS
    <3>1. CASE i = Len(merged')
      BY <1>1, <1>2, <2>2, <3>1
    <3>2. CASE i # Len(merged')
      BY <1>2, <1>6, <3>2 DEF LinedUp
    <3> QED
      BY <3>1, <3>2
  <2> QED
    BY <2>1, <2>3
<1>11. ASSUME NEW t \in Sources
       PROVE  Lined(t)'
  BY <1>2, <1>3, Numbered DEF LinedUp, Lined
<1> QED
  BY <1>2, <1>8, <1>9, <1>10, <1>11, NextLine DEF LinedUp, Lined

LEMMA LinedTake ==
  ASSUME Data, LinedUp, WriterPops PROVE LinedUp'
<1>1. wire' = merged[1] /\ wpc' = "write" /\ UNCHANGED <<buf, sent, hand, rpc, last>>
  BY TakeMoves
<1>2. /\ Len(merged') = Len(merged) - 1 /\ Len(merged) > 0
      /\ \A i \in 1 .. Len(merged) - 1 : merged'[i] = merged[i + 1]
  BY TakeMoves
<1>3. \A t \in Sources : Lined(t)'
  BY <1>1 DEF LinedUp, Lined, Left
<1>4. \A i \in 1 .. Len(merged) : After(merged[i])
  BY <1>1 DEF LinedUp, Between, After, Left
<1>5. ASSUME NEW i \in 1 .. Len(merged')
      PROVE  i + 1 \in 2 .. Len(merged) /\ merged'[i] = merged[i + 1] /\ i \in Int
  BY <1>2, <1>5, Numbered
<1>6. \A i \in 1 .. Len(merged') : After(merged'[i])
  BY <1>4, <1>5
<1>7. ASSUME NEW i \in 1 .. Len(merged'), NEW j \in 1 .. Len(merged'), i < j
      PROVE  Precedes(merged'[i], merged'[j])
  <2>1. i + 1 \in 1 .. Len(merged) /\ j + 1 \in 1 .. Len(merged) /\ i + 1 < j + 1
    BY <1>5, <1>7
  <2>2. Precedes(merged[i + 1], merged[j + 1])
    BY <2>1 DEF LinedUp
  <2> QED
    BY <1>5, <2>2
<1>8. 1 \in 1 .. Len(merged)
  BY <1>2, Numbered
<1>9. After(wire') /\ \A i \in 1 .. Len(merged') : Precedes(wire', merged'[i])
  <2> SUFFICES ASSUME NEW i \in 1 .. Len(merged') PROVE Precedes(wire', merged'[i])
    BY <1>1, <1>4, <1>8
  <2>1. i + 1 \in 1 .. Len(merged) /\ 1 < i + 1
    BY <1>5
  <2>2. Precedes(merged[1], merged[i + 1])
    BY <1>8, <2>1 DEF LinedUp
  <2> QED
    BY <1>1, <1>5, <2>2
<1>10. wire' # None
  BY <1>1, <1>8, Numbered DEF None, Sources
<1> QED
  BY <1>1, <1>3, <1>6, <1>7, <1>9, <1>10, NextLine

LEMMA LinedWrite ==
  ASSUME Data, LinedUp, WriteSucceeds PROVE LinedUp'
<1> DEFINE s == wire[1]
<1>1. /\ wire # None /\ wire' = None /\ last' = [last EXCEPT ![s] = wire[2]]
      /\ wpc' = "drain" /\ s \in Sources /\ wire[2] \in Nat
      /\ UNCHANGED <<buf, sent, hand, rpc, merged>>
  BY Numbered DEF WriteSucceeds, AfterWrite, sources, relays, LinedUp
<1>2. last'[s] = wire[2] /\ \A t \in Sources \ {s} : last'[t] = last[t]
  BY <1>1 DEF Data, Numbers
<1>3. Between(wire) /\ \A i \in 1 .. Len(merged) : Precedes(wire, merged[i])
  BY <1>1 DEF LinedUp
<1>4. ASSUME NEW t \in Sources PROVE Lined(t)'
  <2>1. CASE t = s
    BY <1>1, <1>2, <1>3, <2>1 DEF LinedUp, Lined, Left, Between
  <2>2. CASE t # s
    BY <1>1, <1>2, <2>2 DEF LinedUp, Lined, Left
  <2> QED
    BY <2>1, <2>2
<1>5. ASSUME NEW i \in 1 .. Len(merged') PROVE After(merged'[i])
  <2>1. merged'[i] = merged[i] /\ Between(merged[i]) /\ merged[i][1] \in Sources
    BY <1>1, Numbered DEF LinedUp
  <2>2. CASE merged[i][1] = s
    BY <1>1, <1>2, <1>3, <2>1, <2>2 DEF Precedes, Between, After, Left
  <2>3. CASE merged[i][1] # s
    BY <1>1, <1>2, <2>1, <2>3 DEF Between, After, Left
  <2> QED
    BY <2>2, <2>3
<1> QED
  BY <1>1, <1>4, <1>5, NextLine DEF LinedUp

LEMMA LinedKept ==
  ASSUME CInv, Data, LinedUp, [Next]_vars PROVE LinedUp'
<1>k. ASSUME UNCHANGED <<buf, sent, hand, last, merged, wire>>,
             \A s \in Sources : rpc'[s] = "push" <=> rpc[s] = "push",
             wpc' \in {"off", "drain", "select"} => wire = None,
             wpc' = "write" => wire # None
      PROVE  LinedUp'
  <2>1. \A s \in Sources : Lined(s)'
    BY <1>k DEF LinedUp, Lined, Left
  <2>2. \A e : Between(e) => After(e)
    BY <1>k DEF Between, After, Left
  <2> QED
    BY <1>k, <2>1, <2>2, NextLine DEF LinedUp
<1> USE DEF control, sources, relays, writer
<1>1. ASSUME NEW s \in Sources, Push(s) PROVE LinedUp'
  BY <1>1, LinedPush
<1>2. ASSUME NEW s \in Sources, Subscribe(s) PROVE LinedUp'
  BY <1>2, <1>k DEF Subscribe, LinedUp
<1>3. CASE RegisterSSE \/ Respond
  BY <1>3, <1>k DEF RegisterSSE, Respond, LinedUp
<1>4. ASSUME NEW s \in Sources, Relay(s) PROVE LinedUp'
  <2>1. CASE RelayNotified(s) \/ RelayFoundEmpty(s) \/ RelayCancelled(s)
    BY <2>1, <1>k DEF RelayNotified, RelayFoundEmpty, RelayCancelled, Data, LinedUp
  <2> QED
    BY <1>4, <2>1, LinedPop, LinedMerge DEF Relay
<1>5. CASE WriterStarts \/ WriteFails \/ WriterFoundEmpty \/ WriterNotified
           \/ WriterCancelled \/ WriterReturns \/ WriteBlocks \/ WriteUnblocks
  BY <1>5, <1>k DEF WriterStarts, WriteFails, WriterFoundEmpty, WriterNotified,
     WriterCancelled, WriterReturns, WriteBlocks, WriteUnblocks, LinedUp
<1>6. CASE WriterCleansUp \/ FallbackCleansUp
  BY <1>6, <1>k DEF WriterCleansUp, FallbackCleansUp, CleanUp, LinedUp
<1>7. CASE FallbackReturns \/ FallbackFires \/ CancelStreams \/ ClientLeaves
  BY <1>7, <1>k DEF FallbackReturns, FallbackFires, CancelStreams, ClientLeaves, LinedUp
<1>8. CASE UNCHANGED vars
  BY <1>8, <1>k DEF vars, LinedUp
<1>9. CASE WriterPops \/ WriteSucceeds
  BY <1>9, LinedTake, LinedWrite
<1>10. CASE Spawn
  BY <1>10, <1>k DEF Spawn, LinedUp, CInv
<1> QED
  BY <1>1, <1>2, <1>3, <1>4, <1>5, <1>6, <1>7, <1>8, <1>9, <1>10
     DEF Next, Handler, Seed, Announce, Writer, Fallback

\* Under, by where an event is.
Here(s, n) ==
  \/ n \in Left(s) + 1 .. sent[s]
  \/ n = hand[s] /\ n # 0
  \/ \E i \in 1 .. Len(merged) : merged[i] = <<s, n>>
  \/ wire = <<s, n>>

LEMMA UnderIsHere ==
  Data /\ LinedUp => \A s \in Sources : \A n : n \in Under(s) <=> Here(s, n)
<1> SUFFICES ASSUME Data, LinedUp, NEW s \in Sources, NEW n
             PROVE  n \in Under(s) <=> Here(s, n)
  OBVIOUS
<1>1. DOMAIN buf[s] = 1 .. Len(buf[s]) /\ DOMAIN merged = 1 .. Len(merged)
  BY DEF Data
<1>2. n \in {buf[s][i] : i \in DOMAIN buf[s]} <=> n \in Left(s) + 1 .. sent[s]
  <2>1. \A i \in 1 .. Len(buf[s]) : buf[s][i] = Left(s) + i
    BY DEF LinedUp, Lined
  <2>2. Left(s) = sent[s] - Len(buf[s]) /\ Len(buf[s]) \in Nat /\ sent[s] \in Nat
    BY Numbered DEF Left
  <2>3. ASSUME n \in Left(s) + 1 .. sent[s]
        PROVE  n - Left(s) \in 1 .. Len(buf[s]) /\ n = buf[s][n - Left(s)]
    BY <2>1, <2>2, <2>3
  <2>4. ASSUME NEW i \in 1 .. Len(buf[s]) PROVE buf[s][i] \in Left(s) + 1 .. sent[s]
    BY <2>1, <2>2, <2>4
  <2> QED
    BY <1>1, <2>3, <2>4
<1>3. n \in {e[2] : e \in {f \in {wire} \cup {merged[i] : i \in DOMAIN merged} : f[1] = s}}
      <=> (\E i \in 1 .. Len(merged) : merged[i] = <<s, n>>) \/ wire = <<s, n>>
  <2>1. \A i \in 1 .. Len(merged) : merged[i] = <<merged[i][1], merged[i][2]>>
    BY Numbered
  <2>2. wire = <<wire[1], wire[2]>>
    BY Numbered DEF None
  <2> QED
    BY <1>1, <2>1, <2>2
<1> QED
  BY <1>2, <1>3 DEF Under, Here

LEMMA UnderIsHereNext ==
  Data' /\ LinedUp' => \A s \in Sources : \A n : n \in Under(s)' <=> Here(s, n)'
<1>1. (Data /\ LinedUp => \A s \in Sources : \A n : n \in Under(s) <=> Here(s, n))'
  BY UnderIsHere, PTL
<1> QED
  BY <1>1

LEMMA UnderFinite ==
  ASSUME Data, LinedUp, NEW s \in Sources
  PROVE  Under(s) \subseteq 1 .. sent[s] /\ IsFiniteSet(Under(s))
<1>0. /\ sent[s] \in Nat /\ last[s] \in Nat /\ hand[s] \in Nat /\ Left(s) \in Int
      /\ last[s] <= Left(s) /\ hand[s] <= Left(s) /\ Left(s) <= sent[s]
  BY Numbered DEF LinedUp, Lined, Left
<1>1. ASSUME NEW n, Here(s, n) PROVE n \in 1 .. sent[s]
  <2>1. CASE n \in Left(s) + 1 .. sent[s]
    BY <1>0, <2>1
  <2>2. CASE n = hand[s] /\ n # 0
    BY <1>0, <2>2
  <2>3. ASSUME NEW i \in 1 .. Len(merged), merged[i] = <<s, n>> PROVE n \in 1 .. sent[s]
    <3>1. merged[i][1] = s /\ merged[i][2] = n
      BY <2>3
    <3>2. n \in Nat
      BY <3>1, Numbered
    <3>3. Between(merged[i])
      BY DEF LinedUp
    <3> QED
      BY <1>0, <3>1, <3>2, <3>3 DEF Between
  <2>4. CASE wire = <<s, n>>
    <3>1. wire # None /\ wire[1] = s /\ wire[2] = n
      BY <2>4 DEF None, Sources
    <3>2. Between(wire) /\ n \in Nat
      BY <3>1, Numbered DEF LinedUp
    <3> QED
      BY <1>0, <3>1, <3>2 DEF Between
  <2> QED
    BY <1>1, <2>1, <2>2, <2>3, <2>4 DEF Here
<1>2. Under(s) \in SUBSET (1 .. sent[s])
  BY <1>1, UnderIsHere
<1>3. IsFiniteSet(1 .. sent[s])
  BY <1>0, FS_Interval
<1> QED
  BY <1>2, <1>3, FS_Subset

Pending == [s \in Sources |-> Under(s)]

\* A step after which every event is where it was, or at another place on its way.
LEMMA StaysUnder ==
  ASSUME Data, LinedUp, Data', LinedUp', UNCHANGED <<sent, last>>,
         \A s \in Sources : \A n : Here(s, n)' <=> Here(s, n)
  PROVE  UNCHANGED <<sent, Pending, last>>
<1>1. \A s \in Sources : Under(s)' = Under(s)
  BY UnderIsHere, UnderIsHereNext
<1> QED
  BY <1>1 DEF Pending

LEMMA PopStays ==
  ASSUME Data, LinedUp, Data', LinedUp', NEW s \in Sources, RelayPops(s)
  PROVE  UNCHANGED <<sent, Pending, last>>
<1>1. /\ \A t \in Sources \ {s} : buf'[t] = buf[t] /\ hand'[t] = hand[t]
      /\ hand[s] = 0 /\ UNCHANGED <<sent, merged, wire, last>>
  BY PopMoves
<1>3. Left(s)' = Left(s) + 1 /\ \A t \in Sources \ {s} : Left(t)' = Left(t)
  BY PopMoves
<1>4. hand'[s] = Left(s) + 1 /\ Left(s) \in Nat /\ Left(s) < sent[s] /\ sent[s] \in Nat
  BY PopMoves, Numbered
<1>5. ASSUME NEW t \in Sources, NEW n PROVE Here(t, n)' <=> Here(t, n)
  <2>1. CASE t = s
    <3>1. n \in Left(s)' + 1 .. sent'[s] \/ (n = hand'[s] /\ n # 0)
            <=> n \in Left(s) + 1 .. sent[s] \/ (n = hand[s] /\ n # 0)
      BY <1>1, <1>3, <1>4
    <3> QED
      BY <1>1, <2>1, <3>1 DEF Here
  <2>2. CASE t # s
    BY <1>1, <1>3, <2>2 DEF Here
  <2> QED
    BY <2>1, <2>2
<1> QED
  BY <1>1, <1>5, StaysUnder

LEMMA TakeStays ==
  ASSUME Data, LinedUp, Data', LinedUp', WriterPops
  PROVE  UNCHANGED <<sent, Pending, last>>
<1>1. wire' = merged[1] /\ wire = None /\ UNCHANGED <<buf, sent, hand, last>>
  BY TakeMoves
<1>2. /\ Len(merged') = Len(merged) - 1 /\ Len(merged) > 0
      /\ \A i \in 1 .. Len(merged) - 1 : merged'[i] = merged[i + 1]
  BY TakeMoves
<1>3. ASSUME NEW t \in Sources, NEW n PROVE Here(t, n)' <=> Here(t, n)
  <2>1. wire # <<t, n>>
    BY <1>1 DEF None, Sources
  <2>2. (\E i \in 1 .. Len(merged) : merged[i] = <<t, n>>) <=>
          (\E i \in 1 .. Len(merged') : merged'[i] = <<t, n>>) \/ wire' = <<t, n>>
    <3>1. ASSUME NEW i \in 1 .. Len(merged), i # 1
          PROVE  i - 1 \in 1 .. Len(merged') /\ merged'[i - 1] = merged[i]
      BY <1>2, <3>1, Numbered
    <3>2. ASSUME NEW i \in 1 .. Len(merged')
          PROVE  i + 1 \in 1 .. Len(merged) /\ merged'[i] = merged[i + 1]
      BY <1>2, <3>2, Numbered
    <3>3. 1 \in 1 .. Len(merged)
      BY <1>2, Numbered
    <3>4. ASSUME NEW i \in 1 .. Len(merged), merged[i] = <<t, n>>
          PROVE  (\E j \in 1 .. Len(merged') : merged'[j] = <<t, n>>) \/ wire' = <<t, n>>
      <4>1. CASE i = 1
        BY <1>1, <3>4, <4>1
      <4>2. CASE i # 1
        BY <3>1, <3>4, <4>2
      <4> QED
        BY <4>1, <4>2
    <3>5. ASSUME NEW i \in 1 .. Len(merged'), merged'[i] = <<t, n>>
          PROVE  \E j \in 1 .. Len(merged) : merged[j] = <<t, n>>
      BY <3>2, <3>5
    <3> QED
      BY <1>1, <3>3, <3>4, <3>5
  <2>3. Left(t)' = Left(t)
    BY <1>1 DEF Left
  <2> QED
    BY <1>1, <2>1, <2>2, <2>3 DEF Here
<1> QED
  BY <1>1, <1>3, StaysUnder

LEMMA WriteReceives ==
  ASSUME Data, LinedUp, Data', LinedUp', WriteSucceeds,
         NEW s \in Sources, NEW n \in Nat, wire = <<s, n>>
  PROVE  Promise!Receive(s)
<1>1. /\ wire # None /\ wire' = None /\ last' = [last EXCEPT ![s] = n]
      /\ s \in Sources /\ n \in Nat /\ wire = <<s, n>>
      /\ UNCHANGED <<buf, sent, hand, merged>>
  BY Numbered DEF WriteSucceeds, AfterWrite, sources, relays, LinedUp
<1>2. Between(wire) /\ \A i \in 1 .. Len(merged) : Precedes(wire, merged[i])
  BY <1>1 DEF LinedUp
<1>3. \A t : Left(t)' = Left(t)
  BY <1>1 DEF Left
<1>4. ASSUME NEW m, m # n, Here(s, m) PROVE m \in Int /\ n < m
  <2>0. n <= Left(s) /\ Left(s) \in Int /\ sent[s] \in Nat
    BY <1>1, <1>2, Numbered DEF Between
  <2>1. CASE m \in Left(s) + 1 .. sent[s]
    BY <1>1, <2>0, <2>1
  <2>2. CASE m = hand[s] /\ m # 0
    BY <1>1, <1>2, <2>2, Numbered DEF Between
  <2>3. ASSUME NEW i \in 1 .. Len(merged), merged[i] = <<s, m>> PROVE m \in Int /\ n < m
    <3>1. merged[i][1] = s /\ merged[i][2] = m /\ m \in Nat
      BY <2>3, Numbered
    <3> QED
      BY <1>1, <1>2, <3>1 DEF Precedes
  <2>4. wire # <<s, m>>
    BY <1>1, <1>4
  <2> QED
    BY <1>4, <2>1, <2>2, <2>3, <2>4 DEF Here
<1>5. n \in Under(s) /\ \A m \in Under(s) : n <= m
  <2>1. Here(s, n)
    BY <1>1 DEF Here
  <2>2. ASSUME NEW m \in Under(s) PROVE n <= m
    <3>1. Here(s, m)
      BY <1>1, UnderIsHere
    <3>2. CASE m = n
      BY <1>1, <3>2
    <3>3. CASE m # n
      BY <1>1, <1>4, <3>1, <3>3
    <3> QED
      BY <3>2, <3>3
  <2> QED
    BY <1>1, <2>1, <2>2, UnderIsHere
<1>6. ASSUME NEW t \in Sources, NEW m
      PROVE  Here(t, m)' <=> Here(t, m) /\ <<t, m>> # wire
  <2>1. wire' # <<t, m>>
    BY <1>1 DEF None, Sources
  <2>2. CASE <<t, m>> # wire
    BY <1>1, <1>3, <2>1, <2>2 DEF Here
  <2>3. CASE <<t, m>> = wire
    <3>1. t = s /\ m = n
      BY <1>1, <2>3
    <3>2. Left(s) \in Int /\ n <= Left(s) /\ sent[s] \in Nat
      BY <1>1, <1>2, Numbered DEF Between
    <3>3. n \notin Left(s) + 1 .. sent[s] /\ ~(n = hand[s] /\ n # 0)
      BY <1>1, <1>2, <3>2, Numbered DEF Between
    <3>4. \A i \in 1 .. Len(merged) : merged[i] # <<s, n>>
      BY <1>1, <1>2, Numbered DEF Precedes
    <3> QED
      BY <1>1, <1>3, <2>1, <2>3, <3>1, <3>3, <3>4 DEF Here
  <2> QED
    BY <2>2, <2>3
<1>7. Under(s)' = Under(s) \ {n} /\ \A t \in Sources \ {s} : Under(t)' = Under(t)
  <2>1. \A m : m \in Under(s)' <=> m \in Under(s) /\ m # n
    <3> SUFFICES ASSUME NEW m PROVE m \in Under(s)' <=> m \in Under(s) /\ m # n
      OBVIOUS
    <3>1. m \in Under(s)' <=> Here(s, m)'
      BY <1>1, UnderIsHereNext
    <3>2. m \in Under(s) <=> Here(s, m)
      BY <1>1, UnderIsHere
    <3>3. <<s, m>> # wire <=> m # n
      BY <1>1
    <3> QED
      BY <1>1, <1>6, <3>1, <3>2, <3>3
  <2>2. ASSUME NEW t \in Sources \ {s} PROVE Under(t)' = Under(t)
    <3>1. \A m : <<t, m>> # wire
      BY <1>1, <2>2
    <3>2. \A m : Here(t, m)' <=> Here(t, m)
      BY <1>6, <3>1
    <3> QED
      BY <3>2, UnderIsHere, UnderIsHereNext
  <2> QED
    BY <2>1, <2>2
<1>8. Pending' = [Pending EXCEPT ![s] = Pending[s] \ {n}] /\ Pending[s] = Under(s)
  BY <1>1, <1>7 DEF Pending
<1>9. n \in Promise!Oldest(s)
  BY <1>1, <1>5 DEF Promise!Oldest
<1> QED
  BY <1>1, <1>8, <1>9 DEF Promise!Receive, Pending

\* The instance has a copy of the standard module's definition.
LEMMA SameCardinality == \A S : Promise!Cardinality(S) = Cardinality(S)
BY Zenon DEF Promise!Cardinality, Cardinality

LEMMA PushSends ==
  ASSUME Data, LinedUp, Data', LinedUp', NEW s \in Sources, Push(s)
  PROVE  Promise!Send(s)
<1>1. PICK d \in {0, 1} :
        /\ d <= Len(buf[s]) /\ (d = 1 => Len(buf[s]) = Capacity[s])
        /\ Left(s)' = Left(s) + d
  BY PushMoves
<1>2. /\ sent' = [sent EXCEPT ![s] = sent[s] + 1] /\ sent'[s] = sent[s] + 1
      /\ \A t \in Sources \ {s} : sent'[t] = sent[t] /\ Left(t)' = Left(t)
      /\ UNCHANGED <<hand, merged, wire, last>>
  BY PushMoves
<1>3. /\ sent[s] \in Nat /\ Left(s) \in Int /\ Left(s) = sent[s] - Len(buf[s])
      /\ Len(buf[s]) \in Nat /\ Capacity[s] \in Nat \ {0}
  BY Numbered, CapacityAssumption DEF Left
<1> DEFINE oldest  == Left(s) + 1
           dropped == IF d = 1 THEN {oldest} ELSE {}
<1>4. \A t \in Sources \ {s} : Under(t)' = Under(t)
  <2> SUFFICES ASSUME NEW t \in Sources \ {s} PROVE \A n : Here(t, n)' <=> Here(t, n)
    BY UnderIsHere, UnderIsHereNext
  <2> QED
    BY <1>2 DEF Here
<1>5. ASSUME NEW n, n \notin Left(s) + 1 .. sent[s], Here(s, n) PROVE n \in Int /\ n < oldest
  <2>1. CASE n = hand[s] /\ n # 0
    BY <1>3, <2>1, Numbered DEF LinedUp, Lined
  <2>2. ASSUME NEW i \in 1 .. Len(merged), merged[i] = <<s, n>> PROVE n \in Int /\ n < oldest
    <3>1. merged[i][1] = s /\ merged[i][2] = n
      BY <2>2
    <3>2. n \in Nat
      BY <3>1, Numbered
    <3>3. Between(merged[i])
      BY DEF LinedUp
    <3> QED
      BY <1>3, <3>1, <3>2, <3>3 DEF Between
  <2>3. CASE wire = <<s, n>>
    <3>1. wire # None /\ wire[1] = s /\ wire[2] = n
      BY <2>3 DEF None, Sources
    <3>2. Between(wire) /\ n \in Nat
      BY <3>1, Numbered DEF LinedUp
    <3> QED
      BY <1>3, <3>1, <3>2 DEF Between
  <2> QED
    BY <1>5, <2>1, <2>2, <2>3 DEF Here
<1>6. ASSUME NEW n
      PROVE  Here(s, n)' <=> (Here(s, n) /\ n \notin dropped) \/ n = sent[s] + 1
  <2>1. n \in Left(s)' + 1 .. sent'[s] <=>
          (n \in Left(s) + 1 .. sent[s] /\ n \notin dropped) \/ n = sent[s] + 1
    BY <1>1, <1>2, <1>3
  <2>2. CASE n \in Left(s) + 1 .. sent[s] \/ n = sent[s] + 1
    <3>1. CASE n \in dropped
      <4>1. ~ Here(s, n)' \/ n = sent[s] + 1
        <5>1. n = oldest /\ d = 1
          BY <3>1
        <5>2. hand[s] <= Left(s) /\ hand[s] \in Nat
          BY Numbered DEF LinedUp, Lined
        <5>3. \A i \in 1 .. Len(merged) : merged[i] # <<s, n>>
          <6> SUFFICES ASSUME NEW i \in 1 .. Len(merged), merged[i] = <<s, n>> PROVE FALSE
            OBVIOUS
          <6>1. merged[i][1] = s /\ merged[i][2] = n
            OBVIOUS
          <6>2. Between(merged[i])
            BY DEF LinedUp
          <6> QED
            BY <1>3, <5>1, <6>1, <6>2 DEF Between
        <5>4. wire # <<s, n>>
          <6> SUFFICES ASSUME wire = <<s, n>> PROVE FALSE
            OBVIOUS
          <6>1. wire # None /\ wire[1] = s /\ wire[2] = n
            BY DEF None, Sources
          <6>2. Between(wire)
            BY <6>1 DEF LinedUp
          <6> QED
            BY <1>3, <5>1, <6>1, <6>2 DEF Between
        <5> QED
          BY <1>1, <1>2, <1>3, <2>1, <3>1, <5>1, <5>2, <5>3, <5>4 DEF Here
      <4> QED
        BY <1>2, <2>1, <3>1, <4>1 DEF Here
    <3>2. CASE n \notin dropped
      BY <1>2, <2>1, <2>2, <3>2 DEF Here
    <3> QED
      BY <3>1, <3>2
  <2>3. CASE ~(n \in Left(s) + 1 .. sent[s] \/ n = sent[s] + 1)
    <3>1. Here(s, n) => n \notin dropped
      BY <1>3, <1>5, <2>3
    <3> QED
      BY <1>2, <2>1, <2>3, <3>1 DEF Here
  <2> QED
    BY <2>2, <2>3
<1>7. Under(s)' = (Under(s) \ dropped) \cup {sent[s] + 1}
  <2>1. \A n : n \in Under(s)' <=> Here(s, n)'
    BY UnderIsHereNext
  <2>2. \A n : n \in Under(s) <=> Here(s, n)
    BY UnderIsHere
  <2> HIDE DEF dropped
  <2> QED
    BY <1>6, <2>1, <2>2
<1>8. Pending' = [Pending EXCEPT ![s] = (Pending[s] \ dropped) \cup {sent[s] + 1}]
      /\ Pending[s] = Under(s)
  <2> HIDE DEF dropped
  <2> QED
    BY <1>4, <1>7 DEF Pending
<1>9. Cardinality(dropped) <= 1
  BY FS_EmptySet, FS_Singleton
<1>10. dropped \in SUBSET Promise!Overrun(s)
  <2> SUFFICES ASSUME d = 1 PROVE oldest \in Promise!Overrun(s)
    OBVIOUS
  <2>1. Len(buf[s]) = Capacity[s] /\ oldest \in Left(s) + 1 .. sent[s]
    BY <1>1, <1>3
  <2> DEFINE newer == {m \in Under(s) : m > oldest}
  <2>2. oldest \in Under(s) /\ (oldest + 1) .. sent[s] \subseteq newer
    <3>1. \A n \in Left(s) + 1 .. sent[s] : n \in Under(s)
      BY UnderIsHere DEF Here
    <3> QED
      BY <1>3, <2>1, <3>1
  <2>3. IsFiniteSet(newer)
    BY UnderFinite, FS_Subset
  <2>4. Cardinality((oldest + 1) .. sent[s]) = Capacity[s] - 1
    <3>1. /\ oldest \in Int /\ sent[s] \in Int /\ Capacity[s] \in Nat \ {0}
          /\ sent[s] = oldest + Capacity[s] - 1
      BY <1>3, <2>1
    <3> HIDE DEF oldest
    <3>2. oldest + 1 \in Int
      BY <3>1
    <3>3. Cardinality((oldest + 1) .. sent[s]) =
            IF oldest + 1 > sent[s] THEN 0 ELSE sent[s] - (oldest + 1) + 1
      BY <3>1, <3>2, FS_Interval
    <3>4. CASE oldest + 1 > sent[s]
      <4>1. Cardinality((oldest + 1) .. sent[s]) = 0
        BY <3>3, <3>4
      <4>2. Capacity[s] = 1
        BY <3>1, <3>4
      <4> QED
        BY <4>1, <4>2
    <3>5. CASE ~(oldest + 1 > sent[s])
      <4>1. Cardinality((oldest + 1) .. sent[s]) = sent[s] - (oldest + 1) + 1
        BY <3>3, <3>5
      <4> QED
        BY <3>1, <4>1
    <3> QED
      BY <3>4, <3>5
  <2>5. Cardinality((oldest + 1) .. sent[s]) <= Cardinality(newer)
    BY <2>2, <2>3, FS_Subset
  <2>6. Cardinality(newer) \in Nat
    BY <2>3, FS_CardinalityType
  <2>7. Cardinality(newer) + 1 >= Capacity[s]
    BY <1>3, <2>4, <2>5, <2>6
  <2>8. newer = {m \in Pending[s] : m > oldest}
    BY <1>8
  <2>9. oldest \in Pending[s] /\ Cardinality({m \in Pending[s] : m > oldest}) + 1 >= Capacity[s]
    BY <1>8, <2>2, <2>7, <2>8
  <2> QED
    BY <2>9, SameCardinality DEF Promise!Overrun, Pending
<1> HIDE DEF dropped
<1>11. /\ sent' = [sent EXCEPT ![s] = @ + 1]
       /\ Pending' = [Pending EXCEPT ![s] = (Pending[s] \ dropped) \cup {sent[s] + 1}]
       /\ last' = last
  BY <1>2, <1>8
<1>12. Promise!Cardinality(dropped) <= 1
  BY <1>9, SameCardinality
<1> QED
  BY <1>10, <1>11, <1>12 DEF Promise!Send, Pending

\* A relay that finds the merged queue full loses its oldest event.
LEMMA BacklogFull ==
  ASSUME Data, LinedUp, NEW s \in Sources, hand[s] # 0, Len(merged) = MergedCapacity
  PROVE  Promise!Cardinality(Promise!Backlog) > MergedCapacity
<1> DEFINE event == <<s, hand[s]>>
           total == sent["sched"] + sent["display"]
           line  == [i \in 1 .. MergedCapacity + 1 |->
                       IF i <= MergedCapacity THEN merged[i] ELSE event]
<1>0. MergedCapacity \in Nat /\ hand[s] \in Nat
  BY CapacityAssumption, Numbered
<1>1. ASSUME NEW t \in Sources, NEW n \in Under(t) PROVE <<t, n>> \in Promise!Backlog
  BY <1>1 DEF Promise!Backlog
<1>2. ASSUME NEW t \in Sources PROVE Under(t) \subseteq 0 .. total
  <2>1. Under(t) \subseteq 1 .. sent[t]
    BY UnderFinite
  <2>2. sent["sched"] \in Nat /\ sent["display"] \in Nat /\ sent[t] <= total
    BY Numbered DEF Sources
  <2> QED
    BY <2>1, <2>2, Numbered
<1>3. IsFiniteSet(Promise!Backlog)
  <2>1. Promise!Backlog \in SUBSET (Sources \X (0 .. total))
    BY <1>2 DEF Promise!Backlog
  <2>2. IsFiniteSet(0 .. total)
    <3>1. total \in Int
      BY Numbered DEF Sources
    <3> QED
      BY <3>1, FS_Interval
  <2>3. IsFiniteSet(Sources)
    <3>1. Sources = {"sched"} \cup {"display"}
      BY DEF Sources
    <3> QED
      BY <3>1, FS_Singleton, FS_Union
  <2>4. IsFiniteSet(Sources \X (0 .. total))
    BY <2>2, <2>3, FS_Product
  <2> QED
    BY <2>1, <2>4, FS_Subset
<1>4. ASSUME NEW i \in 1 .. MergedCapacity
      PROVE  /\ merged[i][1] \in Sources /\ merged[i] = <<merged[i][1], merged[i][2]>>
             /\ merged[i] \in Promise!Backlog
  <2>1. merged[i][1] \in Sources /\ merged[i] = <<merged[i][1], merged[i][2]>>
    BY Numbered
  <2>2. merged[i][2] \in Under(merged[i][1])
    BY <2>1, UnderIsHere DEF Here
  <2>3. <<merged[i][1], merged[i][2]>> \in Promise!Backlog
    BY <1>1, <2>1, <2>2
  <2> QED
    BY <2>1, <2>3
<1>5. event \in Promise!Backlog
  <2>1. hand[s] \in Under(s)
    BY UnderIsHere DEF Here
  <2> QED
    BY <1>1, <2>1
<1>6. ASSUME NEW i \in 1 .. MergedCapacity, NEW j \in 1 .. MergedCapacity + 1, i < j
      PROVE  line[i] # line[j]
  <2>1. line[i] = merged[i] /\ Between(merged[i]) /\ merged[i][2] \in Nat
    BY <1>0, <1>6, Numbered DEF LinedUp
  <2>2. CASE j <= MergedCapacity
    <3>1. line[j] = merged[j] /\ merged[j][2] \in Nat /\ Precedes(merged[i], merged[j])
      BY <1>0, <1>6, <2>2, Numbered DEF LinedUp
    <3> QED
      BY <2>1, <3>1 DEF Precedes
  <2>3. CASE ~(j <= MergedCapacity)
    <3>1. line[j] = event
      BY <1>6, <2>3
    <3>2. merged[i] # event
      BY <1>0, <2>1 DEF Between
    <3> QED
      BY <2>1, <3>1, <3>2
  <2> QED
    BY <2>2, <2>3
<1>7. line \in Injection(1 .. MergedCapacity + 1, Promise!Backlog)
  <2>1. line \in [1 .. MergedCapacity + 1 -> Promise!Backlog]
    BY <1>0, <1>4, <1>5
  <2> HIDE DEF line
  <2>2. ASSUME NEW i \in 1 .. MergedCapacity + 1, NEW j \in 1 .. MergedCapacity + 1,
               line[i] = line[j]
        PROVE  i = j
    <3>1. CASE i < j
      BY <1>0, <1>6, <2>2, <3>1
    <3>2. CASE j < i
      BY <1>0, <1>6, <2>2, <3>2
    <3> QED
      BY <1>0, <3>1, <3>2
  <2> QED
    BY <2>1, <2>2, Fun_IsInj
<1>8. Cardinality(1 .. MergedCapacity + 1) <= Cardinality(Promise!Backlog)
  BY <1>3, <1>7, FS_Injection
<1>9. Cardinality(1 .. MergedCapacity + 1) = MergedCapacity + 1
  BY <1>0, FS_Interval
<1>10. Cardinality(Promise!Backlog) \in Nat
  BY <1>3, FS_CardinalityType
<1>11. Cardinality(Promise!Backlog) > MergedCapacity
  BY <1>0, <1>8, <1>9, <1>10
<1> QED
  BY <1>11, SameCardinality

\* The event in hand takes the last place of the merged queue.
LEMMA MergeKeeps ==
  ASSUME Data, LinedUp, NEW s \in Sources, RelayPushes(s),
         NEW d \in {0, 1}, d <= Len(merged), Len(merged') = Len(merged) - d + 1,
         \A i \in 1 .. Len(merged) - d : merged'[i] = merged[i + d],
         merged'[Len(merged')] = <<s, hand[s]>>,
         NEW t \in Sources, NEW n
  PROVE  Here(t, n)' <=> \/ n \in Left(t) + 1 .. sent[t]
                         \/ n = hand[t] /\ n # 0
                         \/ \E i \in 1 + d .. Len(merged) : merged[i] = <<t, n>>
                         \/ wire = <<t, n>>
<1>1. /\ \A u \in Sources \ {s} : hand'[u] = hand[u]
      /\ hand'[s] = 0 /\ hand[s] # 0 /\ UNCHANGED <<buf, sent, wire, last>>
      /\ \A u : Left(u)' = Left(u)
  BY MergeMoves
<1>2. Len(merged) \in Nat
  BY Numbered
<1>3. (\E i \in 1 .. Len(merged') : merged'[i] = <<t, n>>) <=>
        (\E i \in 1 + d .. Len(merged) : merged[i] = <<t, n>>) \/ <<s, hand[s]>> = <<t, n>>
  <2>1. ASSUME NEW i \in 1 .. Len(merged'), i # Len(merged')
        PROVE  i + d \in 1 + d .. Len(merged) /\ merged'[i] = merged[i + d]
    <3>1. i \in 1 .. Len(merged) - d
      BY <1>2, <2>1
    <3> QED
      BY <1>2, <3>1
  <2>2. ASSUME NEW i \in 1 + d .. Len(merged)
        PROVE  i - d \in 1 .. Len(merged') /\ merged'[i - d] = merged[i]
    <3>1. i - d \in 1 .. Len(merged) - d /\ (i - d) + d = i
      BY <1>2, <2>2
    <3> QED
      BY <1>2, <3>1
  <2>3. Len(merged') \in 1 .. Len(merged')
    BY <1>2
  <2>4. ASSUME NEW i \in 1 .. Len(merged'), merged'[i] = <<t, n>>
        PROVE  (\E j \in 1 + d .. Len(merged) : merged[j] = <<t, n>>)
               \/ <<s, hand[s]>> = <<t, n>>
    BY <2>1, <2>4
  <2> QED
    BY <2>2, <2>3, <2>4
<1>4. (n = hand'[t] /\ n # 0) \/ <<s, hand[s]>> = <<t, n>> <=> n = hand[t] /\ n # 0
  BY <1>1
<1> QED
  BY <1>1, <1>3, <1>4 DEF Here

\* A relay whose event does not fit loses the oldest one that is merged.  Older than it is
\* at most the one being written.
LEMMA MergeDrops ==
  ASSUME Data, LinedUp, Data', LinedUp', NEW s \in Sources, RelayPushes(s),
         Len(merged) = MergedCapacity, Len(merged) \in Nat \ {0},
         NEW t \in Sources, NEW n \in Nat, merged[1] = <<t, n>>,
         \A u \in Sources : \A m :
           Here(u, m)' <=> \/ m \in Left(u) + 1 .. sent[u]
                           \/ m = hand[u] /\ m # 0
                           \/ \E i \in 2 .. Len(merged) : merged[i] = <<u, m>>
                           \/ wire = <<u, m>>
  PROVE  Promise!Lose(t)
<1>1. 1 \in 1 .. Len(merged) /\ \A i \in 2 .. Len(merged) : i \in 1 .. Len(merged) /\ 1 < i
  OBVIOUS
<1>2. /\ n <= Left(t) /\ Left(t) \in Int /\ sent[t] \in Nat
      /\ hand[t] # 0 => n < hand[t]
      /\ hand[t] \in Nat
  <2>1. Between(merged[1]) /\ merged[1][1] = t /\ merged[1][2] = n
    BY <1>1 DEF LinedUp
  <2> QED
    BY <2>1, Numbered DEF Between
<1>3. ASSUME NEW i \in 2 .. Len(merged), NEW m, merged[i] = <<t, m>>
      PROVE  m \in Nat /\ n < m
  <2>1. merged[i][1] = t /\ merged[i][2] = m /\ merged[1][1] = t /\ merged[1][2] = n
    BY <1>3
  <2>2. Precedes(merged[1], merged[i])
    BY <1>1 DEF LinedUp
  <2> QED
    BY <1>1, <2>1, <2>2, Numbered DEF Precedes
<1>4. wire # <<t, n>>
  <2> SUFFICES ASSUME wire = <<t, n>> PROVE FALSE
    OBVIOUS
  <2>1. wire # None /\ wire[1] = t /\ wire[2] = n /\ merged[1][1] = t /\ merged[1][2] = n
    BY DEF None, Sources
  <2>2. Precedes(wire, merged[1])
    BY <1>1, <2>1 DEF LinedUp
  <2> QED
    BY <2>1, <2>2 DEF Precedes
<1>5. ASSUME NEW u \in Sources, NEW m
      PROVE  Here(u, m)' <=> Here(u, m) /\ ~(u = t /\ m = n)
  <2>1. (\E i \in 1 .. Len(merged) : merged[i] = <<u, m>>) <=>
          (\E i \in 2 .. Len(merged) : merged[i] = <<u, m>>) \/ (u = t /\ m = n)
    <3>1. \A i \in 1 .. Len(merged) : i = 1 \/ i \in 2 .. Len(merged)
      OBVIOUS
    <3>2. merged[1] = <<u, m>> <=> u = t /\ m = n
      OBVIOUS
    <3> QED
      BY <1>1, <3>1, <3>2
  <2>2. CASE u = t /\ m = n
    <3>1. ~(m \in Left(u) + 1 .. sent[u]) /\ ~(m = hand[u] /\ m # 0)
      BY <1>2, <2>2
    <3>2. \A i \in 2 .. Len(merged) : merged[i] # <<u, m>>
      BY <1>3, <2>2
    <3> QED
      BY <1>4, <2>2, <3>1, <3>2
  <2>3. CASE ~(u = t /\ m = n)
    BY <2>1, <2>3 DEF Here
  <2> QED
    BY <2>2, <2>3
<1>6. Under(t)' = Under(t) \ {n} /\ \A u \in Sources \ {t} : Under(u)' = Under(u)
  <2>1. \A u \in Sources : \A m : m \in Under(u)' <=> m \in Under(u) /\ ~(u = t /\ m = n)
    BY <1>5, UnderIsHere, UnderIsHereNext
  <2> QED
    BY <2>1
<1>7. Pending' = [Pending EXCEPT ![t] = Pending[t] \ {n}] /\ Pending[t] = Under(t)
  BY <1>6 DEF Pending
<1>8. ASSUME NEW m \in Under(t), m < n PROVE m = wire[2]
  <2>1. Here(t, m) /\ m \in Nat
    BY UnderIsHere, UnderFinite, <1>2
  <2>2. m \notin Left(t) + 1 .. sent[t] /\ ~(m = hand[t] /\ m # 0)
    BY <1>2, <1>8, <2>1
  <2>3. \A i \in 1 .. Len(merged) : merged[i] # <<t, m>>
    <3> SUFFICES ASSUME NEW i \in 1 .. Len(merged), merged[i] = <<t, m>> PROVE FALSE
      OBVIOUS
    <3>1. CASE i = 1
      BY <1>8, <3>1
    <3>2. CASE i # 1
      <4>1. i \in 2 .. Len(merged)
        BY <3>2
      <4>2. n < m
        BY <1>3, <4>1
      <4> QED
        BY <1>8, <2>1, <4>2
    <3> QED
      BY <3>1, <3>2
  <2>4. wire = <<t, m>>
    BY <2>1, <2>2, <2>3 DEF Here
  <2> QED
    BY <2>4
<1>9. Cardinality({m \in Under(t) : m < n}) <= 1
  <2>1. {m \in Under(t) : m < n} \subseteq {wire[2]}
    BY <1>8
  <2>2. IsFiniteSet({wire[2]}) /\ Cardinality({wire[2]}) = 1
    BY FS_Singleton
  <2>3. Cardinality({m \in Under(t) : m < n}) <= Cardinality({wire[2]})
    BY <2>1, <2>2, FS_Subset
  <2> QED
    BY <2>2, <2>3
<1>10. n \in Under(t)
  BY <1>1, UnderIsHere DEF Here
<1>11. n \in Promise!NextTwo(t)
  <2>1. Promise!Cardinality({m \in Under(t) : m < n}) <= 1
    BY <1>9, SameCardinality
  <2> QED
    BY <1>10, <2>1 DEF Promise!NextTwo
<1>12. Promise!Cardinality(Promise!Backlog) > MergedCapacity
  BY BacklogFull, MergeMoves
<1>13. UNCHANGED <<sent, last>>
  BY MergeMoves
<1> QED
  BY <1>7, <1>11, <1>12, <1>13 DEF Promise!Lose, Pending

LEMMA MergeLoses ==
  ASSUME Data, LinedUp, Data', LinedUp', NEW s \in Sources, RelayPushes(s)
  PROVE  UNCHANGED <<sent, Pending, last>> \/ \E t \in Sources : Promise!Lose(t)
<1>1. PICK d \in {0, 1} :
        /\ d <= Len(merged) /\ (d = 1 => Len(merged) = MergedCapacity)
        /\ Len(merged') = Len(merged) - d + 1
        /\ \A i \in 1 .. Len(merged) - d : merged'[i] = merged[i + d]
        /\ merged'[Len(merged')] = <<s, hand[s]>>
  BY MergeMoves
<1>2. ASSUME NEW t \in Sources, NEW n
      PROVE  Here(t, n)' <=> \/ n \in Left(t) + 1 .. sent[t]
                             \/ n = hand[t] /\ n # 0
                             \/ \E i \in 1 + d .. Len(merged) : merged[i] = <<t, n>>
                             \/ wire = <<t, n>>
  BY <1>1, MergeKeeps
<1>3. CASE d = 0
  <2>0. 1 + d = 1
    BY <1>3
  <2>1. ASSUME NEW t \in Sources, NEW n PROVE Here(t, n)' <=> Here(t, n)
    <3>1. Here(t, n)' <=> \/ n \in Left(t) + 1 .. sent[t]
                          \/ n = hand[t] /\ n # 0
                          \/ \E i \in 1 .. Len(merged) : merged[i] = <<t, n>>
                          \/ wire = <<t, n>>
      BY <1>2, <2>0
    <3> QED
      BY <3>1 DEF Here
  <2>2. UNCHANGED <<sent, last>>
    BY MergeMoves
  <2> QED
    BY <2>1, <2>2, StaysUnder
<1>4. CASE d = 1
  <2>1. Len(merged) = MergedCapacity /\ Len(merged) \in Nat \ {0} /\ 1 \in 1 .. Len(merged)
    BY <1>1, <1>4, Numbered
  <2>2. PICK t \in Sources, n \in Nat : merged[1] = <<t, n>>
    BY <2>1, Numbered
  <2>0. 1 + d = 2
    BY <1>4
  <2>3. ASSUME NEW u \in Sources, NEW m
        PROVE  Here(u, m)' <=> \/ m \in Left(u) + 1 .. sent[u]
                               \/ m = hand[u] /\ m # 0
                               \/ \E i \in 2 .. Len(merged) : merged[i] = <<u, m>>
                               \/ wire = <<u, m>>
    BY <1>2, <2>0
  <2> QED
    BY <2>1, <2>2, <2>3, MergeDrops
<1> QED
  BY <1>3, <1>4

LEMMA StepRefines ==
  ASSUME CInv, Data, LinedUp, [Next]_vars
  PROVE  [Promise!Next]_<<sent, Pending, last>>
<1>0. Data' /\ LinedUp'
  BY DataKept, LinedKept
<1>k. ASSUME UNCHANGED <<buf, sent, hand, merged, wire, last>>
      PROVE  UNCHANGED <<sent, Pending, last>>
  <2>1. \A s \in Sources : \A n : Here(s, n)' <=> Here(s, n)
    BY <1>k DEF Here, Left
  <2> QED
    BY <1>0, <1>k, <2>1, StaysUnder
<1> USE DEF control, sources, relays, writer
<1>1. ASSUME NEW s \in Sources, Push(s) PROVE Promise!Next
  BY <1>0, <1>1, PushSends DEF Promise!Next
<1>2. ASSUME NEW s \in Sources, RelayPushes(s)
      PROVE  UNCHANGED <<sent, Pending, last>> \/ Promise!Next
  BY <1>0, <1>2, MergeLoses DEF Promise!Next
<1>3. CASE WriteSucceeds
  <2>1. wire # None
    BY <1>3 DEF WriteSucceeds, AfterWrite, LinedUp
  <2>2. PICK s \in Sources, n \in Nat : wire = <<s, n>>
    BY <2>1, Numbered
  <2> QED
    BY <1>0, <1>3, <2>2, WriteReceives DEF Promise!Next
<1>4. CASE WriterPops
  BY <1>0, <1>4, TakeStays
<1>5. ASSUME NEW s \in Sources, RelayPops(s) PROVE UNCHANGED <<sent, Pending, last>>
  BY <1>0, <1>5, PopStays
<1>6. ASSUME NEW s \in Sources,
             \/ Subscribe(s) \/ RelayNotified(s) \/ RelayFoundEmpty(s) \/ RelayCancelled(s)
      PROVE  UNCHANGED <<sent, Pending, last>>
  BY <1>6, <1>k DEF Subscribe, RelayNotified, RelayFoundEmpty, RelayCancelled
<1>7. CASE RegisterSSE \/ Spawn \/ Respond
  BY <1>7, <1>k DEF RegisterSSE, Spawn, Respond
<1>8. CASE WriterStarts \/ WriteFails \/ WriterFoundEmpty \/ WriterNotified
           \/ WriterCancelled \/ WriterReturns \/ WriteBlocks \/ WriteUnblocks
  BY <1>8, <1>k DEF WriterStarts, WriteFails, WriterFoundEmpty, WriterNotified,
     WriterCancelled, WriterReturns, WriteBlocks, WriteUnblocks
<1>9. CASE WriterCleansUp \/ FallbackCleansUp
  BY <1>9, <1>k DEF WriterCleansUp, FallbackCleansUp, CleanUp
<1>10. CASE FallbackReturns \/ FallbackFires \/ CancelStreams \/ ClientLeaves
  BY <1>10, <1>k DEF FallbackReturns, FallbackFires, CancelStreams, ClientLeaves
<1>11. CASE UNCHANGED vars
  BY <1>11, <1>k DEF vars
<1> QED
  BY <1>1, <1>2, <1>3, <1>4, <1>5, <1>6, <1>7, <1>8, <1>9, <1>10, <1>11
     DEF Next, Handler, Seed, Announce, Relay, Writer, Fallback

LEMMA StartsEmpty == Init => Promise!Init
<1> SUFFICES ASSUME Init PROVE Promise!Init
  OBVIOUS
<1>1. ASSUME NEW s \in Sources PROVE Under(s) = {}
  <2>1. ASSUME NEW n PROVE ~ Here(s, n)
    <3>1. Left(s) = 0 /\ sent[s] = 0 /\ hand[s] = 0 /\ Len(merged) = 0 /\ wire # <<s, n>>
      BY DEF Init, Left, None, Sources
    <3> QED
      BY <3>1 DEF Here
  <2> QED
    BY <2>1, DataInit, LinedInit, UnderIsHere
<1> QED
  BY <1>1 DEF Init, Promise!Init

\* The stream implements LossyStream: per source in order, at most once, and lossy only to
\* a backlog, whatever the sizes of its queues and the interleaving of its goroutines.
THEOREM StreamIsLossyStream == Spec => ImplementsLossyStream
<1>1. Init => CInv /\ Data /\ LinedUp /\ Promise!Init
  BY ControlInit, DataInit, LinedInit, StartsEmpty
<1>2. CInv /\ Data /\ LinedUp /\ [Next]_vars => CInv' /\ Data' /\ LinedUp'
  BY ControlKept, DataKept, LinedKept
<1>3. CInv /\ Data /\ LinedUp /\ [Next]_vars
        => [Promise!Next]_<<sent, [s \in Sources |-> Under(s)], last>>
  BY StepRefines DEF Pending
<1> QED
  BY <1>1, <1>2, <1>3, PTL DEF Spec, ImplementsLossyStream, Promise!Spec

-----------------------------------------------------------------------------
(* What the end of a stream leaves behind, and what keeps it from stalling. *)

\* Who has come to the end of its cleanup has left nothing registered; what is left to
\* somebody else is what LeftToWriter names.
EndsClean ==
  wpc = "done" \/ (wpc = "off" /\ fpc = "done" /\ ~LeftToWriter)
    => subs = {} /\ ~registered /\ cancelled

\* How far a cleanup has come says what it has undone; nothing is subscribed or
\* registered again behind it.
EInv ==
  /\ cleanup["writer"] \in {W1, W2, W3, <<>>} => "display" \notin subs
  /\ cleanup["writer"] \in {W2, W3, <<>>} => "sched" \notin subs
  /\ cleanup["writer"] \in {W3, <<>>} => ~registered
  /\ cleanup["fallback"] \in {F2, F3, <<>>} => "sched" \notin subs
  /\ cleanup["fallback"] \in {F3, <<>>} => "display" \notin subs
  /\ cleanup["fallback"] = <<>> => ~registered
  /\ wpc = "done" => cleanup["writer"] = <<>>
  /\ fpc \in {"off", "sleep"} => cleanup["fallback"] = F0
  /\ fpc = "done" => cleanup["fallback"] \in {F0, <<>>}
  /\ hpc \notin {"respond", "returned"} => fpc = "off"

LEMMA FurtherDistinct ==
  /\ F1 # F2 /\ F1 # F3 /\ F2 # F3 /\ F0 # <<>> /\ F0 \notin {F1, F2, F3}
  /\ W0 # <<>> /\ W0 \notin {W1, W2, W3}
BY DEF W0, W1, W2, W3, F0, F1, F2, F3, WriterCleanup, FallbackCleanup

LEMMA EndsInit == Init => EInv
<1>1. Init => cleanup["writer"] = W0 /\ cleanup["fallback"] = F0
  BY DEF Init, W0, F0
<1> QED
  BY <1>1, Distinct, FurtherDistinct DEF Init, EInv

LEMMA EndsKept == CInv /\ EInv /\ [Next]_vars => EInv'
<1> SUFFICES ASSUME CInv, EInv, [Next]_vars PROVE EInv'
  OBVIOUS
<1> USE DEF EInv, control, sources, relays, writer
<1>1. ASSUME NEW s \in Sources, Push(s) \/ Relay(s) PROVE EInv'
  BY <1>1 DEF Push, Relay, RelayNotified, RelayPops, RelayPushes, RelayFoundEmpty,
              RelayCancelled
<1>2. CASE RegisterSSE \/ \E s \in Sources : Subscribe(s)
  <2>1. hpc \in {"sched", "display", "register"}
    BY <1>2 DEF RegisterSSE, Subscribe, Sources
  <2>2. cleanup["writer"] = W0 /\ cleanup["fallback"] = F0 /\ wpc = "off" /\ fpc = "off"
    BY <2>1 DEF CInv, SetUp
  <2>3. UNCHANGED <<cleanup, wpc, fpc>>
    BY <1>2 DEF RegisterSSE, Subscribe
  <2> QED
    BY <2>2, <2>3, Distinct, FurtherDistinct
<1>3. CASE Spawn \/ Respond
  BY <1>3 DEF Spawn, Respond
<1>4. CASE WriterStarts \/ WriterPops \/ WriteSucceeds \/ WriteFails \/ WriterFoundEmpty
           \/ WriterNotified \/ WriterCancelled \/ WriterReturns
  BY <1>4 DEF WriterStarts, WriterPops, WriteSucceeds, AfterWrite, WriteFails,
              WriterFoundEmpty, WriterNotified, WriterCancelled, WriterReturns
<1>5. CASE WriteBlocks \/ WriteUnblocks
  BY <1>5 DEF WriteBlocks, WriteUnblocks
<1>6. CASE WriterCleansUp
  BY <1>6, Calls, Distinct, FurtherDistinct DEF WriterCleansUp, CleanUp, CInv
<1>7. CASE FallbackCleansUp
  BY <1>7, Calls, Distinct, FurtherDistinct DEF FallbackCleansUp, CleanUp, CInv
<1>8. CASE FallbackReturns \/ FallbackFires
  BY <1>8 DEF FallbackReturns, FallbackFires
<1>9. CASE CancelStreams \/ ClientLeaves \/ UNCHANGED vars
  BY <1>9 DEF CancelStreams, ClientLeaves, vars
<1> QED
  BY <1>1, <1>2, <1>3, <1>4, <1>5, <1>6, <1>7, <1>8, <1>9
     DEF Next, Handler, Seed, Announce, Writer, Fallback

\* Once a stream's writer has returned, or its fallback instead of it, no source and no
\* registry holds the stream, and its relays are told to end: nothing leaks but in the
\* cases that StreamEnds excepts, a blocked write and LeftToWriter.
THEOREM StreamLeavesNothing == Spec => []EndsClean
<1>1. CInv /\ EInv => EndsClean
  <2> SUFFICES ASSUME CInv, EInv,
                      wpc = "done" \/ (wpc = "off" /\ fpc = "done" /\ ~LeftToWriter)
               PROVE  subs = {} /\ ~registered /\ cancelled
    BY DEF EndsClean
  <2>1. cleanup["writer"] = <<>> \/ cleanup["fallback"] = <<>>
    BY DEF EInv, LeftToWriter, F0
  <2>2. subs \subseteq {"sched", "display"}
    BY DEF CInv, Sources
  <2> QED
    BY <2>1, <2>2, Distinct, FurtherDistinct DEF CInv, EInv
<1> QED
  BY <1>1, ControlInit, ControlKept, EndsInit, EndsKept, PTL DEF Spec

\* What makes NothingStuck possible: a relay that waits for its source, and a writer
\* that waits for the relays, has a notification left for whatever is in its queue.
NotificationKept ==
  /\ \A s \in Sources : rpc[s] \in {"off", "wait"} /\ buf[s] # <<>> => token[s]
  /\ wpc = "select" \/ (wpc = "blocked" /\ wire = None) => (merged # <<>> => mtoken)

NInv == NotificationKept /\ (wpc = "write" => wire # None)

LEMMA NotificationStays == CInv /\ Data /\ NInv /\ [Next]_vars => NInv'
<1> SUFFICES ASSUME CInv, Data, NInv, [Next]_vars PROVE NInv'
  OBVIOUS
<1> USE DEF NInv, NotificationKept, control, sources, relays, writer
<1>d. /\ token \in [Sources -> BOOLEAN] /\ DOMAIN buf = Sources /\ DOMAIN rpc = Sources
      /\ (\A s \in Sources : rpc[s] # "off") \/ (\A s \in Sources : rpc[s] = "off")
                                             \/ hpc \in {"respond", "returned"}
  BY DEF Data, CInv
<1>1. ASSUME NEW s \in Sources, Push(s) PROVE NInv'
  BY <1>1, <1>d DEF Push
<1>2. ASSUME NEW s \in Sources, RelayPushes(s) PROVE NInv'
  BY <1>2, <1>d DEF RelayPushes
<1>3. ASSUME NEW s \in Sources, RelayPops(s) PROVE NInv'
  BY <1>3, <1>d DEF RelayPops
<1>4. ASSUME NEW s \in Sources,
             RelayNotified(s) \/ RelayFoundEmpty(s) \/ RelayCancelled(s)
      PROVE  NInv'
  BY <1>4, <1>d DEF RelayNotified, RelayFoundEmpty, RelayCancelled
<1>5. CASE Spawn
  <2>1. \A s \in Sources : rpc[s] = "off"
    BY <1>5 DEF Spawn, CInv
  <2> QED
    BY <1>5, <2>1 DEF Spawn
<1>6. CASE RegisterSSE \/ Respond \/ \E s \in Sources : Subscribe(s)
  BY <1>6 DEF RegisterSSE, Respond, Subscribe
<1>7. CASE WriterPops
  <2>1. wpc' = "write" /\ UNCHANGED <<rpc, buf, token>> /\ wire' = Head(merged)
    BY <1>7 DEF WriterPops
  <2>2. Head(merged) \in Sources \X Nat
    BY <1>7 DEF WriterPops, Data
  <2>3. None \notin Sources \X Nat
    BY DEF None, Sources
  <2> QED
    BY <2>1, <2>2, <2>3
<1>8. CASE WriterStarts \/ WriteSucceeds \/ WriteFails \/ WriterFoundEmpty
           \/ WriterNotified \/ WriterCancelled \/ WriterReturns
  BY <1>8 DEF WriterStarts, WriteSucceeds, AfterWrite, WriteFails, WriterFoundEmpty,
              WriterNotified, WriterCancelled, WriterReturns
<1>9. CASE WriteUnblocks
  BY <1>9 DEF WriteUnblocks
<1>10. CASE WriteBlocks
  BY <1>10 DEF WriteBlocks
<1>11. CASE WriterCleansUp \/ FallbackCleansUp
  BY <1>11 DEF WriterCleansUp, FallbackCleansUp, CleanUp
<1>12. CASE FallbackReturns \/ FallbackFires \/ CancelStreams \/ ClientLeaves
  BY <1>12 DEF FallbackReturns, FallbackFires, CancelStreams, ClientLeaves
<1>13. CASE UNCHANGED vars
  BY <1>13 DEF vars
<1> QED
  BY <1>1, <1>2, <1>3, <1>4, <1>5, <1>6, <1>7, <1>8, <1>9, <1>10, <1>11, <1>12, <1>13
     DEF Next, Handler, Seed, Announce, Relay, Writer, Fallback

\* No event of a stream waits for a notification that has been consumed.
THEOREM NotificationsReachQueues == Spec => []NotificationKept
<1>1. Init => NInv
  BY DEF Init, NInv, NotificationKept
<1>2. NInv => NotificationKept
  BY DEF NInv
<1> QED
  BY <1>1, <1>2, ControlInit, ControlKept, DataInit, DataKept, NotificationStays, PTL DEF Spec
=============================================================================
