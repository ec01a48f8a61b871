----------------------------- MODULE QueueProofs -----------------------------
(***************************************************************************)
(* Queue keeps its promises for every capacity and any set of producers.   *)
(***************************************************************************)
EXTENDS Queue, SequenceTheorems, TLAPS

LEMMA StepsTyped == TypeOK /\ [Next]_vars => TypeOK'
<1> SUFFICES ASSUME TypeOK, [Next]_vars PROVE TypeOK' OBVIOUS
<1> USE CapacityAssumption DEF TypeOK
<1>1. ASSUME NEW p \in Producers, Push(p) PROVE TypeOK'
  <2>1. CASE Len(buf) < Capacity
    BY <1>1, <2>1 DEF Push
  <2>2. CASE Len(buf) = Capacity
    <3>1. buf # <<>> /\ Tail(buf) \in Seq(Nat) /\ Len(Tail(buf)) = Capacity - 1
      BY <2>2
    <3> QED
      BY <1>1, <2>2, <3>1 DEF Push, DropOldest
  <2> QED
    BY <2>1, <2>2
<1>2. ASSUME NEW p \in Producers, Signal(p) PROVE TypeOK'
  BY <1>2 DEF Signal
<1>3. CASE Notified BY <1>3 DEF Notified
<1>4. CASE Pop
  <2>1. Head(buf) \in Nat /\ Tail(buf) \in Seq(Nat) /\ Len(Tail(buf)) = Len(buf) - 1
    BY <1>4 DEF Pop
  <2> QED
    BY <1>4, <2>1 DEF Pop, AfterPop
<1>5. CASE FoundEmpty BY <1>5 DEF FoundEmpty
<1>6. CASE Cancel BY <1>6 DEF Cancel
<1>7. CASE UNCHANGED vars BY <1>7 DEF vars
<1> QED
  BY <1>1, <1>2, <1>3, <1>4, <1>5, <1>6, <1>7 DEF Next, Consume

\* The queue never holds more than its capacity.
THEOREM QueueTyped == Spec => []TypeOK
<1>1. Init => TypeOK
  <2> SUFFICES ASSUME Init PROVE TypeOK OBVIOUS
  <2>1. buf \in Seq(Nat) /\ Len(buf) = 0
    BY DEF Init
  <2>2. Len(buf) <= Capacity
    BY <2>1, CapacityAssumption
  <2> QED
    BY <2>1, <2>2 DEF Init, TypeOK
<1> QED
  BY <1>1, StepsTyped, PTL DEF Spec

-----------------------------------------------------------------------------
\* No buffered event waits behind a consumer that nobody is going to notify.
THEOREM NotificationNeverLost == Spec => []NoLostNotification
<1>1. Init => NoLostNotification
  BY DEF Init, NoLostNotification
<1>2. TypeOK /\ NoLostNotification /\ [Next]_vars => NoLostNotification'
  BY DEF TypeOK, NoLostNotification, Next, Push, Signal, Consume, Notified, Pop,
     AfterPop, FoundEmpty, Cancel, vars
<1> QED
  BY <1>1, <1>2, QueueTyped, PTL DEF Spec

-----------------------------------------------------------------------------
(* Refinement.  The buffer holds the newest events, and a gap between the   *)
(* event received last and the oldest buffered one is there only while the  *)
(* queue is full.                                                           *)

Oldest == sent - Len(buf)

Contents ==
  /\ Len(buf) <= sent /\ last <= Oldest
  /\ \A i \in 1 .. Len(buf) : buf[i] = Oldest + i
  /\ last < Oldest => Len(buf) = Capacity

LEMMA StepsKeepContents == TypeOK /\ Contents /\ [Next]_vars => Contents'
<1> SUFFICES ASSUME TypeOK, Contents, [Next]_vars PROVE Contents' OBVIOUS
<1>0. Len(buf) \in Nat /\ sent \in Nat /\ last \in Nat /\ Capacity \in Nat \ {0}
  BY CapacityAssumption, LenProperties DEF TypeOK
<1>1. ASSUME NEW p \in Producers, Push(p), Len(buf) < Capacity PROVE Contents'
  <2>1. buf' = Append(buf, sent + 1) /\ sent' = sent + 1 /\ last' = last
    BY <1>1 DEF Push
  <2>2. buf \in Seq(Nat) /\ sent + 1 \in Nat
    BY <1>0 DEF TypeOK
  <2>3. /\ Len(buf') = Len(buf) + 1 /\ buf'[Len(buf) + 1] = sent + 1
        /\ \A i \in 1 .. Len(buf) : buf'[i] = buf[i]
    BY <2>1, <2>2, AppendProperties
  <2>4. \A i \in 1 .. Len(buf) : buf[i] = sent - Len(buf) + i
    BY DEF Contents, Oldest
  <2>5. \A i \in 1 .. Len(buf) + 1 : buf'[i] = sent - Len(buf) + i
    <3> SUFFICES ASSUME NEW i \in 1 .. Len(buf) + 1
                 PROVE  buf'[i] = sent - Len(buf) + i
      OBVIOUS
    <3>1. CASE i = Len(buf) + 1
      BY <1>0, <2>3, <3>1
    <3>2. CASE i \in 1 .. Len(buf)
      BY <2>3, <2>4, <3>2
    <3> QED
      BY <1>0, <3>1, <3>2
  <2> QED
    BY <1>0, <1>1, <2>1, <2>3, <2>5 DEF Contents, Oldest
<1>2. ASSUME NEW p \in Producers, Push(p), Len(buf) = Capacity PROVE Contents'
  <2>1. buf' = Append(Tail(buf), sent + 1) /\ sent' = sent + 1 /\ last' = last
    BY <1>0, <1>2 DEF Push, DropOldest
  <2>2. buf \in Seq(Nat) /\ buf # <<>> /\ sent + 1 \in Nat
    BY <1>0, <1>2 DEF TypeOK
  <2>3. /\ Tail(buf) \in Seq(Nat) /\ Len(Tail(buf)) = Len(buf) - 1
        /\ \A i \in 1 .. Len(buf) - 1 : Tail(buf)[i] = buf[i + 1]
    BY <2>2, HeadTailProperties
  <2>4. /\ Len(buf') = Len(buf) - 1 + 1 /\ buf'[Len(buf) - 1 + 1] = sent + 1
        /\ \A i \in 1 .. Len(buf) - 1 : buf'[i] = Tail(buf)[i]
    BY <2>1, <2>2, <2>3, AppendProperties
  <2>5. \A i \in 1 .. Len(buf) : buf[i] = sent - Len(buf) + i
    BY DEF Contents, Oldest
  <2>6. Len(buf') = Len(buf) /\ buf'[Len(buf)] = sent + 1
    BY <1>0, <2>4
  <2>7. \A i \in 1 .. Len(buf) : buf'[i] = sent + 1 - Len(buf) + i
    <3> SUFFICES ASSUME NEW i \in 1 .. Len(buf)
                 PROVE  buf'[i] = sent + 1 - Len(buf) + i
      OBVIOUS
    <3>1. CASE i = Len(buf)
      BY <1>0, <2>6, <3>1
    <3>2. CASE i \in 1 .. Len(buf) - 1
      <4>1. buf'[i] = buf[i + 1] /\ i + 1 \in 1 .. Len(buf)
        BY <1>0, <2>3, <2>4, <3>2
      <4> QED
        BY <1>0, <2>5, <3>2, <4>1
    <3> QED
      BY <1>0, <3>1, <3>2
  <2> QED
    <3>1. sent' = sent + 1 /\ last' = last
      BY <2>1
    <3>2. Len(buf) <= sent /\ last <= sent - Len(buf)
      BY DEF Contents, Oldest
    <3> QED
      BY <1>0, <1>2, <2>6, <2>7, <3>1, <3>2 DEF Contents, Oldest
<1>3. CASE Pop
  <2>1. /\ buf \in Seq(Nat) /\ buf # <<>>
        /\ last' = Head(buf) /\ buf' = Tail(buf) /\ sent' = sent
    BY <1>3 DEF Pop, TypeOK
  <2>2. /\ Len(buf') = Len(buf) - 1 /\ last' = buf[1] /\ Len(buf) > 0
        /\ \A i \in 1 .. Len(buf) - 1 : buf'[i] = buf[i + 1]
    BY <1>0, <2>1, HeadTailProperties, EmptySeq
  <2>3. \A i \in 1 .. Len(buf) : buf[i] = sent - Len(buf) + i
    BY DEF Contents, Oldest
  <2>4. last' = sent - Len(buf) + 1
    BY <1>0, <2>2, <2>3
  <2>5. \A i \in 1 .. Len(buf) - 1 : buf'[i] = sent - Len(buf) + 1 + i
    BY <1>0, <2>2, <2>3
  <2>6. Len(buf) <= sent
    BY DEF Contents
  <2> QED
    <3>1. sent' = sent
      BY <2>1
    <3> QED
      BY <1>0, <2>2, <2>4, <2>5, <2>6, <3>1 DEF Contents, Oldest
<1>4. CASE UNCHANGED <<buf, sent, last>>
  BY <1>4 DEF Contents, Oldest
<1>5. Len(buf) <= Capacity
  BY DEF TypeOK
<1> QED
  BY <1>0, <1>1, <1>2, <1>3, <1>4, <1>5
     DEF Next, Consume, Signal, Notified, FoundEmpty, Cancel, vars

\* Every step of the queue is a push, an in-order receipt, or nothing, to an
\* observer of its two ends.
LEMMA StepsRefine ==
  TypeOK /\ Contents /\ [Next]_vars => [Fifo!Next]_<<sent, last>>
<1> SUFFICES ASSUME TypeOK, Contents, Next PROVE [Fifo!Next]_<<sent, last>>
  BY DEF vars
<1> USE DEF TypeOK, Contents, Oldest
<1>1. ASSUME NEW p \in Producers, Push(p) PROVE Fifo!Send
  BY <1>1 DEF Push, Fifo!Send
<1>2. CASE Pop
  <2>1. /\ buf # <<>> /\ last' = buf[1] /\ sent' = sent /\ Len(buf) > 0
    BY <1>2 DEF Pop
  <2>2. buf[1] \in last + 1 .. sent /\ buf[1] = sent - Len(buf) + 1
    BY <2>1
  <2>3. \A missed \in last + 1 .. buf[1] - 1 : missed + Capacity <= sent
    BY <2>2, CapacityAssumption
  <2>4. \E n \in last + 1 .. sent :
          (\A missed \in last + 1 .. n - 1 : missed + Capacity <= sent) /\ last' = n
    BY <2>1, <2>2, <2>3
  <2> QED
    BY <2>1, <2>4, Zenon DEF Fifo!Receive, Fifo!Next
<1>3. CASE UNCHANGED <<sent, last>>
  BY <1>3
<1> QED
  BY <1>1, <1>2, <1>3
     DEF Next, Consume, Signal, Notified, FoundEmpty, Cancel, Fifo!Next

\* The queue implements LossyFifo: in order, at most once, and lossy only when
\* Capacity newer events have been pushed.
THEOREM QueueIsLossyFifo == Spec => ImplementsLossyFifo
<1>1. Init => Contents /\ Fifo!Init
  BY CapacityAssumption DEF Init, Contents, Oldest, Fifo!Init
<1> QED
  BY <1>1, QueueTyped, StepsKeepContents, StepsRefine, PTL
     DEF Spec, ImplementsLossyFifo, Fifo!Spec
=============================================================================
