-------------------------- MODULE BlockQueueProofs --------------------------
(***************************************************************************)
(* TLAPS proofs about BlockQueue, for every set of items, every finite set *)
(* of consumers and every capacity.                                        *)
(***************************************************************************)
EXTENDS BlockQueue, FiniteSetTheorems, TLAPS

\* The capacity is positive: the constructor replaces 0.
LEMMA CapacityPositive == mMaxSize \in Nat \ {0}
  BY SizeAssumption DEF mMaxSize

\* What Put, after an eviction if the queue is full, does to the length.
LEMMA PutLength ==
  ASSUME NEW t \in Items, NEW replace \in BOOLEAN, NEW putfront \in BOOLEAN,
         TypeOK, SizeConsistent, PutAccepted(t, replace, putfront)
  PROVE  /\ mQueue' \in Seq(Items)
         /\ Len(mQueue') = IF Full THEN Len(mQueue) ELSE Len(mQueue) + 1
         /\ mCurSize' = Len(mQueue')
         /\ mCurSize' \in Nat
         /\ mCurSize' <= mMaxSize
<1>1. mMaxSize \in Nat \ {0}
  BY CapacityPositive
<1>2. mQueue \in Seq(Items) /\ mCurSize \in Nat /\ mCurSize = Len(mQueue)
      /\ mCurSize <= mMaxSize
  BY DEF TypeOK, SizeConsistent
<1>3. /\ Evict \in Seq(Items)
      /\ Len(Evict) = IF Full THEN Len(mQueue) - 1 ELSE Len(mQueue)
  <2>1. CASE Full
    <3>1. mQueue # <<>>
      BY <1>1, <1>2, <2>1 DEF Full
    <3>2. Tail(mQueue) \in Seq(Items) /\ Len(Tail(mQueue)) = Len(mQueue) - 1
      BY <1>2, <3>1
    <3>3. QED
      BY <2>1, <3>2 DEF Evict
  <2>2. CASE ~Full
    BY <1>2, <2>2 DEF Evict
  <2>3. QED
    BY <2>1, <2>2
<1>4. /\ mQueue' \in Seq(Items)
      /\ Len(mQueue') = Len(Evict) + 1
  <2>1. CASE putfront
    <3>1. mQueue' = <<t>> \o Evict
      BY <2>1 DEF PutAccepted
    <3>2. <<t>> \in Seq(Items) /\ Len(<<t>>) = 1
      OBVIOUS
    <3>3. QED
      BY <1>3, <3>1, <3>2
  <2>2. CASE ~putfront
    <3>1. mQueue' = Append(Evict, t)
      BY <2>2 DEF PutAccepted
    <3>2. QED
      BY <1>3, <3>1
  <2>3. QED
    BY <2>1, <2>2
<1>5. mCurSize' = (IF Full THEN mCurSize - 1 ELSE mCurSize) + 1
  BY DEF PutAccepted
<1>6. QED
  BY <1>1, <1>2, <1>3, <1>4, <1>5 DEF Full

\* What removing the front of a queue that is not empty does to the length.
LEMMA PopLength ==
  ASSUME TypeOK, SizeConsistent, mQueue # <<>>, PopFront
  PROVE  /\ mQueue' \in Seq(Items)
         /\ Len(mQueue') = Len(mQueue) - 1
         /\ mCurSize' = Len(mQueue')
         /\ mCurSize' \in Nat
         /\ mCurSize' <= mMaxSize
<1>1. mMaxSize \in Nat \ {0}
  BY CapacityPositive
<1>2. mQueue \in Seq(Items) /\ mCurSize = Len(mQueue) /\ mCurSize <= mMaxSize
  BY DEF TypeOK, SizeConsistent
<1>3. Tail(mQueue) \in Seq(Items) /\ Len(Tail(mQueue)) = Len(mQueue) - 1
  BY <1>2
<1>4. Len(mQueue) \in Nat \ {0}
  BY <1>2
<1>5. QED
  BY <1>1, <1>2, <1>3, <1>4 DEF PopFront

\* Notify leaves the consumers in legal states.
LEMMA NotifyType ==
  ASSUME TypeOK, Notify \/ NotifyAll
  PROVE  getter' \in [Consumers -> GetterStates]
  BY DEF TypeOK, Notify, NotifyAll, Asleep, GetterStates

\* Notify, with somebody asleep, adds exactly one woken consumer.
LEMMA NotifyWakesOne ==
  ASSUME TypeOK, Notify, Asleep # {}
  PROVE  Cardinality(Woken') = Cardinality(Woken) + 1
<1>1. PICK c \in Asleep : getter' = [getter EXCEPT ![c] = "notified"]
  BY DEF Notify
<1>2. Woken' = Woken \cup {c} /\ c \notin Woken
  BY <1>1 DEF Woken, Asleep, TypeOK
<1>3. IsFiniteSet(Woken)
  BY FS_Subset, ConsumersAssumption DEF Woken
<1>4. QED
  BY <1>2, <1>3, FS_AddElement

\* A step that keeps every woken consumer woken does not lower their number.
LEMMA WokenGrows ==
  ASSUME Woken \subseteq Woken'
  PROVE  /\ Cardinality(Woken) \in Nat
         /\ Cardinality(Woken') \in Nat
         /\ Cardinality(Woken) <= Cardinality(Woken')
<1>1. IsFiniteSet(Woken) /\ IsFiniteSet(Woken')
  BY FS_Subset, ConsumersAssumption DEF Woken
<1>2. QED
  BY <1>1, FS_Subset, FS_CardinalityType

\* The woken consumer that resumes is one woken consumer less.
LEMMA ResumeLeavesOne ==
  ASSUME TypeOK, NEW c \in Consumers, getter[c] = "notified",
         getter' = [getter EXCEPT ![c] = "idle"]
  PROVE  /\ Cardinality(Woken) \in Nat
         /\ Cardinality(Woken') = Cardinality(Woken) - 1
         /\ Asleep' = Asleep
<1>1. IsFiniteSet(Woken)
  BY FS_Subset, ConsumersAssumption DEF Woken
<1>2. Woken' = Woken \ {c} /\ c \in Woken
  BY DEF Woken, TypeOK
<1>3. Asleep' = Asleep
  BY DEF Asleep, TypeOK
<1>4. QED
  BY <1>1, <1>2, <1>3, FS_RemoveElement, FS_CardinalityType

-----------------------------------------------------------------------------

\* The inductive invariant: the three properties together.  The length facts
\* need the types, and the wakeup argument needs the length facts.
IInv == TypeOK /\ SizeConsistent /\ NoLostWakeup

\* The new queue is empty and nobody sleeps.
LEMMA InitIInv == Init => IInv
<1> SUFFICES ASSUME Init PROVE IInv
  OBVIOUS
<1>1. TypeOK
  BY DEF Init, TypeOK, GetterStates
<1>2. SizeConsistent
  BY CapacityPositive DEF Init, SizeConsistent
<1>3. NoLostWakeup
  BY DEF Init, NoLostWakeup, Asleep
<1>4. QED
  BY <1>1, <1>2, <1>3 DEF IInv

\* Every operation keeps the types, the count and the wakeup condition.
LEMMA NextIInv == IInv /\ [Next]_queueVars => IInv'
<1> SUFFICES ASSUME IInv, [Next]_queueVars PROVE IInv'
  OBVIOUS
<1>0. TypeOK /\ SizeConsistent /\ NoLostWakeup
  BY DEF IInv
<1>1. ASSUME NEW t \in Items, NEW replace \in BOOLEAN, NEW putfront \in BOOLEAN,
             PutAccepted(t, replace, putfront)
      PROVE  IInv'
  <2>1. Notify
    BY <1>1 DEF PutAccepted
  <2>2. TypeOK' /\ SizeConsistent'
    BY <1>0, <1>1, <2>1, PutLength, NotifyType DEF TypeOK, SizeConsistent, mMaxSize
  <2>3. NoLostWakeup'
    <3>1. CASE Asleep = {}
      BY <1>0, <2>1, <3>1 DEF Notify, NoLostWakeup, Asleep
    <3>2. CASE Asleep # {}
      <4>1. Len(mQueue) <= Cardinality(Woken)
        BY <1>0, <3>2 DEF NoLostWakeup
      <4>2. Cardinality(Woken') = Cardinality(Woken) + 1
        BY <1>0, <2>1, <3>2, NotifyWakesOne
      <4>3. Len(mQueue') <= Len(mQueue) + 1 /\ Len(mQueue) \in Nat /\ Len(mQueue') \in Nat
        BY <1>0, <1>1, PutLength DEF TypeOK
      <4>4. Cardinality(Woken) \in Nat
        BY FS_Subset, FS_CardinalityType, ConsumersAssumption DEF Woken
      <4>5. QED
        BY <4>1, <4>2, <4>3, <4>4 DEF NoLostWakeup
    <3>3. QED
      BY <3>1, <3>2
  <2>4. QED
    BY <2>2, <2>3 DEF IInv
<1>2. ASSUME NEW all \in BOOLEAN, Interrupt(all)
      PROVE  IInv'
  <2>1. (Notify \/ NotifyAll) /\ UNCHANGED <<mQueue, mCurSize>>
    BY <1>2 DEF Interrupt
  <2>2. TypeOK' /\ SizeConsistent'
    BY <1>0, <2>1, NotifyType DEF TypeOK, SizeConsistent, mMaxSize
  <2>3. Woken \subseteq Woken' /\ Asleep' \subseteq Asleep
    BY <1>0, <2>1 DEF Notify, NotifyAll, Woken, Asleep, TypeOK
  <2>4. NoLostWakeup'
    BY <1>0, <2>1, <2>3, WokenGrows DEF NoLostWakeup, TypeOK
  <2>5. QED
    BY <2>2, <2>4 DEF IInv
<1>3. ASSUME NEW c \in Consumers, GetAvailable(c)
      PROVE  IInv'
  <2>1. mQueue # <<>> /\ PopFront /\ getter' = getter
    BY <1>3 DEF GetAvailable
  <2>2. TypeOK' /\ SizeConsistent'
    BY <1>0, <2>1, PopLength DEF TypeOK, SizeConsistent, mMaxSize
  <2>3. NoLostWakeup'
    <3>1. Woken' = Woken /\ Asleep' = Asleep
      BY <2>1 DEF Woken, Asleep
    <3>2. Len(mQueue') = Len(mQueue) - 1 /\ Len(mQueue) \in Nat
      BY <1>0, <2>1, PopLength DEF TypeOK
    <3>3. Cardinality(Woken) \in Nat
      BY <3>1, WokenGrows
    <3>4. QED
      BY <1>0, <3>1, <3>2, <3>3 DEF NoLostWakeup
  <2>4. QED
    BY <2>2, <2>3 DEF IInv
<1>4. ASSUME NEW c \in Consumers, NEW timed \in BOOLEAN, GetWait(c, timed)
      PROVE  IInv'
  <2>1. mQueue = <<>> /\ UNCHANGED <<mQueue, mCurSize>>
    BY <1>4 DEF GetWait
  <2>2. TypeOK' /\ SizeConsistent'
    BY <1>0, <1>4 DEF GetWait, TypeOK, SizeConsistent, GetterStates, mMaxSize
  <2>3. NoLostWakeup'
    <3>1. Len(mQueue') = 0
      BY <2>1
    <3>2. Cardinality(Woken') \in Nat
      BY FS_Subset, FS_CardinalityType, ConsumersAssumption DEF Woken
    <3>3. QED
      BY <3>1, <3>2 DEF NoLostWakeup
  <2>4. QED
    BY <2>2, <2>3 DEF IInv
<1>5. ASSUME NEW c \in Consumers, GetResume(c)
      PROVE  IInv'
  <2>1. getter[c] = "notified" /\ getter' = [getter EXCEPT ![c] = "idle"]
    BY <1>5 DEF GetResume, GetResumeTakes, GetResumeEmpty
  <2>2. getter' \in [Consumers -> GetterStates]
    BY <1>0, <2>1 DEF TypeOK, GetterStates
  <2>3. /\ Cardinality(Woken) \in Nat
        /\ Cardinality(Woken') = Cardinality(Woken) - 1
        /\ Asleep' = Asleep
    BY <1>0, <2>1, ResumeLeavesOne
  <2>4. CASE GetResumeTakes(c)
    <3>1. mQueue # <<>> /\ PopFront
      BY <2>4 DEF GetResumeTakes
    <3>2. TypeOK' /\ SizeConsistent'
      BY <1>0, <2>2, <3>1, PopLength DEF TypeOK, SizeConsistent, mMaxSize
    <3>3. Len(mQueue') = Len(mQueue) - 1 /\ Len(mQueue) \in Nat
      BY <1>0, <3>1, PopLength DEF TypeOK
    <3>4. NoLostWakeup'
      BY <1>0, <2>3, <3>3 DEF NoLostWakeup
    <3>5. QED
      BY <3>2, <3>4 DEF IInv
  <2>5. CASE GetResumeEmpty(c)
    <3>1. mQueue = <<>> /\ UNCHANGED <<mQueue, mCurSize>>
      BY <2>5 DEF GetResumeEmpty
    <3>2. TypeOK' /\ SizeConsistent'
      BY <1>0, <2>2, <3>1 DEF TypeOK, SizeConsistent, mMaxSize
    <3>3. Cardinality(Woken') \in Nat /\ Len(mQueue') = 0
      BY <3>1, FS_Subset, FS_CardinalityType, ConsumersAssumption DEF Woken
    <3>4. NoLostWakeup'
      BY <3>3 DEF NoLostWakeup
    <3>5. QED
      BY <3>2, <3>4 DEF IInv
  <2>6. QED
    BY <1>5, <2>4, <2>5 DEF GetResume
<1>6. ASSUME NEW c \in Consumers, GetTimedOut(c) \/ WaitTimeout(c) \/ SpuriousWakeup(c)
      PROVE  IInv'
  <2>1. UNCHANGED <<mQueue, mCurSize>>
    BY <1>6 DEF GetTimedOut, WaitTimeout, SpuriousWakeup
  <2>2. TypeOK' /\ SizeConsistent'
    BY <1>0, <1>6 DEF GetTimedOut, WaitTimeout, SpuriousWakeup, TypeOK,
                      SizeConsistent, GetterStates, mMaxSize
  <2>3. Woken \subseteq Woken' /\ Asleep' \subseteq Asleep
    BY <1>0, <1>6 DEF GetTimedOut, WaitTimeout, SpuriousWakeup, Woken, Asleep, TypeOK
  <2>4. NoLostWakeup'
    BY <1>0, <2>1, <2>3, WokenGrows DEF NoLostWakeup, TypeOK
  <2>5. QED
    BY <2>2, <2>4 DEF IInv
<1>7. CASE UNCHANGED queueVars
  BY <1>0, <1>7 DEF queueVars, IInv, TypeOK, SizeConsistent, NoLostWakeup,
                    Asleep, Woken, mMaxSize
<1>8. ASSUME NEW t \in Items, NEW replace \in BOOLEAN, NEW putfront \in BOOLEAN,
             Put(t, replace, putfront)
      PROVE  IInv'
  BY <1>1, <1>7, <1>8 DEF Put
<1>9. QED
  BY <1>2, <1>3, <1>4, <1>5, <1>6, <1>7, <1>8 DEF Next

\* The inductive invariant holds throughout.
THEOREM Invariance == Spec => []IInv
  BY InitIInv, NextIInv, PTL DEF Spec

\* Type correctness, which includes that mCurSize never goes below zero.
THEOREM TypeCorrect == Spec => []TypeOK
<1>1. IInv => TypeOK
  BY DEF IInv
<1>2. QED
  BY <1>1, Invariance, PTL

\* mCurSize is the length of the list and never exceeds the capacity.
THEOREM SizeIsConsistent == Spec => []SizeConsistent
<1>1. IInv => SizeConsistent
  BY DEF IInv
<1>2. QED
  BY <1>1, Invariance, PTL

\* No item waits in the queue with sleeping consumers and nobody woken for it.
THEOREM NoWakeupIsLost == Spec => []NoLostWakeup
<1>1. IInv => NoLostWakeup
  BY DEF IInv
<1>2. QED
  BY <1>1, Invariance, PTL
=============================================================================
