----------------------- MODULE RealTimePublisherProofs -----------------------
(***************************************************************************)
(* Proofs about RealTimePublisher, for any number of users and messages.   *)
(*                                                                         *)
(* A message on the wire was copied by the loop some steps before, from a  *)
(* msg_ that was filled some steps before that.  The invariant says who    *)
(* holds the mutex, that msg_ is whole unless its holder is half-way, what *)
(* is known of the loop's copy, and it accounts for the hand-overs that    *)
(* are still on their way to the wire.                                     *)
(***************************************************************************)
EXTENDS RealTimePublisher, TLAPS

InCritical == Holding \cup HalfWritten

\* The mutex is held by the user, or by the loop, that is inside.
MutexOwned ==
  /\ \A u \in Users : user[u] \in InCritical <=> mutex_ = u
  /\ loop = "inspect" <=> mutex_ = "loop"

\* msg_ is whole unless a user is half-way through it.
MessageWhole ==
  /\ (\A u \in Users : user[u] \notin HalfWritten) => Whole(msg_)
  /\ Whole(outgoing)

\* The copy about to be written was sealed, and so was all that was written.
Sealed ==
  owner = "alive" =>
    /\ loop \in {"writeTest", "write"} => outgoing.crc = outgoing.lo
    /\ \A m \in published : m.crc = m.lo

\* Hand-overs on their way: one not copied yet, one copied and not written.
AwaitsCopy == IF turn_ = "NON_REALTIME" THEN 1 ELSE 0
AwaitsWrite == IF loop = "write" \/ (loop = "writeTest" /\ keep_running_) THEN 1 ELSE 0
Accounted == sent + AwaitsCopy + AwaitsWrite <= handovers

\* The realtime side has its turn only after the loop has copied all that it
\* handed over.
TurnAfterCopy ==
  /\ msg_.lo = writes
  /\ \A n \in rtHanded : n <= msg_.lo
  /\ turn_ = "REALTIME" => \A n \in rtHanded : n <= outgoing.lo
  /\ \A u \in Users : user[u] \in {"rt", "rtHalf"} => turn_ = "REALTIME"
  /\ loop \in {"notStarted", "setTurn"} => rtHanded = {} /\ turn_ # "REALTIME"

IInv ==
  /\ TypeOK /\ MutexOwned /\ MessageWhole /\ PublishedWhole /\ Sealed /\ Accounted
  /\ TurnAfterCopy

USE UsersAssumption, BoundsAssumption

\* The new publisher has an empty, whole message.
LEMMA InitInvariant ==
  ASSUME Init
  PROVE  IInv
<1>1. TypeOK
  BY DEF Init, TypeOK, Message, Holding, HalfWritten, LoopStates, OwnerStates
<1>2. MutexOwned
  BY DEF Init, TypeOK, MutexOwned, InCritical, Holding, HalfWritten
<1>3. MessageWhole
  BY DEF Init, TypeOK, MutexOwned, MessageWhole, Whole, InCritical, Message, Holding,
     HalfWritten
<1>4. PublishedWhole
  BY DEF Init, MessageWhole, PublishedWhole, Whole
<1>5. Sealed
  BY DEF Init, TypeOK, Sealed, Message, OwnerStates
<1>6. Accounted
  BY DEF Init, TypeOK, Accounted, AwaitsCopy, AwaitsWrite
<1>7. TurnAfterCopy
  BY DEF Init, TypeOK, MutexOwned, TurnAfterCopy, InCritical, Holding, HalfWritten,
     Message
<1>. QED
  BY <1>1, <1>2, <1>3, <1>4, <1>5, <1>6, <1>7 DEF IInv

\* A user that enters takes a free mutex.
LEMMA EnterInvariant ==
  ASSUME IInv, NEW u \in Users, trylock(u) \/ lock(u)
  PROVE  IInv'
<1>1. TypeOK'
  BY DEF IInv, TypeOK, Message, Holding, HalfWritten, LoopStates, OwnerStates,
     trylock, lock, loopVars, handVars
<1>2. MutexOwned'
  BY DEF IInv, TypeOK, MutexOwned, InCritical, Holding, HalfWritten, trylock, lock,
     loopVars, handVars
<1>3. MessageWhole'
  BY DEF IInv, TypeOK, MutexOwned, MessageWhole, Whole, InCritical, Message, Holding,
     HalfWritten, trylock, lock, loopVars, handVars
<1>4. PublishedWhole'
  BY DEF IInv, MessageWhole, PublishedWhole, Whole, trylock, lock, loopVars, handVars
<1>5. Sealed'
  BY DEF IInv, TypeOK, Sealed, Message, OwnerStates, trylock, lock, loopVars, handVars
<1>6. Accounted'
  BY DEF IInv, TypeOK, Accounted, AwaitsCopy, AwaitsWrite, trylock, lock, loopVars,
     handVars
<1>7. TurnAfterCopy'
  BY DEF IInv, TypeOK, MutexOwned, TurnAfterCopy, InCritical, Holding, HalfWritten,
     Message, trylock, lock, loopVars, handVars
<1>. QED
  BY <1>1, <1>2, <1>3, <1>4, <1>5, <1>6, <1>7 DEF IInv

\* A user fills msg_ under the mutex it holds.
LEMMA FillInvariant ==
  ASSUME IInv, NEW u \in Users, FillFirstHalf(u) \/ FillSecondHalf(u)
  PROVE  IInv'
<1>1. TypeOK'
  BY DEF IInv, TypeOK, Message, Holding, HalfWritten, LoopStates, OwnerStates,
     FillFirstHalf, FillSecondHalf, loopVars, handVars
<1>2. MutexOwned'
  BY DEF IInv, TypeOK, MutexOwned, InCritical, Holding, HalfWritten, FillFirstHalf,
     FillSecondHalf, loopVars, handVars
<1>3. MessageWhole'
  BY DEF IInv, TypeOK, MutexOwned, MessageWhole, Whole, InCritical, Message, Holding,
     HalfWritten, FillFirstHalf, FillSecondHalf, loopVars, handVars
<1>4. PublishedWhole'
  BY DEF IInv, MessageWhole, PublishedWhole, Whole, FillFirstHalf, FillSecondHalf,
     loopVars, handVars
<1>5. Sealed'
  BY DEF IInv, TypeOK, Sealed, Message, OwnerStates, FillFirstHalf, FillSecondHalf,
     loopVars, handVars
<1>6. Accounted'
  BY DEF IInv, TypeOK, Accounted, AwaitsCopy, AwaitsWrite, FillFirstHalf,
     FillSecondHalf, loopVars, handVars
<1>7. TurnAfterCopy'
  BY DEF IInv, TypeOK, MutexOwned, TurnAfterCopy, InCritical, Holding, HalfWritten,
     Message, FillFirstHalf, FillSecondHalf, loopVars, handVars
<1>. QED
  BY <1>1, <1>2, <1>3, <1>4, <1>5, <1>6, <1>7 DEF IInv

\* A user leaves with a whole message and, if it hands it over, the turn.
LEMMA LeaveInvariant ==
  ASSUME IInv, NEW u \in Users, unlockAndPublish(u) \/ unlock(u)
  PROVE  IInv'
<1>1. TypeOK'
  <2>1. msg_.lo \in Nat
    BY DEF IInv, TypeOK, Message
  <2>2. handed' \in SUBSET Nat /\ rtHanded' \in SUBSET Nat /\ handovers' \in Nat
    <3>1. CASE unlockAndPublish(u)
      <4>1. handed' \in SUBSET Nat
        BY <2>1, <3>1 DEF IInv, TypeOK, unlockAndPublish
      <4>2. rtHanded' \in SUBSET Nat
        BY <2>1, <3>1 DEF IInv, TypeOK, unlockAndPublish
      <4>3. handovers' \in Nat
        BY <3>1 DEF IInv, TypeOK, unlockAndPublish
      <4>. QED
        BY <4>1, <4>2, <4>3
    <3>2. CASE unlock(u)
      BY <3>2 DEF IInv, TypeOK, unlock, handVars
    <3>. QED
      BY <3>1, <3>2
  <2>3. user' \in [Users -> {"idle"} \cup Holding \cup HalfWritten]
    BY DEF IInv, TypeOK, unlockAndPublish, unlock
  <2>. QED
    BY <2>2, <2>3 DEF IInv, TypeOK, unlockAndPublish, unlock, loopVars, handVars
<1>2. MutexOwned'
  BY DEF IInv, TypeOK, MutexOwned, InCritical, Holding, HalfWritten, unlockAndPublish,
     unlock, loopVars, handVars
<1>3. MessageWhole'
  BY DEF IInv, TypeOK, MutexOwned, MessageWhole, Whole, InCritical, Message, Holding,
     HalfWritten, unlockAndPublish, unlock, loopVars, handVars
<1>4. PublishedWhole'
  BY DEF IInv, MessageWhole, PublishedWhole, Whole, unlockAndPublish, unlock,
     loopVars, handVars
<1>5. Sealed'
  BY DEF IInv, TypeOK, Sealed, Message, OwnerStates, unlockAndPublish, unlock,
     loopVars, handVars
<1>6. Accounted'
  BY DEF IInv, TypeOK, Accounted, AwaitsCopy, AwaitsWrite, unlockAndPublish, unlock,
     loopVars, handVars
<1>7. TurnAfterCopy'
  <2>1. CASE unlockAndPublish(u)
    <3>1. \A v \in Users : user'[v] \notin {"rt", "rtHalf"}
      BY <2>1 DEF IInv, TypeOK, MutexOwned, InCritical, Holding, HalfWritten, unlockAndPublish
    <3>2. loop \in {"notStarted", "setTurn"} => rtHanded' = {}
      BY <2>1 DEF IInv, TypeOK, TurnAfterCopy, unlockAndPublish
    <3>3. \A n \in rtHanded' : n <= msg_.lo
      BY <2>1 DEF IInv, TypeOK, TurnAfterCopy, Message, unlockAndPublish
    <3>. QED
      BY <2>1, <3>1, <3>2, <3>3 DEF IInv, TurnAfterCopy, unlockAndPublish, loopVars
  <2>2. CASE unlock(u)
    BY <2>2 DEF IInv, TypeOK, TurnAfterCopy, unlock, loopVars, handVars
  <2>. QED
    BY <2>1, <2>2
<1>. QED
  BY <1>1, <1>2, <1>3, <1>4, <1>5, <1>6, <1>7 DEF IInv

\* The owner stops the loop and waits for it.
LEMMA OwnerInvariant ==
  ASSUME IInv, stop \/ DestroyDerived \/ DestructorStep
  PROVE  IInv'
<1>1. TypeOK'
  BY DEF IInv, TypeOK, Message, Holding, HalfWritten, LoopStates, OwnerStates, stop,
     DestroyDerived, DestructorStep, DestructorStop, DestructorSeesNotRunning,
     DestructorJoin, loopVars, userVars, handVars
<1>2. MutexOwned'
  BY DEF IInv, TypeOK, MutexOwned, InCritical, Holding, HalfWritten, stop,
     DestroyDerived, DestructorStep, DestructorStop, DestructorSeesNotRunning,
     DestructorJoin, loopVars, userVars, handVars
<1>3. MessageWhole'
  BY DEF IInv, TypeOK, MutexOwned, MessageWhole, Whole, InCritical, Message, Holding,
     HalfWritten, stop, DestroyDerived, DestructorStep, DestructorStop,
     DestructorSeesNotRunning, DestructorJoin, loopVars, userVars, handVars
<1>4. PublishedWhole'
  BY DEF IInv, MessageWhole, PublishedWhole, Whole, stop, DestroyDerived,
     DestructorStep, DestructorStop, DestructorSeesNotRunning, DestructorJoin,
     loopVars, userVars, handVars
<1>5. Sealed'
  BY DEF IInv, TypeOK, Sealed, Message, OwnerStates, stop, DestroyDerived,
     DestructorStep, DestructorStop, DestructorSeesNotRunning, DestructorJoin,
     loopVars, userVars, handVars
<1>6. Accounted'
  BY DEF IInv, TypeOK, Accounted, AwaitsCopy, AwaitsWrite, stop, DestroyDerived,
     DestructorStep, DestructorStop, DestructorSeesNotRunning, DestructorJoin,
     loopVars, userVars, handVars
<1>7. TurnAfterCopy'
  BY DEF IInv, TypeOK, MutexOwned, TurnAfterCopy, InCritical, Holding, HalfWritten,
     Message, stop, DestroyDerived, DestructorStep, DestructorStop,
     DestructorSeesNotRunning, DestructorJoin, loopVars, userVars, handVars
<1>. QED
  BY <1>1, <1>2, <1>3, <1>4, <1>5, <1>6, <1>7 DEF IInv

\* The loop starts, tests keep_running_ and waits for the mutex and its turn.
LEMMA LoopWaitInvariant ==
  ASSUME IInv, LoopStart \/ LoopSetTurn \/ LoopTest \/ LoopLock \/ LoopWaitTurn \/ LoopEnd
  PROVE  IInv'
<1>1. TypeOK'
  BY DEF IInv, TypeOK, Message, Holding, HalfWritten, LoopStates, OwnerStates,
     LoopStart, LoopSetTurn, LoopTest, LoopLock, LoopWaitTurn, LoopEnd, userVars,
     handVars
<1>2. MutexOwned'
  BY DEF IInv, TypeOK, MutexOwned, InCritical, Holding, HalfWritten, LoopStart,
     LoopSetTurn, LoopTest, LoopLock, LoopWaitTurn, LoopEnd, userVars, handVars
<1>3. MessageWhole'
  BY DEF IInv, TypeOK, MutexOwned, MessageWhole, Whole, InCritical, Message, Holding,
     HalfWritten, LoopStart, LoopSetTurn, LoopTest, LoopLock, LoopWaitTurn, LoopEnd,
     userVars, handVars
<1>4. PublishedWhole'
  BY DEF IInv, MessageWhole, PublishedWhole, Whole, LoopStart, LoopSetTurn, LoopTest,
     LoopLock, LoopWaitTurn, LoopEnd, userVars, handVars
<1>5. Sealed'
  BY DEF IInv, TypeOK, Sealed, Message, OwnerStates, LoopStart, LoopSetTurn, LoopTest,
     LoopLock, LoopWaitTurn, LoopEnd, userVars, handVars
<1>6. Accounted'
  BY DEF IInv, TypeOK, Accounted, AwaitsCopy, AwaitsWrite, LoopStart, LoopSetTurn,
     LoopTest, LoopLock, LoopWaitTurn, LoopEnd, userVars, handVars
<1>7. TurnAfterCopy'
  BY DEF IInv, TypeOK, MutexOwned, TurnAfterCopy, InCritical, Holding, HalfWritten,
     Message, LoopStart, LoopSetTurn, LoopTest, LoopLock, LoopWaitTurn, LoopEnd,
     userVars, handVars
<1>. QED
  BY <1>1, <1>2, <1>3, <1>4, <1>5, <1>6, <1>7 DEF IInv

\* The loop seals and copies msg_ under the mutex.
LEMMA LoopCopyInvariant ==
  ASSUME IInv, LoopCopy
  PROVE  IInv'
<1>1. TypeOK'
  BY DEF IInv, TypeOK, Message, Holding, HalfWritten, LoopStates, OwnerStates,
     LoopCopy, pre_communication, userVars, handVars
<1>2. MutexOwned'
  BY DEF IInv, TypeOK, MutexOwned, InCritical, Holding, HalfWritten, LoopCopy,
     pre_communication, userVars, handVars
<1>3. MessageWhole'
  BY DEF IInv, TypeOK, MutexOwned, MessageWhole, Whole, InCritical, Message, Holding,
     HalfWritten, LoopCopy, pre_communication, userVars, handVars
<1>4. PublishedWhole'
  BY DEF IInv, MessageWhole, PublishedWhole, Whole, LoopCopy, pre_communication,
     userVars, handVars
<1>5. Sealed'
  BY DEF IInv, TypeOK, Sealed, Message, OwnerStates, LoopCopy, pre_communication,
     userVars, handVars
<1>6. Accounted'
  BY DEF IInv, TypeOK, Accounted, AwaitsCopy, AwaitsWrite, LoopCopy,
     pre_communication, userVars, handVars
<1>7. TurnAfterCopy'
  BY DEF IInv, TypeOK, MutexOwned, TurnAfterCopy, InCritical, Holding, HalfWritten,
     Message, LoopCopy, pre_communication, userVars, handVars
<1>. QED
  BY <1>1, <1>2, <1>3, <1>4, <1>5, <1>6, <1>7 DEF IInv

\* The loop writes its copy unless it was stopped.
LEMMA LoopWriteInvariant ==
  ASSUME IInv, LoopWriteTest \/ LoopWrite
  PROVE  IInv'
<1>1. TypeOK'
  <2>1. CASE LoopWriteTest
    BY <2>1 DEF IInv, TypeOK, LoopStates, LoopWriteTest, userVars, handVars
  <2>2. CASE LoopWrite
    <3>1. published' \in SUBSET Message
      BY <2>2 DEF IInv, TypeOK, LoopWrite
    <3>2. sent' \in Nat /\ loop' \in LoopStates
      BY <2>2 DEF IInv, TypeOK, LoopStates, LoopWrite
    <3>. QED
      BY <2>2, <3>1, <3>2 DEF IInv, TypeOK, LoopWrite, userVars, handVars
  <2>. QED
    BY <2>1, <2>2
<1>2. MutexOwned'
  BY DEF IInv, TypeOK, MutexOwned, InCritical, Holding, HalfWritten, LoopWriteTest,
     LoopWrite, userVars, handVars
<1>3. MessageWhole'
  BY DEF IInv, TypeOK, MutexOwned, MessageWhole, Whole, InCritical, Message, Holding,
     HalfWritten, LoopWriteTest, LoopWrite, userVars, handVars
<1>4. PublishedWhole'
  BY DEF IInv, MessageWhole, PublishedWhole, Whole, LoopWriteTest, LoopWrite,
     userVars, handVars
<1>5. Sealed'
  BY DEF IInv, TypeOK, Sealed, Message, OwnerStates, LoopWriteTest, LoopWrite,
     userVars, handVars
<1>6. Accounted'
  BY DEF IInv, TypeOK, Accounted, AwaitsCopy, AwaitsWrite, LoopWriteTest, LoopWrite,
     userVars, handVars
<1>7. TurnAfterCopy'
  BY DEF IInv, TypeOK, MutexOwned, TurnAfterCopy, InCritical, Holding, HalfWritten,
     Message, LoopWriteTest, LoopWrite, userVars, handVars
<1>. QED
  BY <1>1, <1>2, <1>3, <1>4, <1>5, <1>6, <1>7 DEF IInv

\* Nothing happens.
LEMMA StutterInvariant ==
  ASSUME IInv, UNCHANGED vars
  PROVE  IInv'
  BY DEF IInv, TypeOK, MutexOwned, MessageWhole, PublishedWhole, Sealed, Accounted,
     AwaitsCopy, AwaitsWrite, TurnAfterCopy, Whole, vars

\* The inductive invariant holds in every reachable state, for every set of
\* users and however often they fill and hand over the message.
THEOREM Invariance == Spec => []IInv
<1>1. Init => IInv
  BY InitInvariant
<1>2. ASSUME IInv, [Next]_vars PROVE IInv'
  <2>1. CASE UNCHANGED vars
    BY <1>2, <2>1, StutterInvariant
  <2>2. CASE LoopStep
    BY <1>2, <2>2, LoopWaitInvariant, LoopCopyInvariant, LoopWriteInvariant DEF LoopStep
  <2>3. CASE stop \/ DestroyDerived \/ DestructorStep
    BY <1>2, <2>3, OwnerInvariant
  <2>4. ASSUME NEW u \in Users, trylock(u) \/ lock(u) \/ FillFirstHalf(u) \/ Release(u)
        PROVE  IInv'
    BY <1>2, <2>4, EnterInvariant, FillInvariant, LeaveInvariant DEF Release
  <2>. QED
    BY <1>2, <2>1, <2>2, <2>3, <2>4 DEF Next
<1>. QED
  BY <1>1, <1>2, PTL DEF Spec

\* No torn message leaves the publisher: the loop copies msg_ under the mutex,
\* which no user gives up half-way through a message.
THEOREM NothingTornIsPublished == Spec => []PublishedWhole
<1>1. IInv => PublishedWhole
  BY DEF IInv
<1>. QED
  BY <1>1, Invariance, PTL

\* Until the destruction of the publisher starts, every message written has
\* the CRC of its own content.
THEOREM WrittenIsSealed == Spec => []PublishedSealed
<1>1. IInv => PublishedSealed
  BY DEF IInv, Sealed, PublishedSealed
<1>. QED
  BY <1>1, Invariance, PTL

\* The loop never writes more often than the users hand over: the copy it makes
\* because it was stopped is not written.
THEOREM WritesAreAccounted == Spec => []OneWritePerHandover
<1>1. IInv => OneWritePerHandover
  BY DEF IInv, TypeOK, Accounted, AwaitsCopy, AwaitsWrite, OneWritePerHandover
<1>. QED
  BY <1>1, Invariance, PTL

\* A user that succeeds in trylock finds all that earlier ones handed over, or
\* something newer, in the loop's copy.
THEOREM RealtimeWaitsForCopy == Spec => []TrylockAfterCopy
<1>1. IInv => TrylockAfterCopy
  BY DEF IInv, TurnAfterCopy, TrylockAfterCopy
<1>. QED
  BY <1>1, Invariance, PTL

=============================================================================
