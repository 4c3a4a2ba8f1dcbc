----------------------------- MODULE BlockQueue -----------------------------
(***************************************************************************)
(* The bounded blocking queue of include/unitree/common/block_queue.hpp.   *)
(*                                                                         *)
(* Put and Interrupt run entirely under the MutexCond, so each is one      *)
(* action.  A Get that finds the queue empty releases the mutex in         *)
(* MutexCond::Wait: it is split where the mutex is released.  The first    *)
(* part is GetAvailable or GetWait, the second GetResume or GetTimedOut.   *)
(* MutexCond wraps a pthread mutex and condition variable: Notify wakes    *)
(* one sleeper, if there is one, and is not remembered otherwise.          *)
(***************************************************************************)
EXTENDS Integers, Sequences, FiniteSets

CONSTANTS
  Items,             \* what can be queued
  Consumers,         \* the threads that call Get
  maxSize,           \* the constructor's argument
  UT_QUEUE_MAX_LEN   \* the capacity used when the argument is 0

ASSUME ConsumersAssumption == IsFiniteSet(Consumers)

ASSUME SizeAssumption ==
  /\ maxSize \in Nat
  /\ UT_QUEUE_MAX_LEN \in Nat \ {0}

mMaxSize == IF maxSize = 0 THEN UT_QUEUE_MAX_LEN ELSE maxSize

VARIABLES
  mQueue,    \* the std::list
  mCurSize,  \* its length, counted separately by the code
  getter     \* where each consumer is in Get

queueVars == <<mQueue, mCurSize, getter>>

GetterStates == {"idle", "waiting", "timedWaiting", "notified", "timedOut"}

Init ==
  /\ mQueue = <<>>
  /\ mCurSize = 0
  /\ getter = [c \in Consumers |-> "idle"]

-----------------------------------------------------------------------------
(* The condition variable. *)

Asleep == {c \in Consumers : getter[c] \in {"waiting", "timedWaiting"}}

Woken == {c \in Consumers : getter[c] = "notified"}

Notify ==
  IF Asleep = {}
  THEN getter' = getter
  ELSE \E c \in Asleep : getter' = [getter EXCEPT ![c] = "notified"]

NotifyAll ==
  getter' = [c \in Consumers |-> IF c \in Asleep THEN "notified" ELSE getter[c]]

\* A wait ends without a Notify: pthread_cond_wait may return at any time.
SpuriousWakeup(c) ==
  /\ c \in Asleep
  /\ getter' = [getter EXCEPT ![c] = "notified"]
  /\ UNCHANGED <<mQueue, mCurSize>>

\* The microsec of a timed Wait have passed; the mutex is still to be taken.
WaitTimeout(c) ==
  /\ getter[c] = "timedWaiting"
  /\ getter' = [getter EXCEPT ![c] = "timedOut"]
  /\ UNCHANGED <<mQueue, mCurSize>>

-----------------------------------------------------------------------------
(* The operations. *)

Full == mCurSize >= mMaxSize

PutRejects(replace) == Full /\ ~replace

Evict == IF Full THEN Tail(mQueue) ELSE mQueue

\* Mutation of PutAccepted: signal only when the queue was empty.
PutAcceptedNotifyIfEmpty(t, replace, putfront) ==
  /\ ~PutRejects(replace)
  /\ mQueue' = IF putfront THEN <<t>> \o Evict ELSE Append(Evict, t)
  /\ mCurSize' = (IF Full THEN mCurSize - 1 ELSE mCurSize) + 1
  /\ IF mQueue = <<>> THEN Notify ELSE getter' = getter

\* Mutation of PutAccepted: the eviction does not decrement mCurSize.
PutAcceptedCountsEvicted(t, replace, putfront) ==
  /\ ~PutRejects(replace)
  /\ mQueue' = IF putfront THEN <<t>> \o Evict ELSE Append(Evict, t)
  /\ mCurSize' = mCurSize + 1
  /\ Notify

PutAccepted(t, replace, putfront) ==
  /\ ~PutRejects(replace)
  /\ mQueue' = IF putfront THEN <<t>> \o Evict ELSE Append(Evict, t)
  /\ mCurSize' = (IF Full THEN mCurSize - 1 ELSE mCurSize) + 1
  /\ Notify

\* The whole of Put: a full queue that may not replace is left alone.
Put(t, replace, putfront) ==
  \/ /\ PutRejects(replace)
     /\ UNCHANGED queueVars
  \/ PutAccepted(t, replace, putfront)

PopFront ==
  /\ mQueue' = Tail(mQueue)
  /\ mCurSize' = mCurSize - 1

\* Get when the queue is not empty; the result is Head(mQueue).
GetAvailable(c) ==
  /\ getter[c] = "idle"
  /\ mQueue # <<>>
  /\ PopFront
  /\ UNCHANGED getter

\* Get when the queue is empty: Wait, for ever when microsec is 0.
GetWait(c, timed) ==
  /\ getter[c] = "idle"
  /\ mQueue = <<>>
  /\ getter' = [getter EXCEPT ![c] = IF timed THEN "timedWaiting" ELSE "waiting"]
  /\ UNCHANGED <<mQueue, mCurSize>>

\* Wait returned true and the mutex is held again: there is one more look at
\* the queue, and Get returns false when it is empty (no second wait).
GetResumeTakes(c) ==
  /\ getter[c] = "notified"
  /\ mQueue # <<>>
  /\ PopFront
  /\ getter' = [getter EXCEPT ![c] = "idle"]

GetResumeEmpty(c) ==
  /\ getter[c] = "notified"
  /\ mQueue = <<>>
  /\ getter' = [getter EXCEPT ![c] = "idle"]
  /\ UNCHANGED <<mQueue, mCurSize>>

GetResume(c) == GetResumeTakes(c) \/ GetResumeEmpty(c)

\* Wait returned false: Get returns false without another look at the queue.
GetTimedOut(c) ==
  /\ getter[c] = "timedOut"
  /\ getter' = [getter EXCEPT ![c] = "idle"]
  /\ UNCHANGED <<mQueue, mCurSize>>

Interrupt(all) ==
  /\ IF all THEN NotifyAll ELSE Notify
  /\ UNCHANGED <<mQueue, mCurSize>>

-----------------------------------------------------------------------------

Next ==
  \/ \E t \in Items, replace, putfront \in BOOLEAN : Put(t, replace, putfront)
  \/ \E all \in BOOLEAN : Interrupt(all)
  \/ \E c \in Consumers :
       \/ GetAvailable(c)
       \/ \E timed \in BOOLEAN : GetWait(c, timed)
       \/ GetResume(c)
       \/ GetTimedOut(c)
       \/ WaitTimeout(c)
       \/ SpuriousWakeup(c)

Spec == Init /\ [][Next]_queueVars

\* A thread that left the wait competes for a mutex that is only ever held
\* for a few statements, so it gets it.
FairSpec == Spec /\ \A c \in Consumers : WF_queueVars(GetResume(c))

-----------------------------------------------------------------------------
(* Properties. *)

\* The variables keep their types; mCurSize is a uint64_t that must not wrap
\* below zero when a consumer decrements it.
TypeOK ==
  /\ mQueue \in Seq(Items)
  /\ mCurSize \in Nat
  /\ getter \in [Consumers -> GetterStates]

\* The separately kept count is the list's length after every operation, and
\* the queue never exceeds its capacity, whatever mix of rejected, replacing
\* and front Puts, interrupted, late and timed-out Gets ran before.
SizeConsistent ==
  /\ mCurSize = Len(mQueue)
  /\ mCurSize <= mMaxSize

\* No lost wakeup: while some consumer sleeps, every queued item is matched by
\* a consumer that has been woken and has not yet looked at the queue.  Get
\* waits once and does not loop, so this is what keeps an item from lying in
\* the queue with nobody on its way to fetch it.
NoLostWakeup ==
  Asleep # {} => Len(mQueue) <= Cardinality(Woken)

\* A consumer does not sleep on while the queue holds an item: it is woken, or
\* others empty the queue.
ServedWhileAsleep ==
  \A c \in Consumers :
    (c \in Asleep /\ mQueue # <<>>) ~> (c \notin Asleep \/ mQueue = <<>>)

=============================================================================
