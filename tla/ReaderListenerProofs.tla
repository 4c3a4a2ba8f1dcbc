------------------------ MODULE ReaderListenerProofs ------------------------
(***************************************************************************)
(* A proof that ReaderListener implements NewestWins, for every length of  *)
(* the queue, every size of a batch and every number of messages.          *)
(*                                                                         *)
(* A message is pending from its stamp to the end of its handler, and goes *)
(* through three places meanwhile: the sample on_data_available is at, the *)
(* queue, and the queue thread's dataPtr.  The invariant says that these   *)
(* three are what their threads believe them to be.  Then Stamp accepts a  *)
(* message, an Enqueue into a full queue loses the earliest one queued,    *)
(* the two ways of calling the handler deliver the first one pending, and  *)
(* every other step leaves the pending messages as they are.               *)
(***************************************************************************)
EXTENDS ReaderListener, SequenceTheorems, TLAPS

-----------------------------------------------------------------------------
(* The pending messages: the one the queue thread holds, the queue, and the  *)
(* one on_data_available has stamped.                                        *)

\* A message stamped is pending behind all others.
LEMMA StampedIsLast ==
  ASSUME NEW h \in Seq(Nat), NEW s \in Seq(Nat), NEW m \in Nat
  PROVE  (h \o s) \o <<m>> = Append((h \o s) \o <<>>, m)
<1>1. h \o s \in Seq(Nat) /\ (h \o s) \o <<>> = h \o s
  BY ConcatProperties, ConcatEmptySeq
<1> QED
  BY <1>1, AppendIsConcat

\* It stays where it is when it goes into the queue.
LEMMA QueuedStaysLast ==
  ASSUME NEW h \in Seq(Nat), NEW s \in Seq(Nat), NEW m \in Nat
  PROVE  (h \o Append(s, m)) \o <<>> = (h \o s) \o <<m>>
<1>1. <<m>> \in Seq(Nat) /\ Append(s, m) = s \o <<m>>
  BY AppendIsConcat
<1>2. s \o <<m>> \in Seq(Nat) /\ h \o s \in Seq(Nat) /\ h \o (s \o <<m>>) \in Seq(Nat)
  BY <1>1, ConcatProperties
<1>3. (h \o (s \o <<m>>)) \o <<>> = h \o (s \o <<m>>)
  BY <1>2, ConcatEmptySeq
<1>4. (h \o s) \o <<m>> = h \o (s \o <<m>>)
  BY <1>1, ConcatAssociative
<1> QED
  BY <1>1, <1>3, <1>4

\* The message at the head of the queue is pending, too, once it is taken.
LEMMA TakenStaysFirst ==
  ASSUME NEW s \in Seq(Nat), s # <<>>
  PROVE  <<Head(s)>> \o Tail(s) = <<>> \o s
<1>1. Head(s) \in Nat /\ Tail(s) \in Seq(Nat) /\ Len(Tail(s)) = Len(s) - 1
      /\ \A i \in 1 .. Len(Tail(s)) : Tail(s)[i] = s[i + 1]
  BY HeadTailProperties
<1>2. /\ <<Head(s)>> \in Seq(Nat) /\ Len(<<Head(s)>>) = 1 /\ <<Head(s)>>[1] = s[1]
      /\ Len(s) \in Nat
  BY <1>1, LenProperties
<1> DEFINE t == <<Head(s)>> \o Tail(s)
<1>3. /\ t \in Seq(Nat) /\ Len(t) = Len(s)
      /\ \A i \in 1 .. Len(s) : t[i] = IF i <= 1 THEN <<Head(s)>>[i] ELSE Tail(s)[i - 1]
  BY <1>1, <1>2, ConcatProperties
<1> HIDE DEF t
<1>4. \A i \in 1 .. Len(s) : t[i] = s[i]
  BY <1>1, <1>2, <1>3
<1>5. t = s
  BY <1>3, <1>4, SeqEqual
<1>6. <<>> \o s = s
  BY ConcatEmptySeq
<1> QED
  BY <1>5, <1>6 DEF t

\* What is delivered is the first.
LEMMA DeliveredIsFirst ==
  ASSUME NEW n \in Nat, NEW s \in Seq(Nat), NEW t \in Seq(Nat)
  PROVE  /\ (<<n>> \o s) \o t # <<>>
         /\ Head((<<n>> \o s) \o t) = n
         /\ Tail((<<n>> \o s) \o t) = (<<>> \o s) \o t
<1> DEFINE u == s \o t
           w == <<n>> \o u
<1>1. u \in Seq(Nat) /\ <<n>> \in Seq(Nat) /\ (<<n>> \o s) \o t = w
  BY ConcatProperties, ConcatAssociative
<1>2. (<<>> \o s) \o t = u
  BY ConcatEmptySeq
<1> HIDE DEF u
<1>3. /\ w \in Seq(Nat) /\ Len(w) = 1 + Len(u) /\ Len(u) \in Nat
      /\ \A i \in 1 .. 1 + Len(u) : w[i] = IF i <= 1 THEN <<n>>[i] ELSE u[i - 1]
  <2>1. Len(<<n>>) = 1
    OBVIOUS
  <2> QED
    BY <1>1, <2>1, ConcatProperties, LenProperties
<1> HIDE DEF w
<1>4. w # <<>> /\ Head(w) = n
  BY <1>3
<1>5. /\ Tail(w) \in Seq(Nat) /\ Len(Tail(w)) = Len(u)
      /\ \A i \in 1 .. Len(u) : Tail(w)[i] = u[i]
  BY <1>3, <1>4, HeadTailProperties
<1>6. Tail(w) = u
  BY <1>1, <1>5, SeqEqual
<1> QED
  BY <1>1, <1>2, <1>4, <1>6

\* RemoveAt leaves what is before its index and what is behind it.
LEMMA RemoveAtSplits ==
  ASSUME NEW p, NEW n \in Nat, NEW k \in Nat, Len(p) = n + k
  PROVE  RemoveAt(p, n + 1) = SubSeq(p, 1, n) \o SubSeq(p, n + 2, n + k)
<1>1. n + 1 - 1 = n /\ n + 1 + 1 = n + 2
  OBVIOUS
<1> QED
  BY <1>1 DEF RemoveAt

\* The first of what follows h is removed.
LEMMA RemoveAfter ==
  ASSUME NEW h \in Seq(Nat), NEW u \in Seq(Nat), u # <<>>
  PROVE  RemoveAt(h \o u, Len(h) + 1) = h \o Tail(u)
<1>1. PICK n \in Nat, k \in Nat \ {0} : n = Len(h) /\ k = Len(u)
  BY EmptySeq, LenProperties
<1> DEFINE p == h \o u
           a == SubSeq(p, 1, n)
           b == SubSeq(p, n + 2, n + k)
<1>2. /\ p \in Seq(Nat) /\ Len(p) = n + k
      /\ \A j \in 1 .. n + k : p[j] = IF j <= n THEN h[j] ELSE u[j - n]
  BY <1>1, ConcatProperties
<1> HIDE DEF p
<1>3. \A j \in 1 .. n + k : p[j] \in Nat
  BY <1>2, ElementOfSeq
<1>4. a = h
  <2>1. a \in Seq(Nat) /\ Len(a) = n /\ \A j \in 1 .. n : a[j] = p[j]
    <3>1. \A j \in 1 .. n : p[j] \in Nat
      BY <1>3
    <3>2. /\ a \in Seq(Nat) /\ Len(a) = IF 1 <= n THEN n - 1 + 1 ELSE 0
          /\ \A j \in 1 .. n - 1 + 1 : a[j] = p[1 + j - 1]
      BY <3>1, SubSeqProperties
    <3> HIDE DEF a
    <3> QED
      BY <3>2
  <2> HIDE DEF a
  <2>2. \A j \in 1 .. n : a[j] = h[j]
    BY <1>2, <2>1
  <2> QED
    BY <1>1, <2>1, <2>2, SeqEqual
<1>5. b = Tail(u)
  <2>1. /\ Tail(u) \in Seq(Nat) /\ Len(Tail(u)) = k - 1
        /\ \A j \in 1 .. k - 1 : Tail(u)[j] = u[j + 1]
    BY <1>1, HeadTailProperties
  <2>2. b \in Seq(Nat) /\ Len(b) = k - 1 /\ \A j \in 1 .. k - 1 : b[j] = p[n + 1 + j]
    <3>1. \A j \in n + 2 .. n + k : p[j] \in Nat
      BY <1>3
    <3>2. /\ b \in Seq(Nat)
          /\ Len(b) = IF n + 2 <= n + k THEN n + k - (n + 2) + 1 ELSE 0
          /\ \A j \in 1 .. n + k - (n + 2) + 1 : b[j] = p[n + 2 + j - 1]
      BY <3>1, SubSeqProperties
    <3> HIDE DEF b
    <3> QED
      BY <3>2
  <2> HIDE DEF b
  <2>3. ASSUME NEW j \in 1 .. k - 1 PROVE p[n + 1 + j] = u[j + 1]
    <3>1. n + 1 + j \in 1 .. n + k /\ ~(n + 1 + j <= n) /\ n + 1 + j - n = j + 1
      OBVIOUS
    <3> QED
      BY <1>2, <3>1
  <2>4. \A j \in 1 .. k - 1 : b[j] = Tail(u)[j]
    BY <2>1, <2>2, <2>3
  <2> QED
    BY <2>1, <2>2, <2>4, SeqEqual
<1>6. RemoveAt(p, n + 1) = a \o b
  BY <1>2, RemoveAtSplits
<1> QED
  BY <1>1, <1>4, <1>5, <1>6 DEF p

\* What a full queue evicts is the earliest message it holds.
LEMMA EvictedIsEarliest ==
  ASSUME NEW h \in Seq(Nat), NEW s \in Seq(Nat), s # <<>>, NEW m \in Nat
  PROVE  LET p == (h \o s) \o <<m>>
         IN /\ Len(h) + 1 \in DOMAIN p
            /\ Len(p) - (Len(h) + 1) = Len(s)
            /\ (h \o Append(Tail(s), m)) \o <<>> = RemoveAt(p, Len(h) + 1)
<1> DEFINE p == (h \o s) \o <<m>>
           u == Append(s, m)
           v == Append(Tail(s), m)
<1>1. u \in Seq(Nat) /\ u # <<>> /\ Len(u) = Len(s) + 1 /\ Tail(u) = v
  BY AppendProperties, HeadTailAppend
<1>2. v \in Seq(Nat) /\ h \o u \in Seq(Nat) /\ h \o v \in Seq(Nat)
  BY <1>1, HeadTailProperties, ConcatProperties
<1>3. p = h \o u /\ (h \o v) \o <<>> = h \o v
  BY <1>1, <1>2, QueuedStaysLast, ConcatEmptySeq
<1>4. Len(p) = Len(h) + Len(s) + 1 /\ DOMAIN p = 1 .. Len(p)
      /\ Len(h) \in Nat /\ Len(s) \in Nat
  BY <1>1, <1>2, <1>3, ConcatProperties, LenProperties
<1> HIDE DEF p, u, v
<1>5. RemoveAt(p, Len(h) + 1) = h \o v
  BY <1>1, <1>3, RemoveAfter
<1>6. Len(h) + 1 \in DOMAIN p /\ Len(p) - (Len(h) + 1) = Len(s)
  BY <1>4
<1> QED
  BY <1>3, <1>5, <1>6 DEF p, v

-----------------------------------------------------------------------------
(* The inductive invariant.                                                *)

Held == IF dataPtr = 0 THEN <<>> ELSE <<dataPtr>>
Stamped == IF stamped THEN <<Head(samples).message>> ELSE <<>>
Pending == (Held \o mQueue) \o Stamped

Sample == [message : Nat, valid : BOOLEAN]

ListenerTypeOK ==
  /\ mQueue \in Seq(Nat \ {0}) /\ samples \in Seq(Sample) /\ handled \in Seq(Nat)
  /\ dataPtr \in Nat /\ mLastDataAvailableTime \in Nat
  /\ arrived \in 0 .. MaxMessages

\* The queue counts what it holds.
Counted == mCurSize = Len(mQueue)

\* The queue thread holds a message while it runs the handler, and only then.
HeldInCallback == dataPtr # 0 <=> rlsnr = "callback"

\* Without a queue there is no queue thread, and nothing is queued.
NothingQueued ==
  /\ owner \in {"created", "callbackSet"} => ~mHasQueue
  /\ ~mHasQueue => mQueue = <<>> /\ rlsnr = "none"

\* The samples left are the latest arrivals, in their order.
Latest ==
  \A i \in 1 .. Len(samples) : samples[i].message = arrived - Len(samples) + i

\* They are not more than have arrived.
NoneBeforeFirst == Len(samples) <= arrived

\* Only what was taken has been stamped, and what is stamped is the newest.
StampedOnce ==
  IF stamped
  THEN /\ samples # <<>> /\ Head(samples).valid
       /\ mLastDataAvailableTime = Head(samples).message
  ELSE mLastDataAvailableTime <= arrived - Len(samples)

ListenerInv ==
  /\ ListenerTypeOK
  /\ Counted
  /\ HeldInCallback
  /\ NothingQueued
  /\ Latest
  /\ NoneBeforeFirst
  /\ StampedOnce

\* Nothing has arrived.
LEMMA ListenerInitInv == Init => ListenerInv
<1> SUFFICES ASSUME Init PROVE ListenerInv
  OBVIOUS
<1>1. mQueue = <<>> /\ mCurSize = 0 /\ samples = <<>> /\ handled = <<>>
  BY DEF Init, Queue!Init
<1>2. ListenerTypeOK
  BY <1>1, ListenerAssumption DEF Init, ListenerTypeOK
<1>3. Counted /\ HeldInCallback /\ NothingQueued
  BY <1>1 DEF Init, Counted, HeldInCallback, NothingQueued
<1>4. Latest /\ NoneBeforeFirst /\ StampedOnce
  BY <1>1 DEF Init, Latest, NoneBeforeFirst, StampedOnce
<1> QED
  BY <1>2, <1>3, <1>4 DEF ListenerInv

\* The first sample left, and what is left after it.
LEMMA FirstSample ==
  ASSUME ListenerInv, samples # <<>>
  PROVE  /\ Head(samples) \in Sample /\ Tail(samples) \in Seq(Sample)
         /\ Len(samples) \in Nat /\ Len(samples) >= 1
         /\ Head(samples).message = arrived - Len(samples) + 1
         /\ Head(samples).message \in Nat
         /\ Len(Tail(samples)) = Len(samples) - 1
         /\ \A i \in 1 .. Len(Tail(samples)) :
              Tail(samples)[i].message = arrived - Len(Tail(samples)) + i
<1>1. samples \in Seq(Sample) /\ arrived \in Nat
  BY DEF ListenerInv, ListenerTypeOK
<1>2. /\ Head(samples) \in Sample /\ Tail(samples) \in Seq(Sample)
      /\ Len(Tail(samples)) = Len(samples) - 1
      /\ \A i \in 1 .. Len(Tail(samples)) : Tail(samples)[i] = samples[i + 1]
  BY <1>1, HeadTailProperties
<1>3. Len(samples) \in Nat /\ Len(samples) >= 1 /\ Head(samples) = samples[1]
  BY <1>1, EmptySeq
<1>4. \A i \in 1 .. Len(samples) : samples[i].message = arrived - Len(samples) + i
  BY DEF ListenerInv, Latest
<1>5. Head(samples).message \in Nat
  BY <1>2 DEF Sample
<1>6. Head(samples).message = arrived - Len(samples) + 1
  BY <1>3, <1>4
<1>7. ASSUME NEW i \in 1 .. Len(Tail(samples))
      PROVE  Tail(samples)[i].message = arrived - Len(Tail(samples)) + i
  <2>1. i + 1 \in 1 .. Len(samples)
    BY <1>2, <1>3
  <2>2. samples[i + 1].message = arrived - Len(samples) + (i + 1)
    BY <1>4, <2>1
  <2> QED
    BY <1>1, <1>2, <1>3, <2>2
<1> QED
  BY <1>2, <1>3, <1>5, <1>6, <1>7

\* What is pending are sequences of messages.
LEMMA PendingTypes ==
  ASSUME ListenerInv
  PROVE  Held \in Seq(Nat) /\ mQueue \in Seq(Nat) /\ Stamped \in Seq(Nat)
<1>1. mQueue \in Seq(Nat)
  BY SeqMonotonic DEF ListenerInv, ListenerTypeOK
<1>2. Held \in Seq(Nat)
  BY DEF Held, ListenerInv, ListenerTypeOK
<1>3. Stamped \in Seq(Nat)
  <2>1. CASE stamped
    <3>1. Head(samples).message \in Nat
      BY <2>1, FirstSample DEF ListenerInv, StampedOnce
    <3> QED
      BY <2>1, <3>1 DEF Stamped
  <2>2. CASE ~stamped
    BY <2>2 DEF Stamped
  <2> QED
    BY <2>1, <2>2
<1> QED
  BY <1>1, <1>2, <1>3

-----------------------------------------------------------------------------
(* The steps.                                                              *)

\* The steps of NewestWins, in terms of Pending.
LEMMA ChannelSteps ==
  /\ (\E m \in mLastDataAvailableTime + 1 .. MaxMessages :
        /\ mLastDataAvailableTime' = m /\ Pending' = Append(Pending, m) /\ UNCHANGED handled)
     => Channel!Accept
  /\ (\E i \in DOMAIN Pending :
        /\ Len(Pending) - i >= queueLen /\ Pending' = RemoveAt(Pending, i)
        /\ UNCHANGED <<mLastDataAvailableTime, handled>>)
     => Channel!Lose
  /\ (/\ Pending # <<>> /\ handled' = Append(handled, Head(Pending))
      /\ Pending' = Tail(Pending) /\ UNCHANGED mLastDataAvailableTime)
     => Channel!Deliver
  /\ UNCHANGED <<mLastDataAvailableTime, Pending, handled>> => UNCHANGED Channel!channelVars
<1>1. (\E m \in mLastDataAvailableTime + 1 .. MaxMessages :
        /\ mLastDataAvailableTime' = m /\ Pending' = Append(Pending, m) /\ UNCHANGED handled)
     => Channel!Accept
  BY DEF Channel!Accept, Pending, Held, Stamped
<1>2. (\E i \in DOMAIN Pending :
        /\ Len(Pending) - i >= queueLen /\ Pending' = RemoveAt(Pending, i)
        /\ UNCHANGED <<mLastDataAvailableTime, handled>>)
     => Channel!Lose
  BY DEF Channel!Lose, Channel!RemoveAt, RemoveAt, Pending, Held, Stamped
<1>3. (/\ Pending # <<>> /\ handled' = Append(handled, Head(Pending))
      /\ Pending' = Tail(Pending) /\ UNCHANGED mLastDataAvailableTime)
     => Channel!Deliver
  BY DEF Channel!Deliver, Pending, Held, Stamped
<1>4. UNCHANGED <<mLastDataAvailableTime, Pending, handled>> => UNCHANGED Channel!channelVars
  BY DEF Channel!channelVars, Pending, Held, Stamped
<1> QED
  BY <1>1, <1>2, <1>3, <1>4

ChannelStep == \/ Channel!Accept \/ Channel!Lose \/ Channel!Deliver
               \/ UNCHANGED Channel!channelVars

\* Steps that touch no message: the owner's, the tests of the queue thread and
\* its waits.
LEMMA QuietStep ==
  ASSUME ListenerInv, UNCHANGED <<mQueue, mCurSize, ddsVars, dataPtr, handled>>,
         rlsnr # "callback", rlsnr' # "callback", NothingQueued'
  PROVE  ListenerInv' /\ ChannelStep
<1>1. Pending' = Pending
  BY DEF Pending, Held, Stamped, ddsVars
<1>2. ChannelStep
  BY <1>1, ChannelSteps DEF ChannelStep, ddsVars
<1>3. ListenerTypeOK' /\ Counted'
  BY DEF ListenerInv, ListenerTypeOK, Counted, ddsVars
<1>4. HeldInCallback'
  BY DEF ListenerInv, HeldInCallback
<1>5. Latest' /\ NoneBeforeFirst' /\ StampedOnce'
  BY DEF ListenerInv, Latest, NoneBeforeFirst, StampedOnce, ddsVars
<1> QED
  BY <1>2, <1>3, <1>4, <1>5 DEF ListenerInv

\* The owner.
LEMMA OwnerStep ==
  ASSUME ListenerInv, SetListener \/ Detach \/ Destructor
  PROVE  ListenerInv' /\ ChannelStep
<1>0. NothingQueued /\ HeldInCallback
  BY DEF ListenerInv
<1>1. ASSUME UNCHANGED <<mQueue, mHasQueue, rlsnr>>,
             owner' \in {"created", "callbackSet"} => owner \in {"created", "callbackSet"}
      PROVE  NothingQueued'
  BY <1>0, <1>1 DEF NothingQueued
<1>2. ASSUME UNCHANGED <<mQueue, mCurSize, mHasQueue, ddsVars, rlsnrVars, handled>>,
             owner' \in {"created", "callbackSet"} => owner \in {"created", "callbackSet"}
      PROVE  ListenerInv' /\ ChannelStep
  <2>1. CASE rlsnr # "callback"
    BY <1>1, <1>2, <2>1, QuietStep DEF rlsnrVars
  <2>2. CASE rlsnr = "callback"
    <3>1. Pending' = Pending
      BY <1>2 DEF Pending, Held, Stamped, ddsVars, rlsnrVars
    <3>2. ChannelStep
      BY <1>2, <3>1, ChannelSteps DEF ChannelStep, ddsVars
    <3> QED
      BY <1>1, <1>2, <3>2
         DEF ListenerInv, ListenerTypeOK, Counted, HeldInCallback, Latest, NoneBeforeFirst,
             StampedOnce, ddsVars, rlsnrVars
  <2> QED
    BY <2>1, <2>2
<1>3. CASE \/ \E callback \in {"noHandler", "handler"} : SetCallback(callback)
           \/ Attach \/ Detach \/ Join
  BY <1>2, <1>3 DEF SetCallback, Attach, Detach, Join, queueVars
<1>4. CASE SetQuit
  BY <1>2, <1>4 DEF SetQuit, queueVars
<1>5. CASE InterruptQueue
  BY <1>2, <1>5 DEF InterruptQueue, Queue!Interrupt
<1>6. ASSUME NEW len \in {0, queueLen}, SetQueue(len)
      PROVE  ListenerInv' /\ ChannelStep
  <2>1. owner = "callbackSet" /\ ~mHasQueue /\ mQueue = <<>> /\ rlsnr = "none"
    BY <1>0, <1>6 DEF SetQueue, NothingQueued
  <2>2. /\ owner' = "queueSet" /\ mHasQueue' = (len > 0)
        /\ rlsnr' = IF len > 0 THEN "handlerTest" ELSE rlsnr
        /\ UNCHANGED <<mQueue, mCurSize, ddsVars, dataPtr, handled>>
    BY <1>6 DEF SetQueue, queueVars
  <2>3. NothingQueued' /\ rlsnr' # "callback"
    BY <2>1, <2>2 DEF NothingQueued
  <2> QED
    BY <2>1, <2>2, <2>3, QuietStep
<1> QED
  BY <1>3, <1>4, <1>5, <1>6 DEF SetListener, Destructor

\* reader.take(): the samples left are those that arrived.
LEMMA TakeStep ==
  ASSUME ListenerInv, NEW n \in 1..MaxBatch, NEW valid \in [1..n -> BOOLEAN], Take(n, valid)
  PROVE  ListenerInv' /\ ChannelStep
<1>0. MaxBatch \in Nat /\ MaxMessages \in Nat /\ n \in Nat
  BY ListenerAssumption
<1>1. /\ samples = <<>> /\ arrived + n <= MaxMessages /\ arrived' = arrived + n
      /\ samples' = [i \in 1..n |-> [message |-> arrived + i, valid |-> valid[i]]]
      /\ UNCHANGED <<queueVars, ownerVars, mLastDataAvailableTime, stamped, rlsnrVars, handled>>
  BY DEF Take
<1>2. arrived \in Nat /\ ~stamped /\ mLastDataAvailableTime \in Nat
      /\ mLastDataAvailableTime <= arrived
  BY <1>1 DEF ListenerInv, ListenerTypeOK, StampedOnce
<1>3. samples' \in Seq(Sample) /\ Len(samples') = n
      /\ \A i \in 1..n : samples'[i].message = arrived + i
  <2>1. \A i \in 1..n : [message |-> arrived + i, valid |-> valid[i]] \in Sample
    BY <1>0, <1>2 DEF Sample
  <2>2. samples' \in Seq(Sample)
    BY <1>0, <1>1, <2>1
  <2> QED
    BY <1>0, <1>1, <2>2
<1>4. Pending' = Pending
  BY <1>1, <1>2 DEF Pending, Held, Stamped, queueVars, rlsnrVars
<1>5. ChannelStep
  BY <1>1, <1>4, ChannelSteps DEF ChannelStep
<1>6. ListenerTypeOK'
  BY <1>0, <1>1, <1>2, <1>3 DEF ListenerInv, ListenerTypeOK, queueVars, rlsnrVars
<1>7. Counted' /\ HeldInCallback' /\ NothingQueued'
  BY <1>1 DEF ListenerInv, Counted, HeldInCallback, NothingQueued, queueVars, ownerVars, rlsnrVars
<1>8. Latest' /\ NoneBeforeFirst'
  BY <1>0, <1>1, <1>2, <1>3 DEF Latest, NoneBeforeFirst
<1>9. StampedOnce'
  BY <1>0, <1>1, <1>2, <1>3 DEF StampedOnce
<1> QED
  BY <1>5, <1>6, <1>7, <1>8, <1>9 DEF ListenerInv

\* An invalid sample is passed over.
LEMMA SkipStep ==
  ASSUME ListenerInv, SkipInvalid
  PROVE  ListenerInv' /\ ChannelStep
<1>1. /\ samples # <<>> /\ ~Head(samples).valid /\ samples' = Tail(samples)
      /\ UNCHANGED <<queueVars, ownerVars, mLastDataAvailableTime, arrived, stamped, rlsnrVars,
                     handled>>
  BY DEF SkipInvalid
<1>2. ~stamped
  BY <1>1 DEF ListenerInv, StampedOnce
<1>3. Pending' = Pending
  BY <1>1, <1>2 DEF Pending, Held, Stamped, queueVars, rlsnrVars
<1>4. ChannelStep
  BY <1>1, <1>3, ChannelSteps DEF ChannelStep
<1>5. ListenerTypeOK' /\ Latest' /\ NoneBeforeFirst'
  BY <1>1, FirstSample
     DEF ListenerInv, ListenerTypeOK, Latest, NoneBeforeFirst, queueVars, rlsnrVars
<1>6. Counted' /\ HeldInCallback' /\ NothingQueued'
  BY <1>1 DEF ListenerInv, Counted, HeldInCallback, NothingQueued, queueVars, ownerVars, rlsnrVars
<1>7. StampedOnce'
  <2>1. mLastDataAvailableTime <= arrived - Len(samples)
    BY <1>2 DEF ListenerInv, StampedOnce
  <2>2. Len(samples') = Len(samples) - 1 /\ Len(samples) \in Nat
    BY <1>1, FirstSample
  <2>3. mLastDataAvailableTime \in Nat /\ arrived \in Nat
    BY DEF ListenerInv, ListenerTypeOK
  <2> QED
    BY <1>1, <1>2, <2>1, <2>2, <2>3 DEF StampedOnce
<1> QED
  BY <1>4, <1>5, <1>6, <1>7 DEF ListenerInv

\* A message that is stamped is accepted: it is newer than all before it.
LEMMA StampStep ==
  ASSUME ListenerInv, Stamp
  PROVE  ListenerInv' /\ ChannelStep
<1> DEFINE m == Head(samples).message
<1>1. /\ samples # <<>> /\ Head(samples).valid /\ ~stamped
      /\ mLastDataAvailableTime' = m /\ stamped' = TRUE
      /\ UNCHANGED <<queueVars, ownerVars, arrived, samples, rlsnrVars, handled>>
  BY DEF Stamp
<1>2. m \in Nat /\ m = arrived - Len(samples) + 1 /\ Len(samples) \in Nat /\ Len(samples) >= 1
  BY <1>1, FirstSample
<1>3. /\ mLastDataAvailableTime \in Nat /\ arrived \in 0 .. MaxMessages /\ MaxMessages \in Nat
      /\ mLastDataAvailableTime <= arrived - Len(samples)
  BY <1>1, ListenerAssumption DEF ListenerInv, ListenerTypeOK, StampedOnce
<1> HIDE DEF m
<1>4. m \in mLastDataAvailableTime + 1 .. MaxMessages
  BY <1>2, <1>3
<1>5. Pending' = Append(Pending, m)
  <2>1. Pending = (Held \o mQueue) \o <<>>
    BY <1>1 DEF Pending, Stamped
  <2>2. Pending' = (Held \o mQueue) \o <<m>>
    BY <1>1 DEF Pending, Held, Stamped, queueVars, rlsnrVars, m
  <2> QED
    BY <1>2, <2>1, <2>2, PendingTypes, StampedIsLast
<1>6. ChannelStep
  BY <1>1, <1>4, <1>5, ChannelSteps DEF ChannelStep
<1>7. ListenerTypeOK'
  BY <1>1, <1>2 DEF ListenerInv, ListenerTypeOK, queueVars, rlsnrVars
<1>8. Counted' /\ HeldInCallback' /\ NothingQueued' /\ Latest' /\ NoneBeforeFirst'
  BY <1>1 DEF ListenerInv, Counted, HeldInCallback, NothingQueued, Latest, NoneBeforeFirst,
              queueVars, ownerVars, rlsnrVars
<1>9. StampedOnce'
  BY <1>1 DEF StampedOnce, m
<1> QED
  BY <1>6, <1>7, <1>8, <1>9 DEF ListenerInv

\* What is the same for the two ways to hand a stamped message on.
LEMMA HandedOn ==
  ASSUME ListenerInv, stamped, samples' = Tail(samples), stamped' = FALSE,
         UNCHANGED <<mLastDataAvailableTime, arrived>>
  PROVE  /\ samples' \in Seq(Sample) /\ Latest' /\ NoneBeforeFirst' /\ StampedOnce'
         /\ Head(samples).message \in Nat \ {0}
         /\ Stamped = <<Head(samples).message>> /\ Stamped' = <<>>
<1>1. samples # <<>> /\ mLastDataAvailableTime = Head(samples).message
  BY DEF ListenerInv, StampedOnce
<1>2. /\ samples' \in Seq(Sample) /\ Len(samples) \in Nat /\ Len(samples) >= 1
      /\ Head(samples).message = arrived - Len(samples) + 1 /\ Head(samples).message \in Nat
      /\ Len(samples') = Len(samples) - 1
      /\ \A i \in 1 .. Len(samples') : samples'[i].message = arrived - Len(samples') + i
  BY <1>1, FirstSample
<1>3. arrived \in Nat
  BY DEF ListenerInv, ListenerTypeOK
<1>4. Latest' /\ NoneBeforeFirst'
  BY <1>2, <1>3 DEF Latest, ListenerInv, NoneBeforeFirst
<1>5. StampedOnce'
  BY <1>1, <1>2, <1>3 DEF StampedOnce
<1>6. Head(samples).message # 0
  BY <1>2, <1>3 DEF ListenerInv, NoneBeforeFirst
<1> QED
  BY <1>2, <1>4, <1>5, <1>6 DEF Stamped

\* A stamped message goes into the queue; a full queue loses its earliest one.
LEMMA EnqueueStep ==
  ASSUME ListenerInv, Enqueue
  PROVE  ListenerInv' /\ ChannelStep
<1> DEFINE m == Head(samples).message
<1>1. /\ stamped /\ mHasQueue /\ samples' = Tail(samples) /\ stamped' = FALSE
      /\ Queue!Put(m, TRUE, FALSE)
      /\ UNCHANGED <<ownerVars, mLastDataAvailableTime, arrived, rlsnrVars, handled>>
  BY DEF Enqueue
<1>2. /\ mQueue' = Append(Queue!Evict, m)
      /\ mCurSize' = (IF Queue!Full THEN mCurSize - 1 ELSE mCurSize) + 1
  BY <1>1 DEF Queue!Put, Queue!PutRejects, Queue!PutAccepted
<1>3. /\ samples' \in Seq(Sample) /\ Latest' /\ NoneBeforeFirst' /\ StampedOnce' /\ m \in Nat \ {0}
      /\ Stamped = <<m>> /\ Stamped' = <<>>
  BY <1>1, HandedOn
<1> HIDE DEF m
<1>4. Held' = Held
  BY <1>1 DEF Held, rlsnrVars
<1>5. /\ mQueue \in Seq(Nat \ {0}) /\ mQueue \in Seq(Nat) /\ Held \in Seq(Nat)
      /\ mCurSize = Len(mQueue) /\ Len(mQueue) \in Nat /\ queueLen \in Nat \ {0}
  BY PendingTypes, ListenerAssumption, LenProperties DEF ListenerInv, ListenerTypeOK, Counted
<1>6. Queue!Full <=> mCurSize >= queueLen
  BY <1>5 DEF Queue!Full, Queue!mMaxSize
<1>7. HeldInCallback' /\ NothingQueued'
  BY <1>1 DEF ListenerInv, HeldInCallback, NothingQueued, ownerVars, rlsnrVars
<1>8. CASE Queue!Full
  <2>1. mQueue # <<>> /\ Len(mQueue) >= queueLen /\ mQueue' = Append(Tail(mQueue), m)
    BY <1>2, <1>5, <1>6, <1>8 DEF Queue!Evict
  <2>2. /\ Tail(mQueue) \in Seq(Nat \ {0}) /\ Len(Tail(mQueue)) = Len(mQueue) - 1
    BY <1>5, <2>1, HeadTailProperties
  <2>3. mQueue' \in Seq(Nat \ {0}) /\ Len(mQueue') = Len(mQueue) - 1 + 1
    BY <1>3, <2>1, <2>2, AppendProperties
  <2>4. Counted'
    BY <1>2, <1>5, <1>8, <2>3 DEF Counted
  <2>5. /\ Pending = (Held \o mQueue) \o <<m>>
        /\ Pending' = (Held \o Append(Tail(mQueue), m)) \o <<>>
    BY <1>3, <1>4, <2>1 DEF Pending
  <2>6. /\ Len(Held) + 1 \in DOMAIN Pending /\ Len(Pending) - (Len(Held) + 1) = Len(mQueue)
        /\ Pending' = RemoveAt(Pending, Len(Held) + 1)
    BY <1>3, <1>5, <2>1, <2>5, EvictedIsEarliest
  <2>7. ChannelStep
    BY <1>1, <2>1, <2>6, ChannelSteps DEF ChannelStep
  <2>8. ListenerTypeOK'
    BY <1>1, <1>3, <2>3 DEF ListenerInv, ListenerTypeOK, rlsnrVars
  <2> QED
    BY <1>3, <1>7, <2>4, <2>7, <2>8 DEF ListenerInv
<1>9. CASE ~Queue!Full
  <2>1. mQueue' = Append(mQueue, m)
    BY <1>2, <1>9 DEF Queue!Evict
  <2>2. mQueue' \in Seq(Nat \ {0}) /\ Len(mQueue') = Len(mQueue) + 1
    BY <1>3, <1>5, <2>1, AppendProperties
  <2>3. Counted'
    BY <1>2, <1>5, <1>9, <2>2 DEF Counted
  <2>4. Pending' = Pending
    <3>1. /\ Pending = (Held \o mQueue) \o <<m>>
          /\ Pending' = (Held \o Append(mQueue, m)) \o <<>>
      BY <1>3, <1>4, <2>1 DEF Pending
    <3> QED
      BY <1>3, <1>5, <3>1, QueuedStaysLast
  <2>5. ChannelStep
    BY <1>1, <2>4, ChannelSteps DEF ChannelStep
  <2>6. ListenerTypeOK'
    BY <1>1, <1>3, <2>2 DEF ListenerInv, ListenerTypeOK, rlsnrVars
  <2> QED
    BY <1>3, <1>7, <2>3, <2>5, <2>6 DEF ListenerInv
<1> QED
  BY <1>8, <1>9

\* Without a queue the stamped message, the only one pending, is delivered.
LEMMA HandleStep ==
  ASSUME ListenerInv, HandleDirectly
  PROVE  ListenerInv' /\ ChannelStep
<1> DEFINE m == Head(samples).message
<1>1. /\ stamped /\ ~mHasQueue /\ handled' = Append(handled, m)
      /\ samples' = Tail(samples) /\ stamped' = FALSE
      /\ UNCHANGED <<queueVars, ownerVars, mLastDataAvailableTime, arrived, rlsnrVars>>
  BY DEF HandleDirectly
<1>2. /\ samples' \in Seq(Sample) /\ Latest' /\ NoneBeforeFirst' /\ StampedOnce' /\ m \in Nat \ {0}
      /\ Stamped = <<m>> /\ Stamped' = <<>>
  BY <1>1, HandedOn
<1> HIDE DEF m
<1>3. mQueue = <<>> /\ rlsnr = "none" /\ Held = <<>> /\ Held' = <<>> /\ mQueue' = <<>>
  BY <1>1 DEF ListenerInv, NothingQueued, HeldInCallback, Held, queueVars, rlsnrVars
<1>4. Pending = (<<>> \o <<>>) \o <<m>> /\ Pending' = (<<>> \o <<>>) \o <<>>
  BY <1>2, <1>3 DEF Pending
<1>5. Pending = <<m>> /\ Pending' = <<>>
  <2>1. <<>> \in Seq(Nat) /\ <<m>> \in Seq(Nat)
    BY <1>2
  <2> QED
    BY <1>4, <2>1, ConcatEmptySeq
<1>6. Pending # <<>> /\ Head(Pending) = m /\ Pending' = Tail(Pending)
  BY <1>2, <1>5
<1>7. ChannelStep
  BY <1>1, <1>6, ChannelSteps DEF ChannelStep
<1>8. ListenerTypeOK'
  <2>1. handled' \in Seq(Nat)
    BY <1>1, <1>2, AppendProperties DEF ListenerInv, ListenerTypeOK
  <2> QED
    BY <1>1, <1>2, <2>1 DEF ListenerInv, ListenerTypeOK, queueVars, rlsnrVars
<1>9. Counted' /\ HeldInCallback' /\ NothingQueued'
  BY <1>1 DEF ListenerInv, Counted, HeldInCallback, NothingQueued, queueVars, ownerVars, rlsnrVars
<1> QED
  BY <1>2, <1>7, <1>8, <1>9 DEF ListenerInv

\* The queue thread has a message only after Get, and until the handler has
\* been run.
LEMMA NoMessageHeld ==
  ASSUME ListenerInv, rlsnr # "callback"
  PROVE  dataPtr = 0
  BY DEF ListenerInv, HeldInCallback

\* The tests and the waits of the queue thread.
LEMMA QueueThreadQuiet ==
  ASSUME ListenerInv,
         HandlerTest \/ QuitTest \/ GetWait \/ GetReturnsFalse
  PROVE  ListenerInv' /\ ChannelStep
<1>1. /\ rlsnr \in {"handlerTest", "quitTest", "get"}
      /\ rlsnr' \in {"quitTest", "exited", "get"}
      /\ UNCHANGED <<mQueue, mCurSize, ownerVars, ddsVars, dataPtr, handled>>
  BY DEF HandlerTest, QuitTest, GetWait, GetReturnsFalse, Queue!GetWait, Queue!GetResumeEmpty,
         queueVars, rlsnrVars
<1>2. NothingQueued'
  BY <1>1 DEF ListenerInv, NothingQueued, ownerVars
<1> QED
  BY <1>1, <1>2, QuietStep

\* A wait that ends by itself leaves all messages alone, also one that the
\* queue thread holds.
LEMMA SpuriousStep ==
  ASSUME ListenerInv, SpuriousWakeup
  PROVE  ListenerInv' /\ ChannelStep
<1>1. UNCHANGED <<mQueue, mCurSize, ownerVars, ddsVars, rlsnrVars, handled>>
  BY DEF SpuriousWakeup, Queue!SpuriousWakeup
<1>2. Pending' = Pending
  BY <1>1 DEF Pending, Held, Stamped, ddsVars, rlsnrVars
<1>3. ChannelStep
  BY <1>1, <1>2, ChannelSteps DEF ChannelStep, ddsVars
<1> QED
  BY <1>1, <1>3
     DEF ListenerInv, ListenerTypeOK, Counted, HeldInCallback, NothingQueued, Latest,
         NoneBeforeFirst, StampedOnce, ddsVars, ownerVars, rlsnrVars

\* Get takes the earliest message, which is still pending.
LEMMA GetStep ==
  ASSUME ListenerInv, GetMessage
  PROVE  ListenerInv' /\ ChannelStep
<1>1. /\ rlsnr = "get" /\ mQueue # <<>> /\ mQueue' = Tail(mQueue) /\ mCurSize' = mCurSize - 1
      /\ dataPtr' = Head(mQueue) /\ rlsnr' = "callback"
      /\ UNCHANGED <<ownerVars, ddsVars, handled>>
  BY DEF GetMessage, Queue!GetAvailable, Queue!GetResumeTakes, Queue!PopFront
<1>2. mQueue \in Seq(Nat \ {0}) /\ mQueue \in Seq(Nat)
  BY PendingTypes DEF ListenerInv, ListenerTypeOK
<1>3. /\ Head(mQueue) \in Nat \ {0} /\ mQueue' \in Seq(Nat \ {0})
      /\ Len(mQueue') = Len(mQueue) - 1
  BY <1>1, <1>2, HeadTailProperties
<1>4. Held = <<>> /\ Held' = <<Head(mQueue)>> /\ Stamped' = Stamped
  BY <1>1, <1>3, NoMessageHeld DEF Held, Stamped, ddsVars
<1>5. Pending' = Pending
  <2>1. <<Head(mQueue)>> \o Tail(mQueue) = <<>> \o mQueue
    BY <1>1, <1>2, TakenStaysFirst
  <2> QED
    BY <1>1, <1>4, <2>1 DEF Pending
<1>6. ChannelStep
  BY <1>1, <1>5, ChannelSteps DEF ChannelStep, ddsVars
<1>7. ListenerTypeOK' /\ Counted'
  BY <1>1, <1>3 DEF ListenerInv, ListenerTypeOK, Counted, ddsVars
<1>8. HeldInCallback'
  BY <1>1, <1>3 DEF HeldInCallback
<1>9. NothingQueued'
  BY <1>1 DEF ListenerInv, NothingQueued, ownerVars
<1>10. Latest' /\ NoneBeforeFirst' /\ StampedOnce'
  BY <1>1 DEF ListenerInv, Latest, NoneBeforeFirst, StampedOnce, ddsVars
<1> QED
  BY <1>6, <1>7, <1>8, <1>9, <1>10 DEF ListenerInv

\* The handler is run with the message held, the first one pending.
LEMMA CallbackStep ==
  ASSUME ListenerInv, OnDataAvailable
  PROVE  ListenerInv' /\ ChannelStep
<1>1. /\ rlsnr = "callback" /\ handled' = Append(handled, dataPtr) /\ dataPtr' = 0
      /\ rlsnr' = "quitTest" /\ UNCHANGED <<queueVars, ownerVars, ddsVars>>
  BY DEF OnDataAvailable
<1>2. dataPtr \in Nat /\ dataPtr # 0 /\ handled \in Seq(Nat)
  BY <1>1 DEF ListenerInv, ListenerTypeOK, HeldInCallback
<1>3. Held = <<dataPtr>> /\ Held' = <<>> /\ mQueue' = mQueue /\ Stamped' = Stamped
  BY <1>1, <1>2 DEF Held, Stamped, queueVars, ddsVars
<1>4. Pending = (<<dataPtr>> \o mQueue) \o Stamped /\ Pending' = (<<>> \o mQueue) \o Stamped
  BY <1>3 DEF Pending
<1>5. Pending # <<>> /\ Head(Pending) = dataPtr /\ Pending' = Tail(Pending)
  BY <1>2, <1>4, PendingTypes, DeliveredIsFirst
<1>6. ChannelStep
  BY <1>1, <1>5, ChannelSteps DEF ChannelStep, ddsVars
<1>7. ListenerTypeOK'
  <2>1. handled' \in Seq(Nat)
    BY <1>1, <1>2, AppendProperties
  <2> QED
    BY <1>1, <2>1 DEF ListenerInv, ListenerTypeOK, queueVars, ddsVars
<1>8. Counted' /\ HeldInCallback' /\ NothingQueued'
  BY <1>1 DEF ListenerInv, Counted, HeldInCallback, NothingQueued, queueVars, ownerVars
<1>9. Latest' /\ NoneBeforeFirst' /\ StampedOnce'
  BY <1>1 DEF ListenerInv, Latest, NoneBeforeFirst, StampedOnce, ddsVars
<1> QED
  BY <1>6, <1>7, <1>8, <1>9 DEF ListenerInv

\* Every step of the subscription preserves the invariant, and is a step of
\* NewestWins or leaves its variables alone.
LEMMA StepSimulated == ListenerInv /\ [Next]_vars => ListenerInv' /\ ChannelStep
<1> SUFFICES ASSUME ListenerInv, [Next]_vars PROVE ListenerInv' /\ ChannelStep
  OBVIOUS
<1>1. CASE UNCHANGED vars
  <2>1. Pending' = Pending
    BY <1>1 DEF Pending, Held, Stamped, vars
  <2>2. ChannelStep
    BY <1>1, <2>1, ChannelSteps DEF ChannelStep, vars
  <2> QED
    BY <1>1, <2>2
       DEF ListenerInv, ListenerTypeOK, Counted, HeldInCallback, NothingQueued, Latest,
           NoneBeforeFirst, StampedOnce, vars
<1>2. CASE SetListener \/ Detach \/ Destructor
  BY <1>2, OwnerStep
<1>3. CASE \E n \in 1..MaxBatch : \E valid \in [1..n -> BOOLEAN] : Take(n, valid)
  BY <1>3, TakeStep
<1>4. CASE DdsThread
  BY <1>4, SkipStep, StampStep, EnqueueStep, HandleStep DEF DdsThread
<1>5. CASE QueueThread
  BY <1>5, QueueThreadQuiet, GetStep, CallbackStep DEF QueueThread
<1>6. CASE SpuriousWakeup
  BY <1>6, SpuriousStep
<1> QED
  BY <1>1, <1>2, <1>3, <1>4, <1>5, <1>6 DEF Next

\* The subscription implements NewestWins for every queue length, batch size
\* and number of messages: the handler sees messages in order and none twice,
\* and one is lost only when queueLen newer ones are waiting.
THEOREM SubscriptionImplementsNewestWins == Spec => ImplementsNewestWins
<1>1. Init => Channel!ChannelInit
  <2> SUFFICES ASSUME Init PROVE Channel!ChannelInit
    OBVIOUS
  <2>1. /\ mQueue = <<>> /\ dataPtr = 0 /\ ~stamped /\ handled = <<>>
        /\ mLastDataAvailableTime = 0
    BY DEF Init, Queue!Init
  <2>2. (<<>> \o <<>>) \o <<>> = <<>>
    BY ConcatEmptySeq, EmptySeq
  <2> QED
    BY <2>1, <2>2 DEF Channel!ChannelInit
<1>2. ChannelStep => [Channel!Accept \/ Channel!Lose \/ Channel!Deliver]_Channel!channelVars
  BY DEF ChannelStep
<1> QED
  BY ListenerInitInv, StepSimulated, <1>1, <1>2, PTL
     DEF Spec, ImplementsNewestWins, Channel!ChannelSpec

=============================================================================
