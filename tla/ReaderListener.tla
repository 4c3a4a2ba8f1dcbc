--------------------------- MODULE ReaderListener ---------------------------
(***************************************************************************)
(* One subscription: DdsReader and DdsReaderListener of                    *)
(* include/unitree/common/dds/dds_entity.hpp, on top of BlockQueue.        *)
(*                                                                         *)
(* Three threads meet here.  The owner opens the reader (SetListener) and  *)
(* later destroys it.  The DDS thread runs on_data_available: it stamps    *)
(* and hands on the valid samples it took.  With a queue, the thread       *)
(* "rlsnr" takes messages from the queue and runs the user's handler;      *)
(* without one the DDS thread runs the handler itself.                     *)
(*                                                                         *)
(* A message is its arrival number.  The monotonic time stamped on it is   *)
(* that number too: it grows with every arrival.                           *)
(***************************************************************************)
EXTENDS Integers, Sequences, SequencesExt

CONSTANTS
  queueLen,   \* the queue length the owner may ask for (it may also ask for 0)
  MaxBatch,   \* bound: samples one reader.take() returns
  MaxMessages \* bound: messages that ever arrive

ASSUME ListenerAssumption ==
  /\ queueLen \in Nat \ {0}
  /\ MaxBatch \in Nat \ {0}
  /\ MaxMessages \in Nat

VARIABLES
  mQueue, mCurSize, getter,  \* the BlockQueue
  owner,                     \* where the owner is in the life of the reader
  mHasQueue,
  mCallbackPtr,              \* the callback: none yet, one without or one with a handler
  mQuit,
  mLastDataAvailableTime,
  arrived,                   \* number of messages that have arrived
  samples,                   \* what on_data_available still has to iterate over
  stamped,                   \* the sample at its head has been stamped
  rlsnr,                     \* where the queue thread is
  dataPtr,                   \* the message the queue thread took, 0 for null
  handled                    \* history: the messages given to the handler

vars == <<mQueue, mCurSize, getter, owner, mHasQueue, mCallbackPtr, mQuit,
          mLastDataAvailableTime, arrived, samples, stamped, rlsnr, dataPtr, handled>>

queueVars == <<mQueue, mCurSize, getter>>
ownerVars == <<owner, mHasQueue, mCallbackPtr, mQuit>>
ddsVars   == <<mLastDataAvailableTime, arrived, samples, stamped>>
rlsnrVars == <<rlsnr, dataPtr>>

Thread == "rlsnr"

Queue == INSTANCE BlockQueue WITH
           Items <- Nat, Consumers <- {Thread}, maxSize <- queueLen,
           UT_QUEUE_MAX_LEN <- queueLen

OwnerStates == {"created", "callbackSet", "queueSet", "attached",
                "detached", "quitting", "joining", "destroyed"}
RlsnrStates == {"none", "handlerTest", "quitTest", "get", "callback", "exited"}

Init ==
  /\ Queue!Init
  /\ owner = "created"
  /\ mHasQueue = FALSE
  /\ mCallbackPtr = "null"
  /\ mQuit = FALSE
  /\ mLastDataAvailableTime = 0
  /\ arrived = 0
  /\ samples = <<>>
  /\ stamped = FALSE
  /\ rlsnr = "none"
  /\ dataPtr = 0
  /\ handled = <<>>

-----------------------------------------------------------------------------
(* The owner: SetListener, then the destructors.                           *)

\* A reader may be opened without a handler; its mask then has no
\* data_available.
SetCallback(callback) ==
  /\ owner = "created"
  /\ owner' = "callbackSet"
  /\ mCallbackPtr' = callback
  /\ UNCHANGED <<queueVars, mHasQueue, mQuit, ddsVars, rlsnrVars, handled>>

SetQueue(len) ==
  /\ owner = "callbackSet"
  /\ owner' = "queueSet"
  /\ mHasQueue' = (len > 0)
  /\ rlsnr' = IF len > 0 THEN "handlerTest" ELSE rlsnr
  /\ UNCHANGED <<queueVars, mCallbackPtr, mQuit, ddsVars, dataPtr, handled>>

HasMessageHandler == mCallbackPtr = "handler"

\* mNative.listener(...): from here on DDS calls on_data_available, if that is
\* in the mask.
Attach ==
  /\ owner = "queueSet"
  /\ owner' = "attached"
  /\ UNCHANGED <<queueVars, mHasQueue, mCallbackPtr, mQuit, ddsVars, rlsnrVars, handled>>

\* ~DdsReader: mNative is reset.  Deleting a DDS reader waits for the listener
\* call in progress, and none starts afterwards.
Detach ==
  /\ owner = "attached"
  /\ samples = <<>>
  /\ owner' = "detached"
  /\ UNCHANGED <<queueVars, mHasQueue, mCallbackPtr, mQuit, ddsVars, rlsnrVars, handled>>

\* ~DdsReaderListener starts: mQuit = true, when there is a queue.
SetQuit ==
  /\ owner = "detached"
  /\ IF mHasQueue
     THEN owner' = "quitting" /\ mQuit' = TRUE
     ELSE owner' = "destroyed" /\ UNCHANGED mQuit
  /\ UNCHANGED <<queueVars, mHasQueue, mCallbackPtr, ddsVars, rlsnrVars, handled>>

\* Mutation of InterruptQueue: mQuit is set, but nobody is woken.
InterruptForgotten ==
  /\ owner = "quitting"
  /\ owner' = "joining"
  /\ UNCHANGED <<queueVars, mHasQueue, mCallbackPtr, mQuit, ddsVars, rlsnrVars, handled>>

InterruptQueue ==
  /\ owner = "quitting"
  /\ Queue!Interrupt(FALSE)
  /\ owner' = "joining"
  /\ UNCHANGED <<mHasQueue, mCallbackPtr, mQuit, ddsVars, rlsnrVars, handled>>

Join ==
  /\ owner = "joining"
  /\ rlsnr = "exited"
  /\ owner' = "destroyed"
  /\ UNCHANGED <<queueVars, mHasQueue, mCallbackPtr, mQuit, ddsVars, rlsnrVars, handled>>

-----------------------------------------------------------------------------
(* The DDS thread: on_data_available.                                      *)

\* reader.take(): some samples, each valid or not (a disposed instance).
Take(n, valid) ==
  /\ owner = "attached" /\ HasMessageHandler
  /\ samples = <<>>
  /\ arrived + n <= MaxMessages
  /\ samples' = [i \in 1..n |-> [message |-> arrived + i, valid |-> valid[i]]]
  /\ arrived' = arrived + n
  /\ UNCHANGED <<queueVars, ownerVars, mLastDataAvailableTime, stamped, rlsnrVars, handled>>

SkipInvalid ==
  /\ samples # <<>>
  /\ ~Head(samples).valid
  /\ samples' = Tail(samples)
  /\ UNCHANGED <<queueVars, ownerVars, mLastDataAvailableTime, arrived, stamped, rlsnrVars, handled>>

Stamp ==
  /\ samples # <<>>
  /\ Head(samples).valid
  /\ ~stamped
  /\ mLastDataAvailableTime' = Head(samples).message
  /\ stamped' = TRUE
  /\ UNCHANGED <<queueVars, ownerVars, arrived, samples, rlsnrVars, handled>>

\* Mutation of Enqueue: the message is put at the front of the queue, where
\* the next replacing Put evicts it.
EnqueueFront ==
  /\ stamped
  /\ mHasQueue
  /\ Queue!Put(Head(samples).message, TRUE, TRUE)
  /\ samples' = Tail(samples)
  /\ stamped' = FALSE
  /\ UNCHANGED <<ownerVars, mLastDataAvailableTime, arrived, rlsnrVars, handled>>

\* Put(..., replace = true): a full queue evicts its earliest message.
Enqueue ==
  /\ stamped
  /\ mHasQueue
  /\ Queue!Put(Head(samples).message, TRUE, FALSE)
  /\ samples' = Tail(samples)
  /\ stamped' = FALSE
  /\ UNCHANGED <<ownerVars, mLastDataAvailableTime, arrived, rlsnrVars, handled>>

HandleDirectly ==
  /\ stamped
  /\ ~mHasQueue
  /\ handled' = Append(handled, Head(samples).message)
  /\ samples' = Tail(samples)
  /\ stamped' = FALSE
  /\ UNCHANGED <<queueVars, ownerVars, mLastDataAvailableTime, arrived, rlsnrVars>>

-----------------------------------------------------------------------------
(* The queue thread.                                                       *)

\* Without a handler the thread sleeps and tests again, whatever mQuit says: that
\* changes nothing, so only a test that succeeds is a step.
HandlerTest ==
  /\ rlsnr = "handlerTest"
  /\ HasMessageHandler
  /\ rlsnr' = "quitTest"
  /\ UNCHANGED <<queueVars, ownerVars, ddsVars, dataPtr, handled>>

\* Mutation of QuitTest: the loop ends while mQuit is not set.
QuitTestInverted ==
  /\ rlsnr = "quitTest"
  /\ rlsnr' = IF mQuit THEN "get" ELSE "exited"
  /\ UNCHANGED <<queueVars, ownerVars, ddsVars, dataPtr, handled>>

QuitTest ==
  /\ rlsnr = "quitTest"
  /\ rlsnr' = IF mQuit THEN "exited" ELSE "get"
  /\ UNCHANGED <<queueVars, ownerVars, ddsVars, dataPtr, handled>>

\* Get without a timeout, when a message is there or after a wait.
GetMessage ==
  /\ rlsnr = "get"
  /\ Queue!GetAvailable(Thread) \/ Queue!GetResumeTakes(Thread)
  /\ dataPtr' = Head(mQueue)
  /\ rlsnr' = "callback"
  /\ UNCHANGED <<ownerVars, ddsVars, handled>>

GetWait ==
  /\ rlsnr = "get"
  /\ Queue!GetWait(Thread, FALSE)
  /\ UNCHANGED <<ownerVars, ddsVars, rlsnrVars, handled>>

GetReturnsFalse ==
  /\ rlsnr = "get"
  /\ Queue!GetResumeEmpty(Thread)
  /\ rlsnr' = "quitTest"
  /\ UNCHANGED <<ownerVars, ddsVars, dataPtr, handled>>

SpuriousWakeup ==
  /\ Queue!SpuriousWakeup(Thread)
  /\ UNCHANGED <<ownerVars, ddsVars, rlsnrVars, handled>>

OnDataAvailable ==
  /\ rlsnr = "callback"
  /\ handled' = Append(handled, dataPtr)
  /\ dataPtr' = 0
  /\ rlsnr' = "quitTest"
  /\ UNCHANGED <<queueVars, ownerVars, ddsVars>>

-----------------------------------------------------------------------------

SetListener ==
  \/ \E callback \in {"noHandler", "handler"} : SetCallback(callback)
  \/ \E len \in {0, queueLen} : SetQueue(len)
  \/ Attach

Destructor == SetQuit \/ InterruptQueue \/ Join

DdsThread == SkipInvalid \/ Stamp \/ Enqueue \/ HandleDirectly

QueueThread ==
  HandlerTest \/ QuitTest \/ GetMessage \/ GetWait \/ GetReturnsFalse \/ OnDataAvailable

Next ==
  \/ SetListener
  \/ Detach
  \/ Destructor
  \/ \E n \in 1..MaxBatch : \E valid \in [1..n -> BOOLEAN] : Take(n, valid)
  \/ DdsThread
  \/ QueueThread
  \/ SpuriousWakeup

Spec == Init /\ [][Next]_vars

\* Threads that can run do run.  Arrivals, the decision to close the reader and
\* spurious wakeups are not owed by anyone.
FairSpec ==
  /\ Spec
  /\ WF_vars(SetListener)
  /\ WF_vars(Destructor)
  /\ WF_vars(DdsThread)
  /\ WF_vars(QueueThread)

-----------------------------------------------------------------------------
(* Properties.                                                             *)

Message == 0..MaxMessages

\* The variables keep their types.
TypeOK ==
  /\ Queue!TypeOK
  /\ owner \in OwnerStates
  /\ mHasQueue \in BOOLEAN /\ mQuit \in BOOLEAN
  /\ mCallbackPtr \in {"null", "noHandler", "handler"}
  /\ mLastDataAvailableTime \in Message /\ arrived \in Message
  /\ samples \in Seq([message : Message, valid : BOOLEAN])
  /\ stamped \in BOOLEAN
  /\ rlsnr \in RlsnrStates
  /\ dataPtr \in Message
  /\ handled \in Seq(Message)

\* The refinement mapping: a message is pending from the moment it is stamped,
\* while it is queued, and until the handler has been run with it.
Channel == INSTANCE NewestWins WITH
  Capacity  <- queueLen,
  newest    <- mLastDataAvailableTime,
  pending   <- (IF dataPtr = 0 THEN <<>> ELSE <<dataPtr>>) \o mQueue
                 \o (IF stamped THEN <<Head(samples).message>> ELSE <<>>),
  delivered <- handled

\* The subscription keeps the promise of NewestWins, with whatever batches,
\* evictions, interrupted waits and shutdown happen in between: the handler sees
\* messages in order and none twice, and on_data_available gives up a message
\* only when queueLen newer ones are waiting.
ImplementsNewestWins == Channel!ChannelSpec

\* As long as the listener is not shut down, a queued message does not stay
\* queued: it is handled, or evicted for a newer one.
QueuedMessageLeaves ==
  \A m \in 1..MaxMessages :
    Contains(mQueue, m) ~> (~Contains(mQueue, m) \/ mQuit)

\* The queue thread has passed its mQuit test and not yet started to wait.
AboutToWait ==
  /\ rlsnr = "get"
  /\ getter[Thread] = "idle"
  /\ mQueue = <<>>

\* Once mQuit is set the destructor returns, wherever the queue thread was: not
\* yet started on its messages, asleep, woken, running the handler, or with
\* messages left to take.  There are two exceptions: a thread about to wait
\* misses the Interrupt, and one without a handler never looks at mQuit.
JoinReturns ==
  (owner = "quitting" /\ HasMessageHandler /\ ~AboutToWait) ~> (owner = "destroyed")

\* A Get that is not timed ends when the queue is interrupted, so a destructor
\* that has set mQuit and interrupts the queue gets to the end of its join, if
\* its thread got as far as to take messages.
InterruptEndsGet ==
  (owner = "quitting" /\ HasMessageHandler) ~> (owner = "destroyed")

=============================================================================
