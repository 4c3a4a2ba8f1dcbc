------------------------- MODULE RealTimePublisher --------------------------
(***************************************************************************)
(* RealTimePublisher of include/unitree/dds_wrapper/common/Publisher.h and *)
(* the publishers derived from it that seal the message with a CRC         *)
(* (LowCmd and LowState in dds_wrapper/robots).                            *)
(*                                                                         *)
(* Users fill msg_ under the mutex and hand it over with unlockAndPublish; *)
(* the publishing loop, a thread of its own, copies and writes it.  turn_  *)
(* says whose turn it is, keep_running_ and is_running_ connect the loop   *)
(* and the destructor.                                                     *)
(*                                                                         *)
(* A message is made of two halves, written one after the other, and the   *)
(* CRC.  The content of a message is the number of the write it comes      *)
(* from; a CRC is named by the content it was computed over.               *)
(***************************************************************************)
EXTENDS Integers

CONSTANTS
  Users,       \* the threads that fill msg_
  MaxWrites,   \* bound: how often msg_ is filled
  MaxHandovers \* bound: how often it is handed over

ASSUME UsersAssumption == "loop" \notin Users /\ "free" \notin Users

ASSUME BoundsAssumption == MaxWrites \in Nat /\ MaxHandovers \in Nat

VARIABLES
  msg_,           \* the shared message
  turn_,
  mutex_,         \* who holds the mutex, "free" if nobody does
  keep_running_,
  is_running_,
  loop,           \* where the publishing loop is
  outgoing,       \* the loop's copy
  published,      \* the messages given to publisher_->Write
  sent,           \* how many calls of Write that were
  user,           \* where each user is
  writes,         \* how often msg_ was filled
  handed,         \* history: the contents handed over with unlockAndPublish
  handovers,      \* history: how many hand-overs that were
  rtHanded,       \* history: those of them that started with trylock
  owner           \* where the owner is in the destructors

vars == <<msg_, turn_, mutex_, keep_running_, is_running_, loop, outgoing,
          published, sent, user, writes, handed, handovers, rtHanded, owner>>

loopVars == <<is_running_, loop, outgoing, published, sent>>
handVars == <<handed, handovers, rtHanded>>
userVars == <<user, writes, handVars>>

Message == [lo : Nat, hi : Nat, crc : Nat]

\* A user that holds the mutex came by trylock ("rt") or by lock ("nonRt").
Holding == {"rt", "nonRt"}
HalfWritten == {"rtHalf", "nonRtHalf"}
LoopStates == {"notStarted", "setTurn", "test", "lock", "inspect", "writeTest",
               "write", "end", "done"}
OwnerStates == {"alive", "derivedDestroyed", "stopped", "joining", "destroyed"}

\* msg_{}, and the base constructor starts the thread.
Init ==
  /\ msg_ = [lo |-> 0, hi |-> 0, crc |-> 0]
  /\ turn_ = "LOOP_NOT_STARTED"
  /\ mutex_ = "free"
  /\ keep_running_ = TRUE
  /\ is_running_ = FALSE
  /\ loop = "notStarted"
  /\ outgoing = [lo |-> 0, hi |-> 0, crc |-> 0]
  /\ published = {}
  /\ sent = 0
  /\ user = [u \in Users |-> "idle"]
  /\ writes = 0
  /\ handed = {}
  /\ handovers = 0
  /\ rtHanded = {}
  /\ owner = "alive"

-----------------------------------------------------------------------------
(* The users.  An object is only used until its destruction starts.        *)

\* Mutation of trylock: the turn is not looked at.
trylockAnyTurn(u) ==
  /\ owner = "alive" /\ user[u] = "idle"
  /\ mutex_ = "free"
  /\ mutex_' = u
  /\ user' = [user EXCEPT ![u] = "rt"]
  /\ UNCHANGED <<msg_, turn_, keep_running_, loopVars, writes, handVars, owner>>

\* trylock that returns true; when the mutex is taken, or it is not the
\* realtime side's turn, it returns false and leaves everything as it was.
trylock(u) ==
  /\ owner = "alive" /\ user[u] = "idle"
  /\ mutex_ = "free"
  /\ turn_ = "REALTIME"
  /\ mutex_' = u
  /\ user' = [user EXCEPT ![u] = "rt"]
  /\ UNCHANGED <<msg_, turn_, keep_running_, loopVars, writes, handVars, owner>>

\* lock: spins on try_lock, whatever the turn is.
lock(u) ==
  /\ owner = "alive" /\ user[u] = "idle"
  /\ mutex_ = "free"
  /\ mutex_' = u
  /\ user' = [user EXCEPT ![u] = "nonRt"]
  /\ UNCHANGED <<msg_, turn_, keep_running_, loopVars, writes, handVars, owner>>

FillFirstHalf(u) ==
  /\ user[u] \in Holding
  /\ writes < MaxWrites
  /\ writes' = writes + 1
  /\ msg_' = [msg_ EXCEPT !.lo = writes + 1]
  /\ user' = [user EXCEPT ![u] = IF @ = "rt" THEN "rtHalf" ELSE "nonRtHalf"]
  /\ UNCHANGED <<turn_, mutex_, keep_running_, loopVars, handVars, owner>>

FillSecondHalf(u) ==
  /\ user[u] \in HalfWritten
  /\ msg_' = [msg_ EXCEPT !.hi = msg_.lo]
  /\ user' = [user EXCEPT ![u] = IF @ = "rtHalf" THEN "rt" ELSE "nonRt"]
  /\ UNCHANGED <<turn_, mutex_, keep_running_, loopVars, writes, handVars, owner>>

\* Mutation of unlockAndPublish: the turn is not passed on.
unlockAndForget(u) ==
  /\ user[u] \in Holding
  /\ handovers < MaxHandovers
  /\ mutex_' = "free"
  /\ handovers' = handovers + 1
  /\ handed' = handed \cup {msg_.lo}
  /\ rtHanded' = IF user[u] = "rt" THEN rtHanded \cup {msg_.lo} ELSE rtHanded
  /\ user' = [user EXCEPT ![u] = "idle"]
  /\ UNCHANGED <<msg_, turn_, keep_running_, loopVars, writes, owner>>

unlockAndPublish(u) ==
  /\ user[u] \in Holding
  /\ handovers < MaxHandovers
  /\ turn_' = "NON_REALTIME"
  /\ mutex_' = "free"
  /\ handovers' = handovers + 1
  /\ handed' = handed \cup {msg_.lo}
  /\ rtHanded' = IF user[u] = "rt" THEN rtHanded \cup {msg_.lo} ELSE rtHanded
  /\ user' = [user EXCEPT ![u] = "idle"]
  /\ UNCHANGED <<msg_, keep_running_, loopVars, writes, owner>>

unlock(u) ==
  /\ user[u] \in Holding
  /\ mutex_' = "free"
  /\ user' = [user EXCEPT ![u] = "idle"]
  /\ UNCHANGED <<msg_, turn_, keep_running_, loopVars, writes, handVars, owner>>

\* stop() is public.
stop ==
  /\ owner = "alive"
  /\ keep_running_' = FALSE
  /\ UNCHANGED <<msg_, turn_, mutex_, loopVars, userVars, owner>>

-----------------------------------------------------------------------------
(* The destructors.                                                        *)

\* The derived part goes first: from here on pre_communication is the empty
\* one of the base class.
DestroyDerived ==
  /\ owner = "alive"
  /\ \A u \in Users : user[u] = "idle"
  /\ owner' = "derivedDestroyed"
  /\ UNCHANGED <<msg_, turn_, mutex_, keep_running_, loopVars, userVars>>

DestructorStop ==
  /\ owner = "derivedDestroyed"
  /\ keep_running_' = FALSE
  /\ owner' = "stopped"
  /\ UNCHANGED <<msg_, turn_, mutex_, loopVars, userVars>>

\* while (is_running()) sleep: not entered, too, if the loop has not begun.
DestructorSeesNotRunning ==
  /\ owner = "stopped"
  /\ ~is_running_
  /\ owner' = "joining"
  /\ UNCHANGED <<msg_, turn_, mutex_, keep_running_, loopVars, userVars>>

DestructorJoin ==
  /\ owner = "joining"
  /\ loop = "done"
  /\ owner' = "destroyed"
  /\ UNCHANGED <<msg_, turn_, mutex_, keep_running_, loopVars, userVars>>

-----------------------------------------------------------------------------
(* publishingLoop.                                                         *)

LoopStart ==
  /\ loop = "notStarted"
  /\ is_running_' = TRUE
  /\ loop' = "setTurn"
  /\ UNCHANGED <<msg_, turn_, mutex_, keep_running_, outgoing, published, sent, userVars, owner>>

\* turn_ = REALTIME, without the mutex.
LoopSetTurn ==
  /\ loop = "setTurn"
  /\ turn_' = "REALTIME"
  /\ loop' = "test"
  /\ UNCHANGED <<msg_, mutex_, keep_running_, is_running_, outgoing, published, sent, userVars, owner>>

LoopTest ==
  /\ loop = "test"
  /\ loop' = IF keep_running_ THEN "lock" ELSE "end"
  /\ UNCHANGED <<msg_, turn_, mutex_, keep_running_, is_running_, outgoing, published, sent, userVars, owner>>

\* Mutation of LoopLock: the loop does not wait for the mutex.
LoopNoLock ==
  /\ loop = "lock"
  /\ loop' = "inspect"
  /\ UNCHANGED <<msg_, turn_, mutex_, keep_running_, is_running_, outgoing, published, sent, userVars, owner>>

LoopLock ==
  /\ loop = "lock"
  /\ mutex_ = "free"
  /\ mutex_' = "loop"
  /\ loop' = "inspect"
  /\ UNCHANGED <<msg_, turn_, keep_running_, is_running_, outgoing, published, sent, userVars, owner>>

\* Mutation of LoopWaitTurn: the inner loop does not look at keep_running_.
LoopWaitTurnAlways ==
  /\ loop = "inspect"
  /\ turn_ # "NON_REALTIME"
  /\ mutex_' = "free"
  /\ loop' = "lock"
  /\ UNCHANGED <<msg_, turn_, keep_running_, is_running_, outgoing, published, sent, userVars, owner>>

LoopWaitTurn ==
  /\ loop = "inspect"
  /\ turn_ # "NON_REALTIME" /\ keep_running_
  /\ mutex_' = "free"
  /\ loop' = "lock"
  /\ UNCHANGED <<msg_, turn_, keep_running_, is_running_, outgoing, published, sent, userVars, owner>>

\* pre_communication of the derived publisher computes the CRC over msg_.
pre_communication == IF owner = "alive" THEN [msg_ EXCEPT !.crc = msg_.lo] ELSE msg_

\* Mutation of LoopCopy: msg_ is copied before pre_communication.
LoopCopyUnsealed ==
  /\ loop = "inspect"
  /\ turn_ = "NON_REALTIME" \/ ~keep_running_
  /\ outgoing' = msg_
  /\ msg_' = pre_communication
  /\ turn_' = "REALTIME"
  /\ mutex_' = "free"
  /\ loop' = "writeTest"
  /\ UNCHANGED <<keep_running_, is_running_, published, sent, userVars, owner>>

LoopCopy ==
  /\ loop = "inspect"
  /\ turn_ = "NON_REALTIME" \/ ~keep_running_
  /\ msg_' = pre_communication
  /\ outgoing' = msg_'
  /\ turn_' = "REALTIME"
  /\ mutex_' = "free"
  /\ loop' = "writeTest"
  /\ UNCHANGED <<keep_running_, is_running_, published, sent, userVars, owner>>

\* Mutation of LoopWriteTest: the message is written whether or not it was
\* handed over when the loop was stopped.
LoopWriteUntested ==
  /\ loop = "writeTest"
  /\ loop' = "write"
  /\ UNCHANGED <<msg_, turn_, mutex_, keep_running_, is_running_, outgoing, published, sent, userVars, owner>>

LoopWriteTest ==
  /\ loop = "writeTest"
  /\ loop' = IF keep_running_ THEN "write" ELSE "test"
  /\ UNCHANGED <<msg_, turn_, mutex_, keep_running_, is_running_, outgoing, published, sent, userVars, owner>>

LoopWrite ==
  /\ loop = "write"
  /\ published' = published \cup {outgoing}
  /\ sent' = sent + 1
  /\ loop' = "test"
  /\ UNCHANGED <<msg_, turn_, mutex_, keep_running_, is_running_, outgoing, userVars, owner>>

LoopEnd ==
  /\ loop = "end"
  /\ is_running_' = FALSE
  /\ loop' = "done"
  /\ UNCHANGED <<msg_, turn_, mutex_, keep_running_, outgoing, published, sent, userVars, owner>>

-----------------------------------------------------------------------------

LoopStep ==
  \/ LoopStart \/ LoopSetTurn \/ LoopTest \/ LoopLock \/ LoopWaitTurn
  \/ LoopCopy \/ LoopWriteTest \/ LoopWrite \/ LoopEnd

DestructorStep == DestructorStop \/ DestructorSeesNotRunning \/ DestructorJoin

Release(u) == FillSecondHalf(u) \/ unlockAndPublish(u) \/ unlock(u)

Next ==
  \/ LoopStep
  \/ stop
  \/ DestroyDerived
  \/ DestructorStep
  \/ \E u \in Users :
       trylock(u) \/ lock(u) \/ FillFirstHalf(u) \/ Release(u)

Spec == Init /\ [][Next]_vars

\* The loop and the destructor run, a user does not keep the mutex for ever,
\* and the loop, which retries try_lock every millisecond against users that
\* hold it for the time of a few assignments, gets it now and then.
FairSpec ==
  /\ Spec
  /\ WF_vars(LoopStep)
  /\ SF_vars(LoopLock)
  /\ WF_vars(DestructorStep)
  /\ \A u \in Users : WF_vars(Release(u))

-----------------------------------------------------------------------------
(* Properties.                                                             *)

\* The variables keep their types.
TypeOK ==
  /\ msg_ \in Message /\ outgoing \in Message
  /\ turn_ \in {"REALTIME", "NON_REALTIME", "LOOP_NOT_STARTED"}
  /\ mutex_ \in Users \cup {"loop", "free"}
  /\ keep_running_ \in BOOLEAN /\ is_running_ \in BOOLEAN
  /\ loop \in LoopStates
  /\ published \in SUBSET Message /\ sent \in Nat
  /\ user \in [Users -> {"idle"} \cup Holding \cup HalfWritten]
  /\ writes \in Nat
  /\ handed \in SUBSET Nat /\ handovers \in Nat /\ rtHanded \in SUBSET Nat
  /\ owner \in OwnerStates

Whole(m) == m.lo = m.hi

\* No torn message leaves the publisher: users fill msg_ piece by piece, from
\* several threads, while the loop copies it, also while it is being stopped.
PublishedWhole == \A m \in published : Whole(m)

\* As long as the publisher is not being destroyed every message on the wire
\* has the CRC of its own content, never that of an earlier message.
PublishedSealed ==
  owner = "alive" => \A m \in published : m.crc = m.lo

\* Every write to the wire answers a hand-over of its own: the copy the loop
\* makes when it is stopped while nothing was handed over is not written.
OneWritePerHandover ==
  sent <= handovers

\* The realtime side never overwrites a message that is still to be copied:
\* while a trylock is held, whatever an earlier trylock handed over, or
\* something newer, is in the loop's copy.
TrylockAfterCopy ==
  (\E u \in Users : user[u] \in {"rt", "rtHalf"}) =>
    \A n \in rtHanded : n <= outgoing.lo

SomePublished(n) == \E m \in published : m.lo >= n

\* What a trylock .. unlockAndPublish hands over is published, or a newer
\* message is, unless the publisher is stopped.
RealtimeHandoverPublished ==
  \A n \in 1..MaxWrites :
    (n \in rtHanded) ~> (SomePublished(n) \/ ~keep_running_)

\* The destructor returns, whatever the loop and the last users were doing,
\* even if the loop's thread has not run yet.
DestructorReturns == (owner = "derivedDestroyed") ~> (owner = "destroyed")

\* "Unlock the msg_ variable and publish it": whatever unlockAndPublish handed
\* over is published, or a newer message is, unless the publisher is stopped.
HandoverPublished ==
  \A n \in 1..MaxWrites :
    (n \in handed) ~> (SomePublished(n) \/ ~keep_running_)

=============================================================================
