---------------------------- MODULE MotionProofs ----------------------------
(***************************************************************************)
(* Proofs about Motion, for every circle, every displacement, every        *)
(* duration of the stages and every way the robot may move.  A program's   *)
(* invariant is preserved by its own steps, and by those of the others,    *)
(* which leave its variables alone.                                        *)
(***************************************************************************)
EXTENDS Motion, ModularArithmetic, TLAPS

-----------------------------------------------------------------------------
(* MoveCommand: where the robot is when it is said to have moved.          *)

Pose == [x : Int, y : Int, yaw : -2 .. 2]

MoveTypeOK ==
  /\ pc \in {"none", "loop", "sleep", "SUCCESS", "TIMEOUT"}
  /\ move_high_state \in Pose /\ startPose \in Pose
  /\ target \in Int \X Int /\ yaw_target \in -2 .. 2
  /\ move_request.d \in Int \X Int

\* The displacement asked for, in the world's frame.
Asked == IF move_request.body_frame THEN Move!Turned(move_request.d, yaw_target)
                                    ELSE move_request.d

\* The target is as far from where the robot was at the start as was asked
\* for, up to what it moved while the start was read.
TargetAsAsked ==
  pc # "none" => /\ Move!Abs(target[1] - startPose.x - Asked[1]) <= MaxStep
                 /\ Move!Abs(target[2] - startPose.y - Asked[2]) <= MaxStep

MoveInv == MoveTypeOK /\ TargetAsAsked /\ Move!MovedAsAsked

\* Where a yaw is on the circle of quarters.
LEMMA QuarterOf ==
  ASSUME NEW a \in -2 .. 2
  PROVE  a % 4 = IF a < 0 THEN a + 4 ELSE a
<1> DEFINE n == a \div 4
           r == a % 4
<1>1. n \in Int /\ r \in 0 .. 3 /\ a = n * 4 + r
  BY DivMod
<1> HIDE DEF n, r
<1>2. r = IF a < 0 THEN a + 4 ELSE a
  BY <1>1
<1> QED
  BY <1>2 DEF r

\* The rotation by sines and cosines is a turn by quarters.
LEMMA BodyToWorldTurns ==
  ASSUME NEW d \in Int \X Int, NEW a \in -2 .. 2
  PROVE  /\ Move!BodyToWorld(d, a) = Move!Turned(d, a)
         /\ Move!Turned(d, a) \in Int \X Int
<1>0. d[1] \in Int /\ d[2] \in Int /\ d = <<d[1], d[2]>>
  OBVIOUS
<1>1. CASE a = -2
  <2>1. a % 4 = 2
    BY <1>1, QuarterOf
  <2> QED
    BY <1>0, <1>1, <2>1
       DEF Move!BodyToWorld, Move!Turned, Move!Quarter, Move!cos, Move!sin, Move!Abs
<1>2. CASE a = -1
  <2>1. a % 4 = 3
    BY <1>2, QuarterOf
  <2> QED
    BY <1>0, <1>2, <2>1
       DEF Move!BodyToWorld, Move!Turned, Move!Quarter, Move!cos, Move!sin, Move!Abs
<1>3. CASE a = 0
  <2>1. a % 4 = 0
    BY <1>3, QuarterOf
  <2> QED
    BY <1>0, <1>3, <2>1
       DEF Move!BodyToWorld, Move!Turned, Move!Quarter, Move!cos, Move!sin, Move!Abs
<1>4. CASE a = 1
  <2>1. a % 4 = 1
    BY <1>4, QuarterOf
  <2> QED
    BY <1>0, <1>4, <2>1
       DEF Move!BodyToWorld, Move!Turned, Move!Quarter, Move!cos, Move!sin, Move!Abs
<1>5. CASE a = 2
  <2>1. a % 4 = 2
    BY <1>5, QuarterOf
  <2> QED
    BY <1>0, <1>5, <2>1
       DEF Move!BodyToWorld, Move!Turned, Move!Quarter, Move!cos, Move!sin, Move!Abs
<1> QED
  BY <1>1, <1>2, <1>3, <1>4, <1>5

\* The rotation of a velocity into the robot's frame is undone by its heading.
LEMMA WorldToBodyTurnsBack ==
  ASSUME NEW v \in Int \X Int, NEW a \in -2 .. 2
  PROVE  Move!BodyToWorld(Move!WorldToBody(v, a), a) = v /\ Move!WorldToBody(v, a) \in Int \X Int
<1>0. v[1] \in Int /\ v[2] \in Int /\ v = <<v[1], v[2]>>
  OBVIOUS
<1>1. \/ Move!cos(a) = 0 /\ Move!sin(a) \in {1, -1}
      \/ Move!cos(a) \in {1, -1} /\ Move!sin(a) = 0
  BY DEF Move!cos, Move!sin, Move!Abs
<1> QED
  BY <1>0, <1>1 DEF Move!BodyToWorld, Move!WorldToBody

\* The robot moves by MaxStep at most between two messages.
LEMMA NeighbourFacts ==
  ASSUME NEW h \in Pose, NEW p \in Move!Neighbours(h)
  PROVE  /\ p \in Pose
         /\ Move!Abs(p.x - h.x) <= MaxStep /\ Move!Abs(p.y - h.y) <= MaxStep
<1>0. Extent \in Nat /\ MaxStep \in Nat
  BY MoveAssumption
<1>1. CASE \E e \in Move!Near(h.x) : p = [h EXCEPT !.x = e]
  BY <1>0, <1>1 DEF Move!Near, Move!Coordinate, Pose, Move!Abs
<1>2. CASE \E e \in Move!Near(h.y) : p = [h EXCEPT !.y = e]
  BY <1>0, <1>2 DEF Move!Near, Move!Coordinate, Pose, Move!Abs
<1>3. CASE \E e \in Move!Yaw : p = [h EXCEPT !.yaw = e]
  BY <1>0, <1>3 DEF Move!Yaw, Pose, Move!Abs
<1> QED
  BY <1>1, <1>2, <1>3 DEF Move!Neighbours

\* What is read is a pose, and the message that is there afterwards is near it.
LEMMA ReadFacts ==
  ASSUME move_high_state \in Pose, NEW p \in Move!Neighbours(move_high_state), NEW n \in 1..3
  PROVE  /\ Move!Read(p, n) \in Pose
         /\ Move!Abs(p.x - Move!Read(p, n).x) <= MaxStep
         /\ Move!Abs(p.y - Move!Read(p, n).y) <= MaxStep
         /\ p.yaw = move_high_state.yaw => Move!Read(p, n).yaw = p.yaw
<1>0. MaxStep \in Nat
  BY MoveAssumption
<1>1. /\ p \in Pose
      /\ Move!Abs(p.x - move_high_state.x) <= MaxStep
      /\ Move!Abs(p.y - move_high_state.y) <= MaxStep
  BY NeighbourFacts
<1> QED
  BY <1>0, <1>1 DEF Move!Read, Pose, Move!Abs

\* No request has been made.
LEMMA MoveInitInv == Move!Init => MoveInv
<1> SUFFICES ASSUME Move!Init PROVE MoveInv
  OBVIOUS
<1>1. move_high_state \in Pose /\ startPose \in Pose
  BY DEF Move!Init, Move!Yaw, Pose
<1>2. pc = "none" /\ target \in Int \X Int /\ yaw_target \in -2 .. 2
      /\ move_request.d \in Int \X Int
  BY DEF Move!Init
<1> QED
  BY <1>1, <1>2 DEF MoveInv, MoveTypeOK, TargetAsAsked, Move!MovedAsAsked

\* The request is as it was, so what was asked for is.
LEMMA SameAsked == ASSUME UNCHANGED <<move_request, yaw_target>> PROVE Asked' = Asked
  BY DEF Asked, Move!Turned, Move!Quarter

\* The displacement asked for is one.
LEMMA AskedType == ASSUME MoveTypeOK PROVE Asked[1] \in Int /\ Asked[2] \in Int
  BY BodyToWorldTurns DEF Asked, MoveTypeOK

\* The reads before the loop put the target where it was asked for.
LEMMA MoveRequestInv ==
  ASSUME MoveInv, NEW p \in Move!Neighbours(move_high_state), NEW n \in 1..3,
         NEW b \in BOOLEAN, NEW noTime \in BOOLEAN, NEW d \in Displacements,
         Move!move(d, b, noTime, p, n)
  PROVE  MoveInv'
<1> DEFINE initial == Move!Read(p, n)
           world == IF b THEN Move!BodyToWorld(d, initial.yaw) ELSE d
<1>0. MaxStep \in Nat /\ d \in Int \X Int
  BY MoveAssumption
<1>1. /\ initial \in Pose /\ p \in Pose
      /\ Move!Abs(p.x - initial.x) <= MaxStep /\ Move!Abs(p.y - initial.y) <= MaxStep
  BY NeighbourFacts, ReadFacts DEF MoveInv, MoveTypeOK
<1>2. /\ move_request' = [d |-> d, body_frame |-> b]
      /\ target' = <<initial.x + world[1], initial.y + world[2]>>
      /\ yaw_target' = initial.yaw /\ pc' = "loop"
      /\ move_high_state' = p /\ startPose' = p
  BY DEF Move!move
<1>3. /\ initial.x \in Int /\ initial.y \in Int /\ initial.yaw \in -2 .. 2
      /\ p.x \in Int /\ p.y \in Int
  BY <1>1 DEF Pose
<1> HIDE DEF initial
<1>4. world \in Int \X Int /\ (b => world = Move!Turned(d, initial.yaw))
  BY <1>0, <1>3, BodyToWorldTurns
<1>5. Asked' = world
  <2>1. move_request'.d = d /\ move_request'.body_frame = b
    BY <1>2
  <2>2. Asked' = IF b THEN Move!Turned(d, initial.yaw) ELSE d
    BY <1>2, <2>1 DEF Asked, Move!Turned, Move!Quarter
  <2> QED
    BY <1>4, <2>2
<1> HIDE DEF world
<1>6. MoveTypeOK'
  BY <1>0, <1>1, <1>2, <1>3, <1>4 DEF MoveTypeOK
<1>7. TargetAsAsked'
  <2>1. /\ target'[1] = initial.x + world[1] /\ target'[2] = initial.y + world[2]
        /\ world[1] \in Int /\ world[2] \in Int
    BY <1>2, <1>4
  <2>2. /\ Move!Abs(target'[1] - p.x - world[1]) <= MaxStep
        /\ Move!Abs(target'[2] - p.y - world[2]) <= MaxStep
    BY <1>0, <1>1, <1>3, <2>1 DEF Move!Abs
  <2> QED
    BY <1>2, <1>5, <2>2 DEF TargetAsAsked, Move!Abs
<1>8. Move!MovedAsAsked'
  BY <1>2 DEF Move!MovedAsAsked
<1> QED
  BY <1>6, <1>7, <1>8 DEF MoveInv

\* What a step that is not a request leaves of the invariant.
LEMMA MoveKept ==
  ASSUME MoveInv, UNCHANGED <<move_request, target, yaw_target, startPose>>, pc # "none"
  PROVE  TargetAsAsked'
<1>1. Asked' = Asked
  BY SameAsked
<1>2. /\ Move!Abs(target[1] - startPose.x - Asked[1]) <= MaxStep
      /\ Move!Abs(target[2] - startPose.y - Asked[2]) <= MaxStep
  BY DEF MoveInv, TargetAsAsked
<1> QED
  BY <1>1, <1>2 DEF TargetAsAsked, Move!Abs

\* A pass answers with success only near the target.
LEMMA MovePassInv ==
  ASSUME MoveInv, NEW p \in Move!Neighbours(move_high_state), NEW n \in 1..3,
         NEW over \in BOOLEAN, Move!Pass(over, p, n)
  PROVE  MoveInv'
<1> DEFINE current == Move!Read(p, n)
<1>0. MaxStep \in Nat /\ control_error \in Nat
  BY MoveAssumption
<1>1. /\ current \in Pose /\ p \in Pose
      /\ Move!Abs(p.x - current.x) <= MaxStep /\ Move!Abs(p.y - current.y) <= MaxStep
  BY NeighbourFacts, ReadFacts DEF MoveInv, MoveTypeOK
<1>2. /\ pc = "loop" /\ pc' \in {"SUCCESS", "sleep"} /\ move_high_state' = p
      /\ UNCHANGED <<move_request, target, yaw_target, startPose>>
  BY DEF Move!Pass
<1>3. pc' = "SUCCESS" => \A i \in 1..2 :
        Move!Abs(<<target[1] - current.x, target[2] - current.y>>[i]) < control_error
  BY DEF Move!Pass
<1> HIDE DEF current
<1>4. MoveTypeOK'
  BY <1>1, <1>2 DEF MoveInv, MoveTypeOK
<1>5. TargetAsAsked'
  BY <1>2, MoveKept
<1>6. Move!MovedAsAsked'
  <2> SUFFICES ASSUME pc' = "SUCCESS" PROVE Move!MovedAsAsked'
    BY DEF Move!MovedAsAsked
  <2>1. /\ Move!Abs(target[1] - current.x) < control_error
        /\ Move!Abs(target[2] - current.y) < control_error
    BY <1>3
  <2>2. /\ Move!Abs(target[1] - startPose.x - Asked[1]) <= MaxStep
        /\ Move!Abs(target[2] - startPose.y - Asked[2]) <= MaxStep
    BY <1>2 DEF MoveInv, TargetAsAsked
  <2>3. /\ p.x \in Int /\ p.y \in Int /\ current.x \in Int /\ current.y \in Int
        /\ target[1] \in Int /\ target[2] \in Int /\ startPose.x \in Int /\ startPose.y \in Int
        /\ Asked[1] \in Int /\ Asked[2] \in Int
    BY <1>1, AskedType DEF MoveInv, MoveTypeOK, Pose
  <2>4. Move!Abs(p.x - startPose.x - Asked[1]) < control_error + 2 * MaxStep
    BY <1>0, <1>1, <2>1, <2>2, <2>3 DEF Move!Abs
  <2>5. Move!Abs(p.y - startPose.y - Asked[2]) < control_error + 2 * MaxStep
    BY <1>0, <1>1, <2>1, <2>2, <2>3 DEF Move!Abs
  <2>6. yaw_target \in Move!Yaw
    BY DEF MoveInv, MoveTypeOK, Move!Yaw
  <2> QED
    BY <1>2, <2>4, <2>5, <2>6
       DEF Move!MovedAsAsked, Asked, Move!Abs, Move!Yaw, Move!Turned, Move!Quarter
<1> QED
  BY <1>4, <1>5, <1>6 DEF MoveInv

\* The steps of the move command preserve its invariant.
LEMMA MoveStepInv == ASSUME MoveInv, Move!Next PROVE MoveInv'
<1>1. ASSUME NEW p \in Move!Neighbours(move_high_state), Move!_HighStateHandler(p)
      PROVE  MoveInv'
  <2>1. /\ pc = "loop" /\ move_high_state' = p
        /\ UNCHANGED <<pc, move_request, target, yaw_target, startPose>>
    BY <1>1 DEF Move!_HighStateHandler
  <2>2. TargetAsAsked'
    BY <2>1, MoveKept
  <2>3. MoveTypeOK'
    BY <2>1, NeighbourFacts DEF MoveInv, MoveTypeOK
  <2> QED
    BY <2>1, <2>2, <2>3 DEF MoveInv, Move!MovedAsAsked
<1>2. CASE Move!Sleep
  <2>1. /\ pc \in {"sleep", "loop"} /\ pc' \in {"TIMEOUT", "loop"}
        /\ UNCHANGED <<move_high_state, move_request, target, yaw_target, startPose>>
    BY <1>2 DEF Move!Sleep
  <2>2. TargetAsAsked'
    BY <2>1, MoveKept
  <2> QED
    BY <2>1, <2>2 DEF MoveInv, MoveTypeOK, Move!MovedAsAsked
<1> QED
  BY <1>1, <1>2, MoveRequestInv, MovePassInv DEF Move!Next

\* The move command keeps its invariant, whichever program runs.
LEMMA MoveInvariance == MotionSpec => []MoveInv
<1>1. MotionInit => MoveInv
  BY MoveInitInv DEF MotionInit
<1>2. MoveInv /\ UNCHANGED moveVars => MoveInv'
  BY SameAsked DEF moveVars, MoveInv, MoveTypeOK, TargetAsAsked, Move!MovedAsAsked,
         Move!Abs, Move!Turned, Move!Quarter, Move!Yaw
<1>3. MoveInv /\ [MotionNext]_allVars => MoveInv'
  BY <1>2, MoveStepInv DEF MotionNext, allVars
<1> QED
  BY <1>1, <1>3, PTL DEF MotionSpec

\* SUCCESS is answered only where the robot had moved as asked, whatever
\* message was received between the reads of a pose.
THEOREM SuccessIsWhereAsked == MotionSpec => []MovedAsAsked
<1>1. MoveInv => MovedAsAsked
  BY DEF MoveInv, MovedAsAsked
<1> QED
  BY MoveInvariance, <1>1, PTL

\* update stays within its limit and has the sign of the error.
LEMMA MoveUpdateFacts ==
  ASSUME NEW e \in Int, NEW r \in Int, Move!Abs(e - r) <= MaxStep
  PROVE  Move!update(2, OLimitXY, e) \in Int /\ Move!Approaches(Move!update(2, OLimitXY, e), r)
  BY MoveAssumption DEF Move!update, Move!Approaches, Move!Abs

\* A pass sends a velocity towards the target.
LEMMA PassSendsTowards ==
  ASSUME MoveInv, NEW p \in Move!Neighbours(move_high_state), NEW n \in 1..3,
         NEW over \in BOOLEAN, Move!Pass(over, p, n)
  PROVE  Move!SentTowards
<1> SUFFICES ASSUME pc' = "sleep", move_high_state'.yaw = move_high_state.yaw
             PROVE  LET v == Move!Turned(<<sent'.vx, sent'.vy>>, move_high_state'.yaw)
                    IN /\ Move!Approaches(v[1], target[1] - move_high_state'.x)
                       /\ Move!Approaches(v[2], target[2] - move_high_state'.y)
  BY DEF Move!SentTowards
<1> DEFINE current == Move!Read(p, n)
           u == <<Move!update(2, OLimitXY, target[1] - current.x),
                  Move!update(2, OLimitXY, target[2] - current.y)>>
           v == Move!WorldToBody(u, current.yaw)
<1>1. /\ current \in Pose /\ p \in Pose
      /\ Move!Abs(p.x - current.x) <= MaxStep /\ Move!Abs(p.y - current.y) <= MaxStep
      /\ p.yaw = move_high_state.yaw => current.yaw = p.yaw
  BY NeighbourFacts, ReadFacts DEF MoveInv, MoveTypeOK
<1>2. move_high_state' = p /\ sent'.vx = v[1] /\ sent'.vy = v[2]
  BY DEF Move!Pass
<1> HIDE DEF current
<1>3. /\ current.x \in Int /\ current.y \in Int /\ current.yaw \in -2 .. 2
      /\ p.x \in Int /\ p.y \in Int /\ target[1] \in Int /\ target[2] \in Int
      /\ current.yaw = p.yaw
  BY <1>1, <1>2 DEF MoveInv, MoveTypeOK, Pose
<1> DEFINE e1 == target[1] - current.x  r1 == target[1] - p.x
           e2 == target[2] - current.y  r2 == target[2] - p.y
<1>4. /\ e1 \in Int /\ r1 \in Int /\ Move!Abs(e1 - r1) <= MaxStep
      /\ e2 \in Int /\ r2 \in Int /\ Move!Abs(e2 - r2) <= MaxStep
  BY <1>1, <1>3 DEF Move!Abs
<1> HIDE DEF e1, r1, e2, r2
<1>5. /\ Move!update(2, OLimitXY, e1) \in Int /\ Move!Approaches(Move!update(2, OLimitXY, e1), r1)
      /\ Move!update(2, OLimitXY, e2) \in Int /\ Move!Approaches(Move!update(2, OLimitXY, e2), r2)
  BY <1>4, MoveUpdateFacts
<1>6. u \in Int \X Int /\ Move!Approaches(u[1], r1) /\ Move!Approaches(u[2], r2)
  BY <1>5 DEF e1, e2
<1> HIDE DEF u
<1>7. v \in Int \X Int /\ Move!Turned(v, current.yaw) = u
  BY <1>3, <1>6, BodyToWorldTurns, WorldToBodyTurnsBack
<1>8. <<v[1], v[2]>> = v
  BY <1>7
<1> HIDE DEF v
<1>9. Move!Turned(<<sent'.vx, sent'.vy>>, move_high_state'.yaw) = u
  BY <1>2, <1>3, <1>7, <1>8
<1> QED
  BY <1>2, <1>6, <1>9 DEF r1, r2

\* The velocity sent leads the robot towards the target along both axes.
THEOREM VelocityLeadsToTarget == MotionSpec => VelocityApproaches
<1>1. MoveInv /\ [MotionNext]_allVars => [Move!SentTowards]_Move!vars
  <2> SUFFICES ASSUME MoveInv, [MotionNext]_allVars
               PROVE  UNCHANGED Move!vars \/ Move!SentTowards
    OBVIOUS
  <2>1. UNCHANGED moveVars => UNCHANGED Move!vars
    BY DEF moveVars, Move!vars
  <2>2. CASE Move!Next
    <3>1. ASSUME NEW p \in Move!Neighbours(move_high_state), Move!_HighStateHandler(p)
          PROVE  Move!SentTowards
      BY <3>1 DEF Move!_HighStateHandler, Move!SentTowards
    <3>2. ASSUME NEW p \in Move!Neighbours(move_high_state), NEW n \in 1..3,
                 NEW b \in BOOLEAN, NEW noTime \in BOOLEAN, NEW d \in Displacements,
                 Move!move(d, b, noTime, p, n)
          PROVE  Move!SentTowards
      BY <3>2 DEF Move!move, Move!SentTowards
    <3>3. CASE Move!Sleep
      BY <3>3 DEF Move!Sleep, Move!SentTowards
    <3> QED
      BY <2>2, <3>1, <3>2, <3>3, PassSendsTowards DEF Move!Next
  <2> QED
    BY <2>1, <2>2 DEF MotionNext, allVars
<1> QED
  BY MoveInvariance, <1>1, PTL DEF MotionSpec, VelocityApproaches, Move!VelocityApproaches

-----------------------------------------------------------------------------
(* AnkleSwing: the mode that travels beside the command.                   *)

Modes == {"PR", "AB"}
AnkleCommand == [mode_pr : Modes, mode_machine : Int, time : Nat]

AnkleTypeOK ==
  /\ mode_pr_ \in Modes /\ mode_machine_ \in Int
  /\ time_ \in Nat /\ motor_command_buffer_ \in Nat
  /\ control \in {"idle", "computed"} /\ writer \in {"idle", "reading"}
  /\ draft \in AnkleCommand /\ wire \in AnkleCommand
  /\ overtakes \in Nat /\ handled \in Nat

\* The mode is that of the time, and the command one step behind at most.
InStep ==
  /\ mode_pr_ = Ankle!Meant(time_)
  /\ IF control = "computed" THEN motor_command_buffer_ = time_ - 1
                             ELSE motor_command_buffer_ = time_

\* The mode a writer has read is that of the time it read it at.
DraftInStep ==
  writer = "reading" => /\ overtakes <= MaxOvertake /\ overtakes <= time_
                        /\ draft.mode_pr = Ankle!Meant(time_ - overtakes)

\* The type is unknown, and a writer has read that it is, only at first.
TypeKnown ==
  /\ handled > 0 => mode_machine_ = Ankle!Type
  /\ handled = 0 => time_ <= MaxOvertake
  /\ (writer = "reading" /\ draft.mode_machine # Ankle!Type) =>
       time_ - overtakes <= MaxOvertake

AnkleInv ==
  /\ AnkleTypeOK
  /\ InStep
  /\ DraftInStep
  /\ TypeKnown
  /\ Ankle!MismatchNearZero
  /\ Ankle!TypeKnownSoon

\* The last step of stage 2 is one step before a zero of its swing.
LEMMA EndOfStage2 == Ankle!OffZero(2 * Duration - 1) <= MaxOvertake
<1> DEFINE t == 2 * Duration - 1
           n == Duration \div HalfPR
<1>0. /\ Duration \in Nat /\ Duration > 0 /\ HalfPR \in Nat /\ HalfPR > 0
      /\ MaxOvertake \in Nat /\ MaxOvertake > 0 /\ Duration % HalfPR = 0
  BY AnkleAssumption
<1>1. n \in Int /\ Duration = n * HalfPR + 0
  BY <1>0, DivMod
<1> HIDE DEF n
<1>2. Duration - 1 = (n - 1) * HalfPR + (HalfPR - 1)
  BY <1>0, <1>1
<1>3. (Duration - 1) % HalfPR = HalfPR - 1
  BY <1>0, <1>1, <1>2, ModUnique
<1>4. Ankle!Stage(t) = 2
  BY <1>0 DEF Ankle!Stage
<1>5. t - 1 * Duration = Duration - 1
  BY <1>0
<1> HIDE DEF t
<1>6. Ankle!OffZero(t) = IF HalfPR - 1 < HalfPR - (HalfPR - 1)
                         THEN HalfPR - 1 ELSE HalfPR - (HalfPR - 1)
  BY <1>3, <1>4, <1>5 DEF Ankle!OffZero
<1> QED
  BY <1>0, <1>6 DEF t

\* The first steps of stage 3 are as near to the zero it begins with.
LEMMA BeginOfStage3 ==
  ASSUME NEW t \in Nat, t >= 2 * Duration, t - 2 * Duration <= MaxOvertake
  PROVE  Ankle!OffZero(t) <= MaxOvertake
<1> DEFINE phase == (t - 2 * Duration) % HalfAB
<1>0. /\ Duration \in Nat /\ Duration > 0 /\ HalfAB \in Nat /\ HalfAB > 0 /\ MaxOvertake \in Nat
  BY AnkleAssumption
<1>1. t - 2 * Duration \in Nat
  BY <1>0
<1>2. phase \in Int /\ phase <= t - 2 * Duration
  BY <1>0, <1>1, DivMod, ModLess
<1>3. Ankle!Stage(t) = 3
  BY <1>0 DEF Ankle!Stage
<1>4. Ankle!OffZero(t) = IF phase < HalfAB - phase THEN phase ELSE HalfAB - phase
  BY <1>3 DEF Ankle!OffZero
<1> HIDE DEF phase
<1> QED
  BY <1>0, <1>2, <1>4

\* A command one step older than the mode, or at most MaxOvertake steps
\* younger, is meant for another mode only near the change to stage 3.
LEMMA MismatchedCommand ==
  ASSUME NEW t \in Nat, NEW b \in Nat, t - 1 <= b, b <= t + MaxOvertake,
         Ankle!Meant(t) # Ankle!Meant(b)
  PROVE  Ankle!OffZero(b) <= MaxOvertake
<1>0. Duration \in Nat /\ Duration > 0 /\ MaxOvertake \in Nat
  BY AnkleAssumption
<1>1. Ankle!Meant(t) = "AB" <=> t >= 2 * Duration
  BY <1>0 DEF Ankle!Meant, Ankle!Stage
<1>2. Ankle!Meant(b) = "AB" <=> b >= 2 * Duration
  BY <1>0 DEF Ankle!Meant, Ankle!Stage
<1>3. Ankle!Meant(t) \in Modes /\ Ankle!Meant(b) \in Modes
  BY DEF Ankle!Meant, Modes
<1>4. \/ b = 2 * Duration - 1
      \/ b >= 2 * Duration /\ b - 2 * Duration <= MaxOvertake
  BY <1>0, <1>1, <1>2, <1>3 DEF Modes
<1> QED
  BY <1>4, EndOfStage2, BeginOfStage3

\* Nothing has been received, computed or written.
LEMMA AnkleInitInv == Ankle!Init => AnkleInv
<1> SUFFICES ASSUME Ankle!Init PROVE AnkleInv
  OBVIOUS
<1>0. Ankle!Nothing \in AnkleCommand /\ Ankle!Meant(0) = "PR"
  BY AnkleAssumption
     DEF Ankle!Nothing, AnkleCommand, Modes, Ankle!Type, Ankle!Meant, Ankle!Stage
<1>1. AnkleTypeOK
  BY <1>0 DEF Ankle!Init, AnkleTypeOK, Modes
<1>2. InStep /\ DraftInStep
  BY <1>0 DEF Ankle!Init, InStep, DraftInStep
<1>3. TypeKnown /\ Ankle!MismatchNearZero /\ Ankle!TypeKnownSoon
  BY AnkleAssumption DEF Ankle!Init, Ankle!Nothing, TypeKnown, Ankle!MismatchNearZero,
         Ankle!TypeKnownSoon
<1> QED
  BY <1>1, <1>2, <1>3 DEF AnkleInv

\* The DDS thread.
LEMMA AnkleHandlerInv ==
  ASSUME AnkleInv, Ankle!StoreMotorState \/ Ankle!UpdateModeMachine
  PROVE  AnkleInv'
<1>1. UNCHANGED <<mode_pr_, time_, motor_command_buffer_, control, writer, draft, overtakes, wire>>
  BY DEF Ankle!StoreMotorState, Ankle!UpdateModeMachine
<1>2. AnkleTypeOK' /\ TypeKnown'
  BY DEF AnkleInv, AnkleTypeOK, TypeKnown, Ankle!StoreMotorState, Ankle!UpdateModeMachine,
         Ankle!MachineAfter, Ankle!Type
<1> QED
  BY <1>1, <1>2 DEF AnkleInv, InStep, DraftInStep, Ankle!Meant, Ankle!Stage,
                    Ankle!MismatchNearZero, Ankle!OffZero, Ankle!TypeKnownSoon

\* The control thread.
LEMMA AnkleControlInv ==
  ASSUME AnkleInv, Ankle!ControlStage \/ Ankle!ControlSetData
  PROVE  AnkleInv'
<1>1. UNCHANGED <<mode_machine_, writer, draft, wire, handled>>
  BY DEF Ankle!ControlStage, Ankle!ControlSetData
<1>2. Ankle!TypeKnownSoon' /\ Ankle!MismatchNearZero'
  BY <1>1 DEF AnkleInv, Ankle!TypeKnownSoon, Ankle!MismatchNearZero, Ankle!Meant, Ankle!Stage,
              Ankle!OffZero
<1>3. CASE Ankle!ControlStage
  <2>0. time_ \in Nat /\ time_' = time_ + 1 /\ control = "idle" /\ control' = "computed"
    BY <1>3 DEF Ankle!ControlStage, AnkleInv, AnkleTypeOK
  <2>1. mode_pr_' = Ankle!Meant(time_ + 1)
    <3>1. mode_pr_ = Ankle!Meant(time_) /\ mode_pr_' = Ankle!ModeAfter(time_ + 1)
      BY <1>3 DEF Ankle!ControlStage, AnkleInv, InStep
    <3> QED
      BY <2>0, <3>1, AnkleAssumption DEF Ankle!ModeAfter, Ankle!Meant, Ankle!Stage
  <2>2. AnkleTypeOK'
    BY <1>3, <2>0, <2>1 DEF Ankle!ControlStage, AnkleInv, AnkleTypeOK, Ankle!Meant, Modes
  <2>3. InStep'
    BY <1>3, <2>0, <2>1 DEF Ankle!ControlStage, AnkleInv, AnkleTypeOK, InStep, Ankle!Meant,
       Ankle!Stage
  <2>4. DraftInStep'
    <3> SUFFICES ASSUME writer' = "reading"
                 PROVE  /\ overtakes' <= MaxOvertake /\ overtakes' <= time_'
                        /\ draft'.mode_pr = Ankle!Meant(time_' - overtakes')
      BY DEF DraftInStep, Ankle!Meant, Ankle!Stage
    <3>1. /\ writer = "reading" /\ overtakes' = overtakes + 1 /\ overtakes < MaxOvertake
          /\ draft' = draft
      BY <1>1, <1>3 DEF Ankle!ControlStage
    <3>2. overtakes \in Nat /\ MaxOvertake \in Nat
      BY AnkleAssumption DEF AnkleInv, AnkleTypeOK
    <3>3. overtakes <= time_ /\ draft.mode_pr = Ankle!Meant(time_ - overtakes)
      BY <3>1 DEF AnkleInv, DraftInStep
    <3>4. time_' - overtakes' = time_ - overtakes
      BY <2>0, <3>1, <3>2
    <3> QED
      BY <2>0, <3>1, <3>2, <3>3, <3>4
  <2>5. TypeKnown'
    BY <1>1, <1>3, <2>0, AnkleAssumption
       DEF Ankle!ControlStage, AnkleInv, AnkleTypeOK, TypeKnown
  <2> QED
    BY <1>2, <2>2, <2>3, <2>4, <2>5 DEF AnkleInv
<1>4. CASE Ankle!ControlSetData
  BY <1>1, <1>2, <1>4 DEF Ankle!ControlSetData, AnkleInv, AnkleTypeOK, InStep, DraftInStep,
                          TypeKnown, Ankle!Meant, Ankle!Stage
<1> QED
  BY <1>3, <1>4

\* The writing thread.
LEMMA AnkleWriterInv ==
  ASSUME AnkleInv, Ankle!WriterReadModes \/ Ankle!WriterWrite
  PROVE  AnkleInv'
<1>1. UNCHANGED <<mode_pr_, mode_machine_, time_, motor_command_buffer_, control, handled>>
  BY DEF Ankle!WriterReadModes, Ankle!WriterWrite
<1>2. InStep'
  BY <1>1 DEF AnkleInv, InStep, Ankle!Meant, Ankle!Stage
<1>3. CASE Ankle!WriterReadModes
  <2>1. /\ draft' \in AnkleCommand
        /\ draft'.mode_pr = mode_pr_ /\ draft'.mode_machine = mode_machine_
    BY <1>3 DEF Ankle!WriterReadModes, AnkleInv, AnkleTypeOK, AnkleCommand
  <2>2. AnkleTypeOK' /\ TypeKnown'
    BY <1>1, <1>3, <2>1 DEF Ankle!WriterReadModes, AnkleInv, AnkleTypeOK, TypeKnown
  <2>3. DraftInStep'
    <3>1. time_' - overtakes' = time_ /\ overtakes' = 0 /\ 0 <= MaxOvertake /\ 0 <= time_'
      BY <1>1, <1>3, AnkleAssumption DEF Ankle!WriterReadModes, AnkleInv, AnkleTypeOK
    <3>2. draft'.mode_pr = Ankle!Meant(time_)
      BY <2>1 DEF AnkleInv, InStep
    <3> QED
      BY <3>1, <3>2 DEF DraftInStep, Ankle!Meant, Ankle!Stage
  <2>4. wire' = wire
    BY <1>3 DEF Ankle!WriterReadModes
  <2> QED
    BY <1>2, <2>2, <2>3, <2>4
       DEF AnkleInv, Ankle!MismatchNearZero, Ankle!TypeKnownSoon, Ankle!Meant,
           Ankle!Stage, Ankle!OffZero
<1>4. CASE Ankle!WriterWrite
  <2>1. Ankle!Nothing \in AnkleCommand /\ draft' = Ankle!Nothing
    BY <1>4 DEF Ankle!WriterWrite, Ankle!Nothing, AnkleCommand, Modes, Ankle!Type
  <2>2. CASE motor_command_buffer_ > 0
    <3>1. /\ wire' \in AnkleCommand /\ wire'.time = motor_command_buffer_
          /\ wire'.mode_pr = draft.mode_pr
          /\ wire'.mode_machine = draft.mode_machine
      BY <1>4, <2>2 DEF Ankle!WriterWrite, AnkleInv, AnkleTypeOK, AnkleCommand
    <3> DEFINE t == time_ - overtakes
    <3>2. /\ t \in Nat /\ motor_command_buffer_ \in Nat
          /\ t - 1 <= motor_command_buffer_ /\ motor_command_buffer_ <= t + MaxOvertake
          /\ draft.mode_pr = Ankle!Meant(t)
      BY <1>4, AnkleAssumption
         DEF Ankle!WriterWrite, AnkleInv, AnkleTypeOK, InStep, DraftInStep
    <3> HIDE DEF t
    <3>3. Ankle!MismatchNearZero'
      BY <3>1, <3>2, MismatchedCommand
         DEF Ankle!MismatchNearZero, Ankle!Meant, Ankle!Stage, Ankle!OffZero
    <3>4. Ankle!TypeKnownSoon'
      <4>1. draft.mode_machine # Ankle!Type => t <= MaxOvertake
        BY <1>4 DEF Ankle!WriterWrite, AnkleInv, TypeKnown, t
      <4> QED
        BY <3>1, <3>2, <4>1, AnkleAssumption DEF Ankle!TypeKnownSoon
    <3>5. AnkleTypeOK' /\ DraftInStep' /\ TypeKnown'
      BY <1>1, <1>4, <2>1, <3>1
         DEF Ankle!WriterWrite, AnkleInv, AnkleTypeOK, DraftInStep, TypeKnown
    <3> QED
      BY <1>2, <3>3, <3>4, <3>5 DEF AnkleInv
  <2>3. CASE ~(motor_command_buffer_ > 0)
    <3>1. wire' = wire
      BY <1>4, <2>3 DEF Ankle!WriterWrite
    <3>2. AnkleTypeOK' /\ DraftInStep' /\ TypeKnown'
      BY <1>1, <1>4, <2>1, <3>1
         DEF Ankle!WriterWrite, AnkleInv, AnkleTypeOK, DraftInStep, TypeKnown
    <3> QED
      BY <1>2, <3>1, <3>2
         DEF AnkleInv, Ankle!MismatchNearZero, Ankle!TypeKnownSoon, Ankle!Meant,
             Ankle!Stage, Ankle!OffZero
  <2> QED
    BY <2>2, <2>3
<1> QED
  BY <1>3, <1>4

\* The ankle swing keeps its invariant, whichever program runs.
LEMMA AnkleInvariance == MotionSpec => []AnkleInv
<1>1. MotionInit => AnkleInv
  BY AnkleInitInv DEF MotionInit
<1>2. AnkleInv /\ UNCHANGED ankleVars => AnkleInv'
  BY DEF ankleVars, AnkleInv, AnkleTypeOK, InStep, DraftInStep, TypeKnown,
         Ankle!MismatchNearZero, Ankle!TypeKnownSoon, Ankle!Meant, Ankle!Stage,
         Ankle!OffZero
<1>3. AnkleInv /\ [MotionNext]_allVars => AnkleInv'
  BY <1>2, AnkleHandlerInv, AnkleControlInv, AnkleWriterInv DEF MotionNext, allVars, Ankle!Next
<1> QED
  BY <1>1, <1>3, PTL DEF MotionSpec

\* The mode and the targets of a command differ only where both swings pass
\* through zero, for every duration of whole half periods and every number of
\* control steps that can overtake a write.
THEOREM MismatchIsHarmless == MotionSpec => []MismatchNearZero
<1>1. AnkleInv => MismatchNearZero
  BY DEF AnkleInv, MismatchNearZero
<1> QED
  BY AnkleInvariance, <1>1, PTL

\* Only the first commands go out without the machine's type, for every number of
\* control steps that fall between two reads or two stores.
THEOREM TypeIsKnownSoon == MotionSpec => []TypeKnownSoon
<1>1. AnkleInv => TypeKnownSoon
  BY DEF AnkleInv, TypeKnownSoon
<1> QED
  BY AnkleInvariance, <1>1, PTL

-----------------------------------------------------------------------------
(* StandUp: the release loop.                                              *)

ReleaseTypeOK ==
  /\ program \in {"stand", "wrapper"} /\ stand_pc \in {"check", "release", "run"}
  /\ name \in BOOLEAN /\ active \in BOOLEAN /\ blind \in BOOLEAN
  /\ checks \in {0, 1, 2}

\* The wrapper's name is not empty once a check has been made and the loop
\* goes on.
Remembered ==
  /\ stand_pc = "release" => name
  /\ (stand_pc = "check" /\ checks # 0) => name

ReleaseInv == ReleaseTypeOK /\ Remembered /\ Stand!LeftActiveOnlyBlind

\* No check has been made.
LEMMA ReleaseInitInv == Stand!Init => ReleaseInv
  BY DEF Stand!Init, ReleaseInv, ReleaseTypeOK, Remembered, Stand!LeftActiveOnlyBlind

\* What a check finds, and what it leaves in the name.
LEMMA CheckModeInv ==
  ASSUME ReleaseInv, NEW ok \in BOOLEAN, Stand!CheckMode(ok)
  PROVE  ReleaseInv'
<1>1. /\ stand_pc = "check" /\ UNCHANGED <<program, active>>
      /\ name' = Stand!NameAfter(ok) /\ blind' = ~ok
      /\ stand_pc' = IF Stand!NameAfter(ok) THEN "release" ELSE "run"
      /\ checks' = IF checks = 0 THEN 1 ELSE 2
  BY DEF Stand!CheckMode
<1>2. Stand!NameAfter(ok) \in BOOLEAN
  BY DEF Stand!NameAfter, ReleaseInv, ReleaseTypeOK
<1>3. ReleaseTypeOK'
  BY <1>1, <1>2 DEF ReleaseInv, ReleaseTypeOK
<1>4. Remembered'
  BY <1>1, <1>2 DEF Remembered
<1>5. Stand!LeftActiveOnlyBlind'
  <2> SUFFICES ASSUME stand_pc' = "run", active'
               PROVE  blind' /\ (program' = "wrapper" => checks' = 1)
    BY DEF Stand!LeftActiveOnlyBlind
  <2>1. ~Stand!NameAfter(ok) /\ active
    BY <1>1, <1>2
  <2>2. ~ok
    BY <2>1 DEF Stand!NameAfter
  <2>3. program = "wrapper" => ~name
    BY <2>1, <2>2 DEF Stand!NameAfter
  <2>4. program = "wrapper" => checks = 0
    BY <1>1, <2>3 DEF ReleaseInv, Remembered
  <2> QED
    BY <1>1, <2>2, <2>4
<1> QED
  BY <1>3, <1>4, <1>5 DEF ReleaseInv

\* The stand-up keeps the invariant of its release loop.
LEMMA ReleaseStepInv == ASSUME ReleaseInv, Stand!Next PROVE ReleaseInv'
<1>1. ASSUME UNCHANGED <<program, stand_pc, name, active, blind, checks>> PROVE ReleaseInv'
  BY <1>1 DEF ReleaseInv, ReleaseTypeOK, Remembered, Stand!LeftActiveOnlyBlind
<1>2. ASSUME NEW b \in BOOLEAN, Stand!ReleaseMode(b) PROVE ReleaseInv'
  <2>1. /\ stand_pc = "release" /\ stand_pc' = "check"
        /\ UNCHANGED <<program, name, checks, blind>>
        /\ active' \in BOOLEAN
    BY <1>2 DEF Stand!ReleaseMode
  <2> QED
    BY <2>1 DEF ReleaseInv, ReleaseTypeOK, Remembered, Stand!LeftActiveOnlyBlind
<1>3. Stand!LowStateMessageHandler \/ Stand!LowCmdWrite
        \/ (\E p \in Positions : Stand!JointMoves(p))
        => UNCHANGED <<program, stand_pc, name, active, blind, checks>>
  BY DEF Stand!JointMoves, Stand!LowStateMessageHandler, Stand!LowCmdWrite, Stand!releaseVars
<1> QED
  BY <1>1, <1>2, <1>3, CheckModeInv DEF Stand!Next

\* A service is left active only by a check that failed, and by shutdown() only
\* if that was the first one.
THEOREM OnlyBlindLeavesActive == MotionSpec => []LeftActiveOnlyBlind
<1>1. MotionInit => ReleaseInv
  BY ReleaseInitInv DEF MotionInit
<1>2. ReleaseInv /\ UNCHANGED standVars => ReleaseInv'
  BY DEF standVars, ReleaseInv, ReleaseTypeOK, Remembered, Stand!LeftActiveOnlyBlind
<1>3. ReleaseInv /\ [MotionNext]_allVars => ReleaseInv'
  BY <1>2, ReleaseStepInv DEF MotionNext, allVars
<1>4. ReleaseInv => LeftActiveOnlyBlind
  BY DEF ReleaseInv, LeftActiveOnlyBlind
<1> QED
  BY <1>1, <1>3, <1>4, PTL DEF MotionSpec

-----------------------------------------------------------------------------
(* StandUp: the stages.                                                    *)

\* The share of a stage's way that one step makes.
Share(a, b, D) == (b - a) \div D

\* The way of a stage of whole shares grows by a share with every step.
LEMMA WholeShares ==
  ASSUME NEW a \in Int, NEW b \in Int, NEW D \in Nat, D > 0, (b - a) % D = 0
  PROVE  /\ Share(a, b, D) \in Int
         /\ b = a + D * Share(a, b, D)
         /\ Stand!Abs(b - a) \div D = Stand!Abs(Share(a, b, D))
         /\ \A n \in 0..D : ((D - n) * a + n * b) \div D = a + n * Share(a, b, D)
<1> DEFINE s == Share(a, b, D)
<1>1. s \in Int /\ b - a = s * D + 0
  BY DivMod DEF Share
<1> HIDE DEF s
<1>2. b = a + D * s
  BY <1>1
<1>3. Stand!Abs(b - a) \div D = Stand!Abs(s)
  <2>1. Stand!Abs(s) \in Int /\ Stand!Abs(b - a) = Stand!Abs(s) * D + 0
    <3>1. CASE s < 0
      <4>1. b - a < 0
        BY <1>1, <3>1
      <4> QED
        BY <1>1, <3>1, <4>1 DEF Stand!Abs
    <3>2. CASE s >= 0
      <4>1. b - a >= 0
        BY <1>1, <3>2
      <4> QED
        BY <1>1, <3>2, <4>1 DEF Stand!Abs
    <3> QED
      BY <1>1, <3>1, <3>2
  <2> QED
    BY <2>1, DivUnique
<1>4. ASSUME NEW n \in 0..D PROVE ((D - n) * a + n * b) \div D = a + n * s
  <2>1. a + n * s \in Int /\ n * b = n * a + n * (D * s)
    BY <1>1, <1>2
  <2>2. (D - n) * a + n * b = (a + n * s) * D + 0
    BY <1>1, <2>1
  <2> QED
    BY <2>1, <2>2, DivUnique
<1> QED
  BY <1>1, <1>2, <1>3, <1>4 DEF s

Progress == [1..4 -> Nat]

\* A stage is begun when the one before it is over.
InTurn(p) ==
  /\ \A i \in 1..4 : p[i] <= Durations[i]
  /\ p[2] > 0 => p[1] = Durations[1]
  /\ p[3] > 0 => p[2] = Durations[2]
  /\ p[4] > 0 => p[3] = Durations[3]

\* Where the joint is led from start by the steps of p.
Led(start, p) ==
  start + p[1] * Share(start, _targetPos[1], Durations[1])
        + p[2] * Share(_targetPos[1], _targetPos[2], Durations[2])
        + p[4] * Share(_targetPos[2], _targetPos[3], Durations[4])

StageTypeOK ==
  /\ motiontime \in Nat /\ firstRun \in BOOLEAN /\ k \in Progress /\ q \in Int
  /\ joint \in Positions /\ stand_received \in BOOLEAN
  /\ low_state \in Positions \cup {0} /\ _startPos \in Positions \cup {0}

\* The target last written is where the steps made so far lead the joint.
StagesInv ==
  /\ StageTypeOK
  /\ InTurn(k)
  /\ firstRun => \A i \in 1..4 : k[i] = 0
  /\ ~firstRun => q = Led(_startPos, k)
  /\ stand_received => Stand!Abs(joint - low_state) <= Drift

\* The stages' ways are made of whole shares.
LEMMA StageShares ==
  ASSUME NEW start \in Positions \cup {0}
  PROVE  /\ start \in Int /\ \A i \in 1..3 : _targetPos[i] \in Int
         /\ \A i \in 1..4 : Durations[i] \in Nat /\ Durations[i] > 0
         /\ (_targetPos[1] - start) % Durations[1] = 0
         /\ (_targetPos[2] - _targetPos[1]) % Durations[2] = 0
         /\ (_targetPos[3] - _targetPos[2]) % Durations[4] = 0
  BY StandAssumption

\* The pace of a stage is its share.
LEMMA StagePaces ==
  ASSUME NEW start \in Positions \cup {0}
  PROVE  LET s1 == Share(start, _targetPos[1], Durations[1])
             s2 == Share(_targetPos[1], _targetPos[2], Durations[2])
             s4 == Share(_targetPos[2], _targetPos[3], Durations[4])
         IN /\ s1 \in Int /\ Stand!Abs(_targetPos[1] - start) \div Durations[1] = Stand!Abs(s1)
            /\ s2 \in Int
            /\ Stand!Abs(_targetPos[2] - _targetPos[1]) \div Durations[2] = Stand!Abs(s2)
            /\ s4 \in Int
            /\ Stand!Abs(_targetPos[3] - _targetPos[2]) \div Durations[4] = Stand!Abs(s4)
<1>0. /\ start \in Int /\ _targetPos[1] \in Int /\ _targetPos[2] \in Int /\ _targetPos[3] \in Int
      /\ Durations[1] \in Nat /\ Durations[2] \in Nat /\ Durations[4] \in Nat
      /\ Durations[1] > 0 /\ Durations[2] > 0 /\ Durations[4] > 0
      /\ (_targetPos[1] - start) % Durations[1] = 0
      /\ (_targetPos[2] - _targetPos[1]) % Durations[2] = 0
      /\ (_targetPos[3] - _targetPos[2]) % Durations[4] = 0
  BY StageShares
<1>1. /\ Share(start, _targetPos[1], Durations[1]) \in Int
      /\ Stand!Abs(_targetPos[1] - start) \div Durations[1]
           = Stand!Abs(Share(start, _targetPos[1], Durations[1]))
  BY <1>0, WholeShares, ZenonT(60)
<1>2. /\ Share(_targetPos[1], _targetPos[2], Durations[2]) \in Int
      /\ Stand!Abs(_targetPos[2] - _targetPos[1]) \div Durations[2]
           = Stand!Abs(Share(_targetPos[1], _targetPos[2], Durations[2]))
  BY <1>0, WholeShares, ZenonT(60)
<1>3. /\ Share(_targetPos[2], _targetPos[3], Durations[4]) \in Int
      /\ Stand!Abs(_targetPos[3] - _targetPos[2]) \div Durations[4]
           = Stand!Abs(Share(_targetPos[2], _targetPos[3], Durations[4]))
  BY <1>0, WholeShares, ZenonT(60)
<1> QED
  BY <1>1, <1>2, <1>3

\* What a pass writes is where its stages lead the joint, whichever of them
\* wrote last.
LEMMA TargetIsLed ==
  ASSUME NEW start \in Positions \cup {0}, NEW p \in Progress, InTurn(p)
  PROVE  Stand!Target(start, p) = Led(start, p) /\ Led(start, p) \in Int
<1> DEFINE t1 == _targetPos[1]  t2 == _targetPos[2]  t3 == _targetPos[3]
           D1 == Durations[1]  D2 == Durations[2]  D4 == Durations[4]
           s1 == Share(start, t1, D1)  s2 == Share(t1, t2, D2)  s4 == Share(t2, t3, D4)
<1>0. /\ \A i \in 1..4 : p[i] \in 0..Durations[i]
      /\ p[2] > 0 => p[1] = D1
      /\ p[3] > 0 => p[2] = D2
      /\ p[4] > 0 => p[3] = Durations[3]
      /\ start \in Int /\ t1 \in Int /\ t2 \in Int /\ t3 \in Int
      /\ D1 \in Nat /\ D2 \in Nat /\ Durations[3] \in Nat /\ D4 \in Nat
      /\ D1 > 0 /\ D2 > 0 /\ Durations[3] > 0 /\ D4 > 0
  BY StageShares DEF InTurn, Progress
<1>0a. (t1 - start) % D1 = 0 /\ (t2 - t1) % D2 = 0 /\ (t3 - t2) % D4 = 0
  BY StageShares
<1>1. /\ s1 \in Int /\ t1 = start + D1 * s1
      /\ \A n \in 0..D1 : ((D1 - n) * start + n * t1) \div D1 = start + n * s1
  BY <1>0, <1>0a, WholeShares, ZenonT(60)
<1>2. /\ s2 \in Int /\ t2 = t1 + D2 * s2
      /\ \A n \in 0..D2 : ((D2 - n) * t1 + n * t2) \div D2 = t1 + n * s2
  BY <1>0, <1>0a, WholeShares, ZenonT(60)
<1>3. /\ s4 \in Int /\ t3 = t2 + D4 * s4
      /\ \A n \in 0..D4 : ((D4 - n) * t2 + n * t3) \div D4 = t2 + n * s4
  BY <1>0, <1>0a, WholeShares, ZenonT(60)
<1>4. Stand!Way(start, t1, 1, p) = start + p[1] * s1
  BY <1>0, <1>1 DEF Stand!Way
<1>5. Stand!Way(t1, t2, 2, p) = t1 + p[2] * s2
  BY <1>0, <1>2 DEF Stand!Way
<1>6. Stand!Way(t2, t3, 4, p) = t2 + p[4] * s4
  BY <1>0, <1>3 DEF Stand!Way
<1> DEFINE x1 == p[1] * s1  x2 == p[2] * s2  x4 == p[4] * s4
<1>7. Led(start, p) = start + x1 + x2 + x4
  BY DEF Led
<1>8. Stand!Target(start, p) =
        CASE p[2] = 0             -> start + x1
          [] p[2] > 0 /\ p[3] = 0 -> t1 + x2
          [] p[3] > 0 /\ p[4] = 0 -> t2
          [] p[4] > 0             -> t2 + x4
  BY <1>4, <1>5, <1>6 DEF Stand!Target
<1>9. p[1] \in Nat /\ p[2] \in Nat /\ p[3] \in Nat /\ p[4] \in Nat
  BY DEF Progress
<1>10. x1 \in Int /\ x2 \in Int /\ x4 \in Int
  BY <1>1, <1>2, <1>3, <1>9
<1>11. /\ p[2] = 0 => x2 = 0
       /\ p[4] = 0 => x4 = 0
       /\ p[1] = D1 => t1 = start + x1
       /\ p[2] = D2 => t2 = t1 + x2
  BY <1>1, <1>2, <1>3, <1>9
<1> HIDE DEF t1, t2, t3, D1, D2, D4, s1, s2, s4, x1, x2, x4
<1>12. CASE p[2] = 0
  <2>1. p[3] = 0 /\ p[4] = 0
    BY <1>0, <1>9, <1>12
  <2>2. Stand!Target(start, p) = start + x1
    BY <1>8, <1>9, <1>12, <2>1
  <2> QED
    BY <1>0, <1>7, <1>10, <1>11, <1>12, <2>1, <2>2
<1>13. CASE p[2] > 0 /\ p[3] = 0
  <2>1. p[1] = D1 /\ p[4] = 0
    BY <1>0, <1>9, <1>13
  <2>2. Stand!Target(start, p) = t1 + x2
    BY <1>8, <1>9, <1>13, <2>1
  <2> QED
    BY <1>0, <1>7, <1>10, <1>11, <2>1, <2>2
<1>14. CASE p[3] > 0 /\ p[4] = 0
  <2>1. p[1] = D1 /\ p[2] = D2
    BY <1>0, <1>9, <1>14
  <2>2. Stand!Target(start, p) = t2
    BY <1>0, <1>8, <1>9, <1>14, <2>1
  <2> QED
    BY <1>0, <1>7, <1>10, <1>11, <1>14, <2>1, <2>2
<1>15. CASE p[4] > 0
  <2>1. p[1] = D1 /\ p[2] = D2 /\ p[3] > 0
    BY <1>0, <1>9, <1>15
  <2>2. Stand!Target(start, p) = t2 + x4
    BY <1>0, <1>8, <1>9, <1>15, <2>1
  <2> QED
    BY <1>0, <1>7, <1>10, <1>11, <2>1, <2>2
<1> QED
  BY <1>0, <1>9, <1>12, <1>13, <1>14, <1>15

\* Advance makes at most one step, in its stage, and none beyond its end.
LEMMA AdvanceInTurn ==
  ASSUME NEW p \in Progress, NEW i \in 1..4, InTurn(p), i > 1 => p[i - 1] = Durations[i - 1]
  PROVE  /\ Stand!Advance(p, i) \in Progress
         /\ InTurn(Stand!Advance(p, i))
         /\ Stand!Advance(p, i)[i] - p[i] \in {0, 1}
         /\ \A j \in 1..4 \ {i} : Stand!Advance(p, i)[j] = p[j]
<1>0. \A j \in 1..4 : Durations[j] \in Nat /\ Durations[j] > 0
  BY StandAssumption
<1>1. CASE p[i] = Durations[i]
  BY <1>1, <1>0 DEF Stand!Advance, Stand!Full, Progress
<1>2. CASE p[i] # Durations[i]
  <2> DEFINE r == [p EXCEPT ![i] = @ + 1]
  <2>1. Stand!Advance(p, i) = r
    BY <1>2 DEF Stand!Advance, Stand!Full
  <2>2. r \in Progress /\ r[i] = p[i] + 1 /\ \A j \in 1..4 \ {i} : r[j] = p[j]
    BY DEF Progress
  <2>3. p[1] \in Nat /\ p[2] \in Nat /\ p[3] \in Nat /\ p[4] \in Nat
    BY DEF Progress
  <2> HIDE DEF r
  <2>4. \A j \in 1..4 : r[j] <= Durations[j]
    BY <1>0, <1>2, <2>2, <2>3 DEF InTurn
  <2>5. /\ r[2] > 0 => r[1] = Durations[1]
        /\ r[3] > 0 => r[2] = Durations[2]
        /\ r[4] > 0 => r[3] = Durations[3]
    <3>1. CASE i = 1
      BY <1>0, <1>2, <2>2, <2>3, <3>1 DEF InTurn
    <3>2. CASE i = 2
      BY <1>0, <1>2, <2>2, <2>3, <3>2 DEF InTurn
    <3>3. CASE i = 3
      BY <1>0, <1>2, <2>2, <2>3, <3>3 DEF InTurn
    <3>4. CASE i = 4
      BY <1>0, <1>2, <2>2, <2>3, <3>4 DEF InTurn
    <3> QED
      BY <3>1, <3>2, <3>3, <3>4
  <2>6. r[i] - p[i] \in {0, 1}
    BY <2>2, <2>3
  <2> QED
    BY <2>1, <2>2, <2>4, <2>5, <2>6 DEF InTurn
<1> QED
  BY <1>1, <1>2

\* So does a stage, if it is due.
LEMMA StageInTurn ==
  ASSUME NEW p \in Progress, NEW i \in 2..4, InTurn(p)
  PROVE  /\ Stand!AfterStage(p, i) \in Progress
         /\ InTurn(Stand!AfterStage(p, i))
         /\ Stand!AfterStage(p, i)[i] - p[i] \in {0, 1}
         /\ \A j \in 1..4 \ {i} : Stand!AfterStage(p, i)[j] = p[j]
<1>1. CASE Stand!Stage(p) = i
  <2>1. p[i - 1] = Durations[i - 1]
    BY <1>1 DEF Stand!Stage, Stand!Full
  <2> QED
    BY <1>1, <2>1, AdvanceInTurn DEF Stand!AfterStage
<1>2. CASE Stand!Stage(p) # i
  BY <1>2 DEF Stand!AfterStage, Progress
<1> QED
  BY <1>1, <1>2

\* A pass makes at most one step in every stage.
LEMMA CountersInTurn ==
  ASSUME k \in Progress, InTurn(k)
  PROVE  /\ Stand!Counters \in Progress
         /\ InTurn(Stand!Counters)
         /\ \A j \in 1..4 : Stand!Counters[j] - k[j] \in {0, 1}
<1> DEFINE a == Stand!Advance(k, 1)
           b == Stand!AfterStage(a, 2)
           c == Stand!AfterStage(b, 3)
           d == Stand!AfterStage(c, 4)
<1>1. /\ a \in Progress /\ InTurn(a) /\ a[1] - k[1] \in {0, 1}
      /\ \A j \in 1..4 \ {1} : a[j] = k[j]
  BY AdvanceInTurn
<1> HIDE DEF a
<1>2. /\ b \in Progress /\ InTurn(b) /\ b[2] - a[2] \in {0, 1}
      /\ \A j \in 1..4 \ {2} : b[j] = a[j]
  BY <1>1, StageInTurn
<1> HIDE DEF b
<1>3. /\ c \in Progress /\ InTurn(c) /\ c[3] - b[3] \in {0, 1}
      /\ \A j \in 1..4 \ {3} : c[j] = b[j]
  BY <1>2, StageInTurn
<1> HIDE DEF c
<1>4. /\ d \in Progress /\ InTurn(d) /\ d[4] - c[4] \in {0, 1}
      /\ \A j \in 1..4 \ {4} : d[j] = c[j]
  BY <1>3, StageInTurn
<1> HIDE DEF d
<1>5. Stand!Counters = d
  BY DEF Stand!Counters, a, b, c, d
<1>6. \A j \in 1..4 : d[j] - k[j] \in {0, 1}
  <2>1. d[1] = c[1] /\ c[1] = b[1] /\ b[1] = a[1]
    BY <1>2, <1>3, <1>4
  <2>2. d[2] = c[2] /\ c[2] = b[2] /\ a[2] = k[2]
    BY <1>1, <1>3, <1>4
  <2>3. d[3] = c[3] /\ b[3] = a[3] /\ a[3] = k[3]
    BY <1>1, <1>2, <1>4
  <2>4. c[4] = b[4] /\ b[4] = a[4] /\ a[4] = k[4]
    BY <1>1, <1>2, <1>3
  <2> QED
    BY <1>1, <1>2, <1>3, <1>4, <2>1, <2>2, <2>3, <2>4
<1> QED
  BY <1>4, <1>5, <1>6

\* Nothing has been written.
LEMMA StagesInitInv == Stand!Init => StagesInv
<1> SUFFICES ASSUME Stand!Init PROVE StagesInv
  OBVIOUS
<1>1. \A i \in 1..4 : k[i] = 0
  BY DEF Stand!Init
<1>2. StageTypeOK
  <2>1. firstRun \in BOOLEAN /\ stand_received \in BOOLEAN
    BY DEF Stand!Init
  <2>2. k \in Progress
    BY DEF Stand!Init, Progress
  <2>3. motiontime \in Nat /\ q \in Int
    BY DEF Stand!Init
  <2>4. joint \in Positions /\ low_state \in {0} /\ _startPos \in {0}
    BY DEF Stand!Init
  <2> QED
    BY <2>1, <2>2, <2>3, <2>4 DEF StageTypeOK
<1>3. InTurn(k)
  <2>1. \A i \in 1..4 : Durations[i] \in Nat
    BY StandAssumption
  <2>2. k[1] = 0 /\ k[2] = 0 /\ k[3] = 0 /\ k[4] = 0
    BY <1>1
  <2> QED
    BY <2>1, <2>2 DEF InTurn
<1> QED
  BY <1>1, <1>2, <1>3 DEF StagesInv, Stand!Init

\* What LowCmdWrite does once the delay is over.
LEMMA PassFacts ==
  ASSUME StagesInv, Stand!LowCmdWrite, motiontime' >= Delay
  PROVE  /\ k' \in Progress /\ InTurn(k') /\ \A j \in 1..4 : k'[j] - k[j] \in {0, 1}
         /\ _startPos' \in Positions \cup {0} /\ ~firstRun'
         /\ _startPos' = IF firstRun THEN low_state ELSE _startPos
         /\ q' = Led(_startPos', k') /\ q' \in Int
<1>1. /\ _startPos' = IF firstRun THEN low_state ELSE _startPos
      /\ firstRun' = FALSE /\ k' = Stand!Counters /\ q' = Stand!Target(_startPos', k')
  BY DEF Stand!LowCmdWrite
<1>2. /\ k' \in Progress /\ InTurn(k') /\ \A j \in 1..4 : k'[j] - k[j] \in {0, 1}
  BY <1>1, CountersInTurn DEF StagesInv, StageTypeOK
<1>3. _startPos' \in Positions \cup {0}
  BY <1>1 DEF StagesInv, StageTypeOK
<1>4. q' = Led(_startPos', k') /\ Led(_startPos', k') \in Int
  BY <1>1, <1>2, <1>3, TargetIsLed
<1> QED
  BY <1>1, <1>2, <1>3, <1>4

\* A stand-up's steps preserve the invariant of its stages.
LEMMA StagesStepInv == ASSUME StagesInv, Stand!Next PROVE StagesInv'
<1>0. Positions \subseteq Int /\ Drift \in Nat
  BY StandAssumption
<1>1. CASE Stand!LowStateMessageHandler
  <2>1. low_state' = joint /\ joint' = joint /\ stand_received' = TRUE
        /\ UNCHANGED <<motiontime, firstRun, _startPos, k, q>>
    BY <1>1 DEF Stand!LowStateMessageHandler, Stand!standVars
  <2>2. Stand!Abs(joint' - low_state') <= Drift
    BY <1>0, <2>1 DEF Stand!Abs, StagesInv, StageTypeOK
  <2> QED
    BY <2>1, <2>2 DEF StagesInv, StageTypeOK, InTurn, Led
<1>4. ASSUME NEW p \in Positions, Stand!JointMoves(p) PROVE StagesInv'
  BY <1>4 DEF Stand!JointMoves, Stand!standVars, Stand!Abs, StagesInv, StageTypeOK, InTurn, Led
<1>2. ASSUME NEW b \in BOOLEAN, Stand!CheckMode(b) \/ Stand!ReleaseMode(b) PROVE StagesInv'
  BY <1>2 DEF Stand!CheckMode, Stand!ReleaseMode, Stand!standVars, Stand!sensorVars, StagesInv,
              StageTypeOK, InTurn, Led
<1>3. CASE Stand!LowCmdWrite
  <2>1. motiontime' \in Nat /\ UNCHANGED <<joint, low_state, stand_received>>
    BY <1>3 DEF Stand!LowCmdWrite, Stand!sensorVars, StagesInv, StageTypeOK
  <2>2. CASE motiontime' >= Delay
    <3>1. /\ k' \in Progress /\ InTurn(k') /\ _startPos' \in Positions \cup {0} /\ ~firstRun'
          /\ q' = Led(_startPos', k') /\ q' \in Int
      BY <1>3, <2>2, PassFacts
    <3>2. firstRun' \in BOOLEAN
      BY <1>3, <2>2 DEF Stand!LowCmdWrite
    <3>3. StageTypeOK'
      BY <2>1, <3>1, <3>2 DEF StagesInv, StageTypeOK
    <3>4. (stand_received => Stand!Abs(joint - low_state) <= Drift)'
      BY <2>1 DEF StagesInv, Stand!Abs
    <3>5. (~firstRun => q = Led(_startPos, k))'
      BY <3>1 DEF Led
    <3>6. InTurn(k)'
      BY <3>1 DEF InTurn
    <3> QED
      BY <3>1, <3>3, <3>4, <3>5, <3>6 DEF StagesInv
  <2>3. CASE ~(motiontime' >= Delay)
    BY <1>3, <2>1, <2>3 DEF Stand!LowCmdWrite, StagesInv, StageTypeOK, InTurn, Led
  <2> QED
    BY <2>2, <2>3
<1> QED
  BY <1>1, <1>2, <1>3, <1>4 DEF Stand!Next

\* One step of a share, or none.
LEMMA StepOfShare ==
  ASSUME NEW n \in Nat, NEW m \in Nat, NEW s \in Int, m - n \in {0, 1}
  PROVE  /\ m * s - n * s \in Int
         /\ Stand!Abs(m * s - n * s) <= (m - n) * Stand!Abs(s)
         /\ (m - n) * Stand!Abs(s) \in Nat
<1>1. CASE m = n
  BY <1>1 DEF Stand!Abs
<1>2. CASE m = n + 1
  <2>1. m * s - n * s = s
    BY <1>2
  <2>2. m - n = 1
    BY <1>2
  <2> QED
    BY <2>1, <2>2 DEF Stand!Abs
<1> QED
  BY <1>1, <1>2

\* A pass moves the target by the shares of the stages that made a step.
LEMMA PassMovesByShares ==
  ASSUME StagesInv, StagesInv', Stand!Next
  PROVE  Stand!NoJump
<1> SUFFICES ASSUME k' # k, firstRun => stand_received
             PROVE  Stand!Abs(q' - (IF firstRun THEN joint ELSE q))
                      <= Stand!Led(1) + Stand!Led(2) + Stand!Led(3) + Stand!Led(4)
                           + (IF firstRun THEN Drift ELSE 0)
  BY DEF Stand!NoJump
<1>1. Stand!LowCmdWrite
  BY DEF Stand!Next, Stand!JointMoves, Stand!LowStateMessageHandler, Stand!CheckMode,
         Stand!ReleaseMode, Stand!standVars
<1>2. motiontime' >= Delay
  BY <1>1 DEF Stand!LowCmdWrite
<1> DEFINE start == _startPos'
<1> DEFINE from == IF firstRun THEN joint ELSE q
           slack == IF firstRun THEN Drift ELSE 0
           s1 == Share(start, _targetPos[1], Durations[1])
           s2 == Share(_targetPos[1], _targetPos[2], Durations[2])
           s4 == Share(_targetPos[2], _targetPos[3], Durations[4])
<1>3. /\ \A j \in 1..4 : k[j] \in Nat /\ k'[j] \in Nat /\ k'[j] - k[j] \in {0, 1}
      /\ start \in Positions \cup {0}
      /\ start = IF firstRun THEN low_state ELSE _startPos
      /\ q' = Led(start, k')
  <2>1. k \in Progress
    BY DEF StagesInv, StageTypeOK
  <2> QED
    BY <1>1, <1>2, <2>1, PassFacts DEF Progress
<1> HIDE DEF start
<1>4. start \in Int
  BY <1>3, StageShares
<1>5. /\ s1 \in Int /\ Stand!Abs(_targetPos[1] - start) \div Durations[1] = Stand!Abs(s1)
      /\ s2 \in Int
      /\ Stand!Abs(_targetPos[2] - _targetPos[1]) \div Durations[2] = Stand!Abs(s2)
      /\ s4 \in Int
      /\ Stand!Abs(_targetPos[3] - _targetPos[2]) \div Durations[4] = Stand!Abs(s4)
  BY <1>3, StagePaces
<1>6. /\ k[1] \in Nat /\ k'[1] \in Nat /\ k'[1] - k[1] \in {0, 1}
      /\ k[2] \in Nat /\ k'[2] \in Nat /\ k'[2] - k[2] \in {0, 1}
      /\ k[4] \in Nat /\ k'[4] \in Nat /\ k'[4] - k[4] \in {0, 1}
  BY <1>3
<1> DEFINE origin == start + k[1] * s1 + k[2] * s2 + k[4] * s4
<1>7. from \in Int /\ slack \in Nat /\ Stand!Abs(from - origin) <= slack
  <2>0. joint \in Int /\ q \in Int /\ Drift \in Nat
    BY StandAssumption DEF StagesInv, StageTypeOK
  <2>1. CASE firstRun
    <3>1. start = low_state /\ k[1] = 0 /\ k[2] = 0 /\ k[4] = 0
      BY <1>3, <2>1 DEF StagesInv
    <3>2. origin = low_state
      BY <1>4, <1>5, <3>1
    <3>3. Stand!Abs(joint - low_state) <= Drift
      BY <2>1 DEF StagesInv
    <3> QED
      BY <2>0, <2>1, <3>2, <3>3
  <2>2. CASE ~firstRun
    <3>1. q = origin
      BY <1>3, <2>2 DEF StagesInv, Led
    <3> HIDE DEF origin
    <3> QED
      BY <2>0, <2>2, <3>1 DEF Stand!Abs
  <2> QED
    BY <2>1, <2>2
<1>8. q' = start + k'[1] * s1 + k'[2] * s2 + k'[4] * s4
  BY <1>3 DEF Led
<1>9. /\ Stand!Led(1) = (k'[1] - k[1]) * Stand!Abs(s1)
      /\ Stand!Led(2) = (k'[2] - k[2]) * Stand!Abs(s2)
      /\ Stand!Led(3) = 0
      /\ Stand!Led(4) = (k'[4] - k[4]) * Stand!Abs(s4)
  BY <1>3, <1>5, <1>6 DEF Stand!Led, Stand!Pace, start
<1> HIDE DEF s1, s2, s4
<1> DEFINE x1 == k[1] * s1  x2 == k[2] * s2  x4 == k[4] * s4
           y1 == k'[1] * s1  y2 == k'[2] * s2  y4 == k'[4] * s4
<1>10. x1 \in Int /\ x2 \in Int /\ x4 \in Int /\ y1 \in Int /\ y2 \in Int /\ y4 \in Int
  BY <1>5, <1>6
<1>11. /\ Stand!Abs(k'[1] * s1 - k[1] * s1) <= (k'[1] - k[1]) * Stand!Abs(s1)
       /\ Stand!Abs(k'[2] * s2 - k[2] * s2) <= (k'[2] - k[2]) * Stand!Abs(s2)
       /\ Stand!Abs(k'[4] * s4 - k[4] * s4) <= (k'[4] - k[4]) * Stand!Abs(s4)
       /\ (k'[1] - k[1]) * Stand!Abs(s1) \in Nat
       /\ (k'[2] - k[2]) * Stand!Abs(s2) \in Nat
       /\ (k'[4] - k[4]) * Stand!Abs(s4) \in Nat
  <2> HIDE DEF x1, x2, x4, y1, y2, y4
  <2> QED
    BY <1>5, <1>6, StepOfShare
<1>12. /\ Stand!Abs(y1 - x1) <= Stand!Led(1) /\ Stand!Led(1) \in Nat
       /\ Stand!Abs(y2 - x2) <= Stand!Led(2) /\ Stand!Led(2) \in Nat
       /\ Stand!Abs(y4 - x4) <= Stand!Led(4) /\ Stand!Led(4) \in Nat
  BY <1>9, <1>11
<1>13. origin = start + x1 + x2 + x4 /\ q' = start + y1 + y2 + y4
  BY <1>8
<1> HIDE DEF from, slack, origin, start, s1, s2, s4, x1, x2, x4, y1, y2, y4
<1>14. Stand!Abs(q' - from)
         <= Stand!Led(1) + Stand!Led(2) + Stand!Led(3) + Stand!Led(4) + slack
  <2>1. Stand!Abs(q' - origin) <= Stand!Led(1) + Stand!Led(2) + Stand!Led(3) + Stand!Led(4)
    BY <1>4, <1>9, <1>10, <1>12, <1>13 DEF Stand!Abs
  <2>2. origin \in Int /\ q' \in Int
    BY <1>4, <1>10, <1>13
  <2> DEFINE total == Stand!Led(1) + Stand!Led(2) + Stand!Led(3) + Stand!Led(4)
             b == q'
  <2>3. total \in Int
    BY <1>9, <1>12
  <2> HIDE DEF total, b
  <2>4. Stand!Abs(b - origin) <= total /\ b \in Int
    BY <2>1, <2>2 DEF total, b
  <2>5. Stand!Abs(b - from) <= total + slack
    BY <1>7, <2>2, <2>3, <2>4 DEF Stand!Abs
  <2> QED
    BY <2>5 DEF total, b
<1> QED
  BY <1>14 DEF from, slack

\* No pass moves a target further than its stages lead it, for all durations
\* and postures of whole shares and wherever the joint is at the start.
THEOREM TargetsAreSmooth == MotionSpec => TargetsDoNotJump
<1>1. MotionInit => StagesInv
  BY StagesInitInv DEF MotionInit
<1>2. StagesInv /\ UNCHANGED standVars => StagesInv'
  BY DEF standVars, StagesInv, StageTypeOK, InTurn, Led
<1>3. StagesInv /\ [MotionNext]_allVars => StagesInv'
  BY <1>2, StagesStepInv DEF MotionNext, allVars
<1>4. StagesInv /\ StagesInv' /\ [MotionNext]_allVars => [Stand!NoJump]_Stand!vars
  <2> SUFFICES ASSUME StagesInv, StagesInv', [MotionNext]_allVars
               PROVE  UNCHANGED Stand!vars \/ Stand!NoJump
    OBVIOUS
  <2>1. UNCHANGED standVars => UNCHANGED Stand!vars
    BY DEF standVars, Stand!vars
  <2> QED
    BY <2>1, PassMovesByShares DEF MotionNext, allVars
<1> QED
  BY <1>1, <1>3, <1>4, PTL DEF MotionSpec, TargetsDoNotJump, Stand!TargetsDoNotJump

-----------------------------------------------------------------------------
(* RotateCommand: the angle that is added up.  AngleIsTrue is not          *)
(* inductive: it says nothing of the yaw in high_state.  Tracked adds that *)
(* high_state and prev_yaw are what the robot's angles at those moments    *)
(* look like between -pi and pi, that is, that they and the robot's yaw    *)
(* differ by the angles turned in between, up to a turn.                   *)

\* Two yaws are a known angle apart, up to one turn.
Apart(a, b, angle) == a - b \in {angle, angle - Circle, angle + Circle}

\* What is remembered fits what the robot did since.
Tracked ==
  /\ Abs(turned - received) <= MaxTurn
  /\ Abs(turned - seen) <= MaxTurn
  /\ Abs(received - seen) <= MaxTurn
  /\ Apart(yaw, high_state, turned - received)
  /\ request # "none" => Apart(high_state, prev_yaw, received - seen)
  /\ request # "none" => Apart(yaw, prev_yaw, turned - seen)

Timed == (late \/ request = "TIMEOUT") => left = 0

RotateInv == TypeOK /\ Tracked /\ Timed /\ AngleIsTrue /\ SuccessIsTrue /\ TurnsTowards

USE CircleAssumption, TurnAssumption, RequestAssumption, ErrorAssumption, PidAssumption

\* A circle is two halves.
LEMMA HalfFacts == Half \in Nat /\ Circle = 2 * Half /\ Half > 0
  BY DEF Half

\* Wrapped brings an angle back between -pi and pi.
LEMMA WrappedRange ==
  ASSUME NEW a \in Int, a >= -Half - Circle, a <= Half + Circle
  PROVE  Wrapped(a) \in -Half .. Half
  BY HalfFacts DEF Wrapped

\* The difference of two yaws, wrapped, is the angle between them if that is
\* less than half a turn.
LEMMA WrappedDifference ==
  ASSUME NEW a \in -Half .. Half, NEW b \in -Half .. Half, NEW angle \in Int,
         Abs(angle) <= MaxTurn, Apart(a, b, angle)
  PROVE  Wrapped(a - b) = angle
  BY HalfFacts DEF Wrapped, Apart, Abs

\* Turning by d moves the yaw away from another one by d.
LEMMA TurnApart ==
  ASSUME NEW a \in -Half .. Half, NEW b \in -Half .. Half, NEW angle \in Int, NEW d \in Int,
         Abs(angle) <= MaxTurn, Abs(d) <= MaxTurn, Abs(angle + d) <= MaxTurn,
         Apart(a, b, angle)
  PROVE  Apart(Wrapped(a + d), b, angle + d)
  BY HalfFacts DEF Wrapped, Apart, Abs

\* Before the first request nothing has been turned, received or seen.
LEMMA RotateInitInv ==
  ASSUME Init
  PROVE  RotateInv
  <1>1. TypeOK
    <2>1. yaw \in -Half .. Half /\ high_state \in -Half .. Half /\ prev_yaw \in -Half .. Half
      BY HalfFacts DEF Init
    <2>2. late \in BOOLEAN
      BY Zenon DEF Init
    <2> QED
      BY <2>1, <2>2 DEF Init, TypeOK, Answered
  <1>2. Tracked
    BY HalfFacts DEF Init, Tracked, Apart, Abs
  <1>3. Timed /\ AngleIsTrue /\ SuccessIsTrue /\ TurnsTowards
    BY DEF Init, Timed, AngleIsTrue, SuccessIsTrue, TurnsTowards
  <1> QED
    BY <1>1, <1>2, <1>3 DEF RotateInv

\* The robot turns: its yaw moves away from what was received and seen.
LEMMA TurnInv ==
  ASSUME RotateInv, NEW d \in -MaxTurn .. MaxTurn, Turn(d)
  PROVE  RotateInv'
  <1>0. d \in Int /\ Abs(d) <= MaxTurn
    BY DEF Abs
  <1>1. TypeOK'
    BY <1>0, HalfFacts, WrappedRange DEF RotateInv, TypeOK, Turn, requestVars
  <1>2. /\ turned' - received' = (turned - received) + d
        /\ turned' - seen' = (turned - seen) + d
        /\ Abs(turned' - received') <= MaxTurn /\ Abs(turned' - seen') <= MaxTurn
    BY DEF RotateInv, TypeOK, Turn, requestVars
  <1>3. Apart(yaw', high_state', turned' - received')
    BY <1>0, <1>2, TurnApart DEF RotateInv, TypeOK, Tracked, Turn, requestVars
  <1>4. request' # "none" => Apart(yaw', prev_yaw', turned' - seen')
    BY <1>0, <1>2, TurnApart DEF RotateInv, TypeOK, Tracked, Turn, requestVars
  <1>5. Tracked'
    BY <1>2, <1>3, <1>4 DEF RotateInv, Tracked, Turn, requestVars, Apart
  <1> QED
    BY <1>1, <1>5 DEF RotateInv, Timed, AngleIsTrue, SuccessIsTrue, TurnsTowards,
       Turn, requestVars

\* _HighStateHandler stores the yaw of the moment.
LEMMA RotateHandlerInv ==
  ASSUME RotateInv, _HighStateHandler
  PROVE  RotateInv'
  <1>1. TypeOK'
    BY DEF RotateInv, TypeOK, _HighStateHandler, robotVars, requestVars
  <1>2. Tracked'
    BY HalfFacts DEF RotateInv, TypeOK, Tracked, _HighStateHandler, robotVars,
       requestVars, Apart, Abs
  <1> QED
    BY <1>1, <1>2 DEF RotateInv, Timed, AngleIsTrue, SuccessIsTrue, TurnsTowards,
       _HighStateHandler, robotVars, requestVars

\* Time passes.
LEMMA TickInv ==
  ASSUME RotateInv, Tick
  PROVE  RotateInv'
  BY DEF RotateInv, TypeOK, Tracked, Timed, AngleIsTrue, SuccessIsTrue, TurnsTowards,
     Tick, robotVars, requestVars, Apart

\* A request starts with a look at the yaw.
LEMMA RotateRequestInv ==
  ASSUME RotateInv, NEW d \in Deltas, rotate(d)
  PROVE  RotateInv'
  <1>1. TypeOK'
    BY DEF RotateInv, TypeOK, rotate, robotVars, Answered
  <1>2. Tracked'
    BY HalfFacts DEF RotateInv, TypeOK, Tracked, rotate, robotVars, Apart, Abs
  <1>3. Timed'
    BY DEF Timed, rotate
  <1>4. AngleIsTrue' /\ SuccessIsTrue' /\ TurnsTowards'
    <2>1. request' = "loop" /\ accumulated_angle' = 0 /\ seen' = received /\ startedAt' = received
      BY DEF rotate
    <2>2. AngleIsTrue'
      BY <2>1 DEF AngleIsTrue, RotateInv, TypeOK
    <2>3. SuccessIsTrue' /\ TurnsTowards'
      BY <2>1, Zenon DEF SuccessIsTrue, TurnsTowards
    <2> QED
      BY <2>2, <2>3
  <1> QED
    BY <1>1, <1>2, <1>3, <1>4 DEF RotateInv

\* The velocity has the sign of what is left, and is within the limit.
LEMMA UpdateFacts ==
  ASSUME NEW e \in Int
  PROVE  /\ update(e) \in -OLimit .. OLimit
         /\ update(e) > 0 <=> e > 0
  <1>1. Kp * e \in Int /\ (Kp * e > 0 <=> e > 0)
    OBVIOUS
  <1> QED
    BY <1>1 DEF update

\* A pass adds the wrapped difference and answers, or sends a velocity.
LEMMA LookInv ==
  ASSUME RotateInv, Look
  PROVE  RotateInv'
  <1>1. yaw_diff = received - seen
    BY WrappedDifference DEF RotateInv, TypeOK, Tracked, Look, yaw_diff
  <1>2. accumulated_angle' = seen' - startedAt'
    BY <1>1 DEF RotateInv, TypeOK, AngleIsTrue, Look
  <1>3. remaining_angle = delta_rad' - (seen' - startedAt') /\ remaining_angle \in Int
    BY <1>1, <1>2 DEF RotateInv, TypeOK, AngleIsTrue, Look, remaining_angle
  <1>4. TypeOK'
    <2>1. vyaw' \in Int
      BY <1>3, UpdateFacts DEF RotateInv, TypeOK, Look
    <2>2. request' \in {"SUCCESS", "sleep"}
      BY DEF Look
    <2>3. accumulated_angle' \in Int
      BY <1>1 DEF RotateInv, TypeOK, Look
    <2> QED
      BY <2>1, <2>2, <2>3 DEF RotateInv, TypeOK, Look, robotVars, Answered
  <1>5. Tracked'
    BY HalfFacts DEF RotateInv, TypeOK, Tracked, Look, robotVars, Apart, Abs
  <1>6. Timed' /\ AngleIsTrue'
    BY <1>2 DEF RotateInv, Timed, AngleIsTrue, Look
  <1>7. SuccessIsTrue'
    BY <1>3 DEF SuccessIsTrue, Look, Close
  <1>8. TurnsTowards'
    BY <1>3, UpdateFacts DEF TurnsTowards, Look
  <1> QED
    BY <1>4, <1>5, <1>6, <1>7, <1>8 DEF RotateInv

\* The sleep between passes and the timeout leave the sum alone.
LEMMA RotatePassInv ==
  ASSUME RotateInv, Sleep \/ GiveUp
  PROVE  RotateInv'
  <1>1. CASE Sleep
    BY <1>1 DEF RotateInv, TypeOK, Tracked, Timed, AngleIsTrue, SuccessIsTrue,
       TurnsTowards, Sleep, robotVars, Apart, Answered
  <1>2. CASE GiveUp
    BY <1>2 DEF RotateInv, TypeOK, Tracked, Timed, AngleIsTrue, SuccessIsTrue,
       TurnsTowards, GiveUp, Expired, robotVars, Apart, Answered
  <1> QED
    BY <1>1, <1>2

\* Nothing happens.
LEMMA RotateStutterInv ==
  ASSUME RotateInv, UNCHANGED vars
  PROVE  RotateInv'
  BY DEF RotateInv, TypeOK, Tracked, Timed, AngleIsTrue, SuccessIsTrue, TurnsTowards,
     vars, Apart

\* rotate keeps its invariant, whatever the robot does and whichever program
\* runs.
LEMMA RotateInvariance == MotionSpec => []RotateInv
  <1>1. MotionInit => RotateInv
    BY RotateInitInv DEF MotionInit
  <1>2. RotateInv /\ [MotionNext]_allVars => RotateInv'
    BY TurnInv, RotateHandlerInv, TickInv, RotateRequestInv, LookInv, RotatePassInv,
       RotateStutterInv DEF MotionNext, allVars, Next, Pass
  <1> QED
    BY <1>1, <1>2, PTL DEF MotionSpec

\* For every circle and every way the robot turns, as long as it turns less
\* than half a circle unseen, rotate's sum is the angle really turned.
THEOREM SumIsTheAngle == MotionSpec => []AngleIsTrue
  BY RotateInvariance, PTL DEF RotateInv

\* rotate reports success only of a rotation that took place.
THEOREM SuccessIsHonest == MotionSpec => []SuccessIsTrue
  BY RotateInvariance, PTL DEF RotateInv

\* What rotate sends is within the limit and turns towards the angle left.
THEOREM VelocityIsSound == MotionSpec => []TurnsTowards
  BY RotateInvariance, PTL DEF RotateInv

=============================================================================
