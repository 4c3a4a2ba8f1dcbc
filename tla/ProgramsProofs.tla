--------------------------- MODULE ProgramsProofs ---------------------------
(***************************************************************************)
(* Proofs about Programs: what each of the programs promises, for every    *)
(* number of workers, clients, bytes and ticks.  A component's invariant   *)
(* is preserved by the component's steps, and by those of the others,      *)
(* which leave its variables alone.                                        *)
(***************************************************************************)
EXTENDS Programs, SequenceTheorems, ModularArithmetic, TLAPS

-----------------------------------------------------------------------------
(* Subscription: the wait for a message and the mode check, for every      *)
(* choice of time-outs and sleeps that SubscriptionAssumption allows.      *)

\* A message is in msg_, or the handler is about to put it there.
Received == msg = robot \/ handling # -1

\* A time-out that was not raised is not longer than the age msg_ starts with.
NotRaised == ~raised => timeout <= DefaultTimeout

NothingYet == ~Received => age > DefaultTimeout

\* While it settles, the handler that ended the wait has less to do than is
\* left of the sleep.
Settling ==
  (wait = "stable" /\ ~raised) => (msg = robot \/ (handling # -1 /\ left + handling >= Stable))

Settled == (wait = "connected" /\ ~raised) => msg = robot

Judged == verdict = "ok" => wait = "connected"

\* How old the message can be that came since the last look.
HeardRecently ==
  /\ (heard /\ wait = "sleep") => age + left <= Poll
  /\ wait = "sleep" => left <= Poll
  /\ (heard /\ wait = "look") => age <= Poll + Slack

SubscriptionInv ==
  /\ TypeOK
  /\ NotRaised
  /\ NothingYet
  /\ Settling
  /\ Settled
  /\ Judged
  /\ CheckedModeIsTrue
  /\ HeardRecently

\* What the assumption says of the bounds, without the quantifier.
LEMMA SubscriptionBounds ==
  /\ Poll + Slack <= DefaultTimeout /\ DefaultTimeout < MaxAge
  /\ DefaultTimeout + 1 \in 0..MaxAge
  /\ 0 \in -Slack..(Poll + Stable)
  /\ Poll \in -Slack..(Poll + Stable)
  /\ Stable \in -Slack..(Poll + Stable)
  /\ 0 \in -1..HandlerBound /\ -1 \in -1..HandlerBound
<1>1. Poll + Slack <= DefaultTimeout /\ DefaultTimeout < MaxAge
  BY SubscriptionAssumption
<1> QED
  BY <1>1, SubscriptionAssumption

\* The constants and the first values satisfy the invariant.
LEMMA SubscriptionInitInv == Init => SubscriptionInv
<1> SUFFICES ASSUME Init PROVE SubscriptionInv
  OBVIOUS
<1>1. TypeOK
  BY SubscriptionAssumption, SubscriptionBounds DEF Init, TypeOK
<1>2. NotRaised /\ NothingYet
  BY SubscriptionAssumption DEF Init, NotRaised, NothingYet
<1>3. Settling /\ Settled /\ Judged /\ CheckedModeIsTrue /\ HeardRecently
  BY DEF Init, Settling, Settled, Judged, CheckedModeIsTrue, HeardRecently
<1> QED
  BY <1>1, <1>2, <1>3 DEF SubscriptionInv

\* Types are preserved by every step.
LEMMA SubscriptionTypeStep == TypeOK /\ [Next]_vars => TypeOK'
<1> SUFFICES ASSUME TypeOK, [Next]_vars PROVE TypeOK'
  OBVIOUS
<1> USE SubscriptionAssumption, SubscriptionBounds DEF TypeOK
<1>1. CASE Stamp
  BY <1>1 DEF Stamp
<1>2. CASE Copy
  BY <1>2 DEF Copy
<1>3. ASSUME NEW t \in Timeouts, SetTimeout(t) PROVE TypeOK'
  BY <1>3 DEF SetTimeout
<1>4. CASE WaitForConnection
  BY <1>4 DEF WaitForConnection
<1>5. CASE Look
  BY <1>5 DEF Look, Settle
<1>6. CASE WakeUp
  BY <1>6 DEF WakeUp
<1>7. CASE CheckModeMachine
  BY <1>7 DEF CheckModeMachine
<1>8. CASE Tick
  BY <1>8 DEF Tick
<1>9. CASE UNCHANGED vars
  BY <1>9 DEF vars
<1> QED
  BY <1>1, <1>2, <1>3, <1>4, <1>5, <1>6, <1>7, <1>8, <1>9 DEF Next

\* Every step preserves the invariant.
LEMMA SubscriptionStepInv == SubscriptionInv /\ [Next]_vars => SubscriptionInv'
<1> SUFFICES ASSUME SubscriptionInv, [Next]_vars PROVE SubscriptionInv'
  OBVIOUS
<1>0. TypeOK'
  BY SubscriptionTypeStep DEF SubscriptionInv
<1> USE SubscriptionAssumption, SubscriptionBounds, <1>0
    DEF SubscriptionInv, TypeOK, Received, NotRaised, NothingYet, Settling, Settled, Judged,
        CheckedModeIsTrue, HeardRecently
<1>1. CASE Stamp
  BY <1>1 DEF Stamp
<1>2. CASE Copy
  BY <1>2 DEF Copy
<1>3. ASSUME NEW t \in Timeouts, SetTimeout(t) PROVE SubscriptionInv'
  <2>1. NotRaised'
    <3>1. t > DefaultTimeout => raised'
      BY <1>3 DEF SetTimeout
    <3>2. timeout' = t
      BY <1>3 DEF SetTimeout
    <3> QED
      BY <3>1, <3>2
  <2>2. raised => raised'
    BY <1>3 DEF SetTimeout
  <2> QED
    BY <1>3, <2>1, <2>2 DEF SetTimeout
<1>4. CASE WaitForConnection
  BY <1>4 DEF WaitForConnection
<1>5. CASE Look
  <2>1. CASE IsTimeout
    BY <1>5, <2>1 DEF Look
  <2>2. CASE ~IsTimeout
    <3>1. ~raised => Received
      BY <2>2 DEF IsTimeout
    <3> QED
      BY <1>5, <2>2, <3>1 DEF Look, Settle
  <2> QED
    BY <2>1, <2>2
<1>6. CASE WakeUp
  BY <1>6 DEF WakeUp
<1>7. CASE CheckModeMachine
  BY <1>7 DEF CheckModeMachine
<1>8. CASE Tick
  BY <1>8 DEF Tick
<1>9. CASE UNCHANGED vars
  BY <1>9 DEF vars
<1> QED
  BY <1>1, <1>2, <1>3, <1>4, <1>5, <1>6, <1>7, <1>8, <1>9 DEF Next

\* The subscription keeps its invariant, whichever program runs.
LEMMA SubscriptionInvariance == ProgramSpec => []SubscriptionInv
<1>1. ProgramInit => SubscriptionInv
  BY SubscriptionInitInv DEF ProgramInit
<1>2. SubscriptionInv /\ [ProgramNext]_allVars => SubscriptionInv'
  BY SubscriptionStepInv DEF ProgramNext, allVars
<1> QED
  BY <1>1, <1>2, PTL DEF ProgramSpec

\* check_mode_machine lets a command pass only for the robot's own mode, as
\* long as set_timeout_ms did not raise the time-out.
THEOREM ModeCheckIsSound == ProgramSpec => []CheckedModeIsTrue
<1>1. SubscriptionInv => CheckedModeIsTrue
  BY DEF SubscriptionInv
<1> QED
  BY SubscriptionInvariance, <1>1, PTL

\* One message ends wait_for_connection, for every time-out that is not
\* shorter than the polling.
THEOREM OneMessageConnects == ProgramSpec => NoMessageMissed
<1>1. SubscriptionInv /\ [Next]_vars => [(wait = "look" /\ wait' = "sleep") => ~heard]_vars
  <2> SUFFICES ASSUME SubscriptionInv, Next, wait = "look", wait' = "sleep" PROVE ~heard
    OBVIOUS
  <2>1. Look
    BY DEF Next, Stamp, Copy, SetTimeout, WaitForConnection, WakeUp, CheckModeMachine, Tick
  <2>2. age > timeout
    BY <2>1 DEF Look, IsTimeout
  <2>3. Poll + Slack <= timeout
    BY SubscriptionAssumption DEF SubscriptionInv, TypeOK
  <2> QED
    BY <2>2, <2>3, SubscriptionAssumption DEF SubscriptionInv, TypeOK, HeardRecently
<1>2. [ProgramNext]_allVars => [Next]_vars
  BY DEF ProgramNext, allVars
<1> QED
  BY SubscriptionInvariance, <1>1, <1>2, PTL DEF ProgramSpec, NoMessageMissed

-----------------------------------------------------------------------------
(* RemoteControl: a stop that met no motion request.                       *)

RemoteTypeOK ==
  /\ pc \in [Workers -> {"idle", "loop", "call", "reply"}]
  /\ command \in [Workers -> Remote!Commands \cup {"none"}]
  /\ rslt \in [Workers -> {0, 1}]
  /\ undisturbed \subseteq Workers

\* No worker is handling a motion request.
NoMotionRuns == \A v \in Workers : pc[v] # "idle" => command[v] \notin Remote!Motions

\* After such a stop nothing moves the robot.
QuietIsStill == quiet => ~moving /\ NoMotionRuns

\* While such a stop is handled nothing moves the robot but what it stops.
UndisturbedStops ==
  \A w \in undisturbed :
    /\ pc[w] # "idle" /\ command[w] = "stop"
    /\ NoMotionRuns
    /\ (pc[w] = "reply" /\ rslt[w] = 0) => ~moving

RemoteInv == RemoteTypeOK /\ QuietIsStill /\ UndisturbedStops

\* No request has come.
LEMMA RemoteInitInv == Remote!Init => RemoteInv
BY DEF Remote!Init, RemoteInv, RemoteTypeOK, QuietIsStill, UndisturbedStops

\* An answer takes its worker out of the requests that are handled; a success
\* of an undisturbed stop is the beginning of quiet.
LEMMA RemoteAnswer ==
  ASSUME RemoteInv, NEW w \in Workers, NEW status, Remote!Answer(w, status),
         status = "SUCCESS" /\ command[w] = "stop" => pc[w] = "reply" /\ rslt[w] = 0,
         moving' \in {moving, FALSE}, UNCHANGED <<command, rslt>>
  PROVE  RemoteInv'
<1> USE DEF RemoteInv, RemoteTypeOK, Remote!Answer
<1>1. RemoteTypeOK'
  OBVIOUS
<1>2. NoMotionRuns => NoMotionRuns'
  BY DEF NoMotionRuns
<1>3. quiet' => quiet \/ (w \in undisturbed /\ pc[w] = "reply" /\ rslt[w] = 0)
  BY DEF UndisturbedStops
<1>4. QuietIsStill'
  BY <1>2, <1>3 DEF QuietIsStill, UndisturbedStops
<1>5. UndisturbedStops'
  BY <1>2 DEF UndisturbedStops
<1> QED
  BY <1>1, <1>4, <1>5

\* Every step of a worker preserves the invariant.
LEMMA RemoteStepInv ==
  ASSUME RemoteInv, Remote!Next
  PROVE  RemoteInv'
<1> PICK w \in Workers :
      \/ \E status \in {"400", "500"} : Remote!Refuse(w, status)
      \/ \E c \in Remote!Commands : Remote!Accept(w, c)
      \/ Remote!LoopHead(w)
      \/ Remote!LoopDone(w)
      \/ Remote!TimeUp(w)
      \/ Remote!Call(w)
      \/ Remote!Returned(w)
  BY DEF Remote!Next
<1> USE DEF Remote!history
<1>1. ASSUME NEW status \in {"400", "500"}, Remote!Refuse(w, status) PROVE RemoteInv'
  BY <1>1 DEF Remote!Refuse, RemoteInv, RemoteTypeOK, QuietIsStill, UndisturbedStops, NoMotionRuns
<1>2. ASSUME NEW c \in Remote!Commands, Remote!Accept(w, c) PROVE RemoteInv'
  <2>1. RemoteTypeOK'
    BY <1>2 DEF Remote!Accept, RemoteInv, RemoteTypeOK
  <2>2. CASE c \in Remote!Motions
    BY <1>2, <2>1, <2>2 DEF Remote!Accept, RemoteInv, QuietIsStill, UndisturbedStops
  <2>3. CASE c \notin Remote!Motions
    <3>1. /\ pc' = [pc EXCEPT ![w] = "call"] /\ command' = [command EXCEPT ![w] = c]
          /\ UNCHANGED <<rslt, moving, quiet>>
          /\ pc[w] = "idle"
      BY <1>2, <2>3 DEF Remote!Accept, Remote!Motions
    <3>2. NoMotionRuns => NoMotionRuns'
      BY <3>1, <2>3 DEF RemoteInv, RemoteTypeOK, NoMotionRuns
    <3>3. Remote!NoMotion(w) => NoMotionRuns'
      BY <3>1, <2>3 DEF RemoteInv, RemoteTypeOK, NoMotionRuns, Remote!NoMotion
    <3>4. \/ undisturbed' = undisturbed
          \/ undisturbed' = undisturbed \cup {w} /\ c = "stop" /\ Remote!NoMotion(w)
      BY <1>2, <2>3 DEF Remote!Accept
    <3>5. QuietIsStill'
      BY <3>1, <3>2 DEF RemoteInv, QuietIsStill
    <3>6. UndisturbedStops'
      BY <3>1, <3>2, <3>3, <3>4 DEF RemoteInv, RemoteTypeOK, UndisturbedStops
    <3> QED
      BY <2>1, <3>5, <3>6 DEF RemoteInv
  <2> QED
    BY <2>2, <2>3
<1>3. CASE Remote!LoopHead(w)
  <2>1. ASSUME NEW status \in {"TIMEOUT", "ERROR"}, Remote!Answer(w, status),
               moving' \in {moving, FALSE}
        PROVE  RemoteInv'
    BY <1>3, <2>1, RemoteAnswer DEF Remote!LoopHead
  <2>2. CASE /\ pc' = [pc EXCEPT ![w] = "call"]
             /\ UNCHANGED <<answer, moving, undisturbed, quiet, overtaken>>
    BY <1>3, <2>2
       DEF Remote!LoopHead, RemoteInv, RemoteTypeOK, QuietIsStill, UndisturbedStops, NoMotionRuns
  <2> QED
    BY <1>3, <2>1, <2>2 DEF Remote!LoopHead
<1>4. CASE Remote!LoopDone(w)
  BY <1>4, RemoteAnswer DEF Remote!LoopDone, Remote!Loops
<1>5. CASE Remote!TimeUp(w)
  BY <1>5 DEF Remote!TimeUp, RemoteInv, RemoteTypeOK, QuietIsStill, UndisturbedStops, NoMotionRuns
<1>6. CASE Remote!Call(w)
  <2>1. RemoteTypeOK' /\ (NoMotionRuns => NoMotionRuns')
    BY <1>6 DEF Remote!Call, Remote!Serve, Remote!Fail, RemoteInv, RemoteTypeOK, NoMotionRuns
  <2>2. /\ pc[w] = "call" /\ pc' = [pc EXCEPT ![w] = "reply"]
        /\ rslt' = [rslt EXCEPT ![w] = 0] \/ rslt' = [rslt EXCEPT ![w] = 1]
        /\ rslt' = [rslt EXCEPT ![w] = 0] => moving' = Remote!MovingAfter(w)
        /\ moving' = Remote!MovingAfter(w) \/ moving' = moving
        /\ UNCHANGED <<command, quiet, undisturbed>>
    <3>1. [rslt EXCEPT ![w] = 0] # [rslt EXCEPT ![w] = 1]
      BY DEF RemoteInv, RemoteTypeOK
    <3> QED
      BY <1>6, <3>1 DEF Remote!Call, Remote!Serve, Remote!Fail
  <2>3. NoMotionRuns => /\ Remote!MovingAfter(w) => moving
                        /\ command[w] = "stop" => ~Remote!MovingAfter(w)
    BY <2>2 DEF Remote!MovingAfter, NoMotionRuns, Remote!Motions, Remote!Loops
  <2>4. QuietIsStill'
    BY <2>1, <2>2, <2>3 DEF RemoteInv, QuietIsStill
  <2>5. UndisturbedStops'
    <3> SUFFICES ASSUME NEW v \in undisturbed
                 PROVE  /\ pc'[v] # "idle" /\ command'[v] = "stop" /\ NoMotionRuns'
                        /\ (pc'[v] = "reply" /\ rslt'[v] = 0) => ~moving'
      BY <2>2 DEF UndisturbedStops
    <3>1. v \in Workers /\ NoMotionRuns /\ command[v] = "stop" /\ pc[v] # "idle"
      BY DEF RemoteInv, RemoteTypeOK, UndisturbedStops
    <3>2. CASE v = w
      <4>1. rslt'[v] = 0 => rslt' = [rslt EXCEPT ![w] = 0]
        BY <2>2, <3>1, <3>2 DEF RemoteInv, RemoteTypeOK
      <4> QED
        BY <2>1, <2>2, <2>3, <3>1, <3>2, <4>1 DEF RemoteInv, RemoteTypeOK
    <3>3. CASE v # w
      <4>1. pc'[v] = pc[v] /\ rslt'[v] = rslt[v]
        BY <2>2, <3>1, <3>3 DEF RemoteInv, RemoteTypeOK
      <4> QED
        BY <2>1, <2>2, <2>3, <3>1, <4>1 DEF RemoteInv, UndisturbedStops
    <3> QED
      BY <3>2, <3>3
  <2> QED
    BY <2>1, <2>4, <2>5 DEF RemoteInv
<1>7. CASE Remote!Returned(w)
  <2>1. CASE command[w] \in Remote!Loops
    BY <1>7, <2>1
       DEF Remote!Returned, RemoteInv, RemoteTypeOK, QuietIsStill, UndisturbedStops, NoMotionRuns
  <2>2. CASE command[w] \notin Remote!Loops
    BY <1>7, <2>2, RemoteAnswer DEF Remote!Returned, Remote!Status
  <2> QED
    BY <2>1, <2>2
<1> QED
  BY <1>1, <1>2, <1>3, <1>4, <1>5, <1>6, <1>7

\* The control interface keeps its invariant, whichever program runs.
LEMMA RemoteInvariance == ProgramSpec => []RemoteInv
<1>1. ProgramInit => RemoteInv
  BY RemoteInitInv DEF ProgramInit
<1>2. RemoteInv /\ UNCHANGED remoteVars => RemoteInv'
  BY DEF remoteVars, RemoteInv, RemoteTypeOK, QuietIsStill, UndisturbedStops, NoMotionRuns
<1>3. RemoteInv /\ [ProgramNext]_allVars => RemoteInv'
  BY <1>2, RemoteStepInv DEF ProgramNext, allVars
<1> QED
  BY <1>1, <1>3, PTL DEF ProgramSpec

\* A stop that met no motion request holds, for every number of workers.
THEOREM UndisturbedStopHolds == ProgramSpec => []StopHolds
<1>1. RemoteInv => StopHolds
  BY DEF RemoteInv, QuietIsStill, StopHolds, Remote!StopHolds
<1> QED
  BY RemoteInvariance, <1>1, PTL

-----------------------------------------------------------------------------
(* AudioUpload: the file of an undisturbed upload.                         *)

Data == Seq(Workers \X Nat)

AudioTypeOK ==
  /\ audio_pc \in [Workers -> {"idle", "save", "open", "play", "finish"}]
  /\ name \in [Workers -> Names] /\ upload \in [Workers -> Uploads]
  /\ file \in [Names -> [frame : Nat, data : Data]]
  /\ frame \in [Workers -> Nat] /\ pos \in [Workers -> Nat]
  /\ DOMAIN played = Workers /\ DOMAIN audio_answer = Workers
  /\ lossy \in [Workers -> BOOLEAN] /\ disturbed \in [Workers -> BOOLEAN]

\* Two requests that use one name know of each other.
SharersDisturbed ==
  \A v, w \in Workers :
    (v # w /\ audio_pc[v] # "idle" /\ audio_pc[w] # "idle" /\ name[v] = name[w]) => disturbed[w]

\* The file of a request that has saved all of its upload.
Saved(w) == [frame |-> upload[w].frame, data |-> Audio!Bytes(w, upload[w].size)]

\* A file that nobody else saves is empty until Save, and the upload from then on.
FileKept ==
  \A w \in Workers : ~disturbed[w] =>
    /\ audio_pc[w] = "save" => file[name[w]] = Audio!Empty
    /\ (audio_pc[w] \in {"open", "play", "finish"} /\ ~lossy[w]) => file[name[w]] = Saved(w)

\* The loop is between two frames, and all of those before it were played.
Between(w) ==
  /\ frame[w] = upload[w].frame
  /\ pos[w] % upload[w].frame = 0 /\ pos[w] <= upload[w].size
  /\ played[w] = Audio!Bytes(w, pos[w])

\* After the loop all whole frames were.
AllPlayed(w) ==
  played[w] = Audio!Bytes(w, upload[w].size - (upload[w].size % upload[w].frame))

PlayedSoFar ==
  \A w \in Workers :
    (~disturbed[w] /\ ~lossy[w] /\ BUFFER_SIZE % upload[w].frame = 0) =>
      /\ audio_pc[w] \in {"save", "open"} => played[w] = <<>>
      /\ audio_pc[w] = "play" => Between(w)
      /\ audio_pc[w] = "finish" => AllPlayed(w)

\* A request that is being handled has no answer, and before it plays anything
\* nothing has been read or lost.
Fresh ==
  \A w \in Workers :
    /\ audio_pc[w] # "idle" => audio_answer[w] # "SUCCESS"
    /\ audio_pc[w] \in {"idle", "save", "open"} => pos[w] = 0
    /\ audio_pc[w] = "save" => ~lossy[w] /\ played[w] = <<>>

AudioInv ==
  AudioTypeOK /\ SharersDisturbed /\ FileKept /\ PlayedSoFar /\ Fresh /\ Audio!PlayedWhole

\* The bytes of an upload, as a sequence.
LEMMA BytesSeq ==
  ASSUME NEW w \in Workers, NEW n \in Nat
  PROVE  /\ Audio!Bytes(w, n) \in Data /\ Len(Audio!Bytes(w, n)) = n
         /\ \A j \in 1..n : Audio!Bytes(w, n)[j] = <<w, j>>
         /\ Audio!Bytes(w, 0) = <<>>
BY DEF Audio!Bytes, Data

\* What a worker writes over a file.
LEMMA OverSeq ==
  ASSUME NEW w \in Workers, NEW n \in Nat, NEW data \in Data
  PROVE  /\ Audio!Over(w, n, data) \in Data
         /\ data = <<>> => Audio!Over(w, n, data) = Audio!Bytes(w, n)
<1> DEFINE rest == SubSeq(data, n + 1, Len(data))
<1>1. rest \in Data /\ (data = <<>> => rest = <<>>)
  BY DEF Data
<1> HIDE DEF rest
<1>2. Audio!Bytes(w, n) \o rest \in Data
  BY <1>1, BytesSeq DEF Data
<1>3. rest = <<>> => Audio!Bytes(w, n) \o rest = Audio!Bytes(w, n)
  BY BytesSeq DEF Data
<1> QED
  BY <1>1, <1>2, <1>3 DEF Audio!Over, rest

\* The bytes behind the first p.
LEMMA MoreBytes ==
  ASSUME NEW w \in Workers, NEW p \in Nat, NEW k \in Nat, NEW s \in Nat, p + k <= s
  PROVE  Audio!Bytes(w, p) \o SubSeq(Audio!Bytes(w, s), p + 1, p + k) = Audio!Bytes(w, p + k)
<1> DEFINE first == Audio!Bytes(w, p)
           all == Audio!Bytes(w, s)
           more == SubSeq(all, p + 1, p + k)
           whole == Audio!Bytes(w, p + k)
<1>1. /\ first \in Data /\ Len(first) = p /\ \A j \in 1..p : first[j] = <<w, j>>
      /\ all \in Data /\ Len(all) = s /\ \A j \in 1..s : all[j] = <<w, j>>
      /\ whole \in Data /\ Len(whole) = p + k /\ \A j \in 1..(p + k) : whole[j] = <<w, j>>
  BY BytesSeq
<1> HIDE DEF first, all, whole
<1>2. more \in Data /\ Len(more) = k /\ \A j \in 1..k : more[j] = all[p + j]
  BY <1>1 DEF Data
<1> HIDE DEF more
<1>3. first \o more \in Data /\ Len(first \o more) = p + k
  BY <1>1, <1>2 DEF Data
<1>4. ASSUME NEW j \in 1..(p + k) PROVE (first \o more)[j] = <<w, j>>
  <2>1. CASE j <= p
    BY <1>1, <1>2, <2>1 DEF Data
  <2>2. CASE j > p
    <3>1. (first \o more)[j] = more[j - p]
      BY <1>1, <1>2, <2>2 DEF Data
    <3>2. j - p \in 1..k /\ p + (j - p) = j /\ j \in 1..s
      BY <2>2
    <3> QED
      BY <1>1, <1>2, <3>1, <3>2
  <2>3. j <= p \/ j > p
    OBVIOUS
  <2> QED
    BY <2>1, <2>2, <2>3, Zenon
<1>5. first \o more = whole
  <2>1. \A j \in 1..Len(first \o more) : (first \o more)[j] = whole[j]
    BY <1>1, <1>3, <1>4
  <2> QED
    BY <1>1, <1>3, <2>1, SeqEqual, Zenon DEF Data
<1> QED
  BY <1>5 DEF first, more, all, whole

\* The bytes of the whole frames in a buffer.
LEMMA WholeFrames ==
  ASSUME NEW n \in Nat, NEW F \in Nat, F > 0
  PROVE  (n \div F) * F \in Nat /\ n % F \in Nat /\ (n \div F) * F = n - (n % F)
<1> DEFINE q == n \div F
           r == n % F
<1>1. q \in Int /\ r \in 0..(F - 1) /\ n = q * F + r
  BY DivMod
<1>2. r <= n
  BY ModLess
<1> HIDE DEF q, r
<1>3. q * F = n - r /\ n - r \in Nat /\ r \in Nat
  BY <1>1, <1>2
<1> QED
  BY <1>3 DEF q, r

\* Whole frames before it do not change what is left over.
LEMMA FramesBefore ==
  ASSUME NEW p \in Nat, NEW n \in Nat, NEW F \in Nat, F > 0, p % F = 0
  PROVE  (p + n) % F = n % F
<1> DEFINE k == p \div F
<1>1. k \in Int /\ p = k * F
  BY DivMod
<1> HIDE DEF k
<1>2. (n + k * F) % F = n % F
  <2>1. n \in Int
    OBVIOUS
  <2> QED
    BY <1>1, <2>1, ModShift, Zenon
<1>3. n + k * F = p + n
  BY <1>1
<1> QED
  BY <1>2, <1>3

\* No upload has come.
LEMMA AudioInitInv == Audio!Init => AudioInv
<1> SUFFICES ASSUME Audio!Init PROVE AudioInv
  OBVIOUS
<1>1. lossy \in [Workers -> BOOLEAN] /\ disturbed \in [Workers -> BOOLEAN]
  BY DEF Audio!Init
<1>2. (CHOOSE n \in Names : TRUE) \in Names /\ (CHOOSE u \in Uploads : TRUE) \in Uploads
  BY ProgramAssumption
<1>3. AudioTypeOK
  BY <1>1, <1>2 DEF Audio!Init, AudioTypeOK, Audio!Empty, Data
<1>4. SharersDisturbed /\ FileKept /\ PlayedSoFar /\ Fresh /\ Audio!PlayedWhole
  BY DEF Audio!Init, SharersDisturbed, FileKept, PlayedSoFar, Fresh, Audio!PlayedWhole
<1> QED
  BY <1>3, <1>4 DEF AudioInv

\* Truncating a file disturbs those who use it, and nobody else.
LEMMA AudioOpenOut ==
  ASSUME AudioInv, NEW w \in Workers, NEW n \in Names, NEW u \in Uploads, Audio!OpenOut(w, n, u)
  PROVE  AudioInv'
<1> USE DEF AudioInv, AudioTypeOK, Audio!OpenOut, Audio!Goes
<1>1. AudioTypeOK'
  <2>1. disturbed' \in [Workers -> BOOLEAN] /\ lossy' \in [Workers -> BOOLEAN]
    OBVIOUS
  <2>2. Audio!Empty \in [frame : Nat, data : Data]
    BY DEF Audio!Empty, Data
  <2> QED
    BY <2>1, <2>2
<1>2. /\ \A v \in Workers \ {w} : /\ audio_pc'[v] = audio_pc[v] /\ name'[v] = name[v]
                                  /\ upload'[v] = upload[v] /\ played'[v] = played[v]
                                  /\ audio_answer'[v] = audio_answer[v] /\ lossy'[v] = lossy[v]
      /\ pos' = pos /\ frame' = frame
      /\ audio_pc'[w] = "save" /\ name'[w] = n /\ played'[w] = <<>>
      /\ audio_answer'[w] = "none"
      /\ audio_pc[w] = "idle"
      /\ file'[n] = Audio!Empty
      /\ \A m \in Names \ {n} : file'[m] = file[m]
  OBVIOUS
<1>8. ASSUME NEW v \in Workers, v # w
      PROVE  disturbed'[v] <=> (disturbed[v] \/ (audio_pc[v] # "idle" /\ name[v] = n))
  BY <1>8
<1>9. disturbed'[w] <=> (\E x \in Workers \ {w} : audio_pc[x] # "idle" /\ name[x] = n)
  OBVIOUS
<1>3. SharersDisturbed'
  <2> SUFFICES ASSUME NEW v \in Workers, NEW x \in Workers, v # x,
                      audio_pc'[v] # "idle", audio_pc'[x] # "idle", name'[v] = name'[x]
               PROVE  disturbed'[x]
    BY DEF SharersDisturbed
  <2> QED
    BY <1>2, <1>8, <1>9 DEF SharersDisturbed
<1>4. FileKept'
  <2> SUFFICES ASSUME NEW v \in Workers, ~disturbed'[v]
               PROVE  /\ audio_pc'[v] = "save" => file'[name'[v]] = Audio!Empty
                      /\ (audio_pc'[v] \in {"open", "play", "finish"} /\ ~lossy'[v])
                           => file'[name'[v]] = Saved(v)'
    BY DEF FileKept, Audio!Empty
  <2>1. CASE v = w
    BY <1>2, <2>1
  <2>2. CASE v # w
    <3>1. ~disturbed[v] /\ (audio_pc[v] # "idle" => name[v] # n) /\ name[v] \in Names
      BY <1>8, <2>2
    <3>2. Saved(v)' = Saved(v)
      BY <1>2, <2>2 DEF Saved, Audio!Bytes
    <3> QED
      BY <1>2, <2>2, <3>1, <3>2 DEF FileKept
  <2> QED
    BY <2>1, <2>2
<1>5. PlayedSoFar'
  <2> SUFFICES ASSUME NEW v \in Workers, ~disturbed'[v], ~lossy'[v],
                      BUFFER_SIZE % upload'[v].frame = 0
               PROVE  /\ audio_pc'[v] \in {"save", "open"} => played'[v] = <<>>
                      /\ audio_pc'[v] = "play" => Between(v)'
                      /\ audio_pc'[v] = "finish" => AllPlayed(v)'
    BY DEF PlayedSoFar
  <2>1. CASE v = w
    BY <1>2, <2>1
  <2>2. CASE v # w
    BY <1>2, <1>8, <2>2 DEF PlayedSoFar, Between, AllPlayed, Audio!Bytes
  <2> QED
    BY <2>1, <2>2
<1>6. Fresh'
  BY <1>2 DEF Fresh
<1>7. Audio!PlayedWhole'
  <2> SUFFICES ASSUME NEW v \in Workers, audio_answer'[v] = "SUCCESS", ~lossy'[v],
                      ~disturbed'[v], BUFFER_SIZE % upload'[v].frame = 0
               PROVE  AllPlayed(v)'
    BY DEF Audio!PlayedWhole, AllPlayed, Audio!Bytes
  <2>1. v # w
    BY <1>2
  <2> QED
    BY <1>2, <1>8, <2>1 DEF Audio!PlayedWhole, AllPlayed, Audio!Bytes
<1> QED
  BY <1>1, <1>3, <1>4, <1>5, <1>6, <1>7

\* Saving a file replaces what those who share it read.
LEMMA AudioSave ==
  ASSUME AudioInv, NEW w \in Workers, NEW lack \in Lacks, Audio!Save(w, lack)
  PROVE  AudioInv'
<1> USE DEF AudioInv, AudioTypeOK
<1> DEFINE n == upload[w].size - lack
           old == file[name[w]].data
           new == [frame |-> upload[w].frame, data |-> Audio!Over(w, n, old)]
<1>1. /\ n \in Nat /\ upload[w].frame \in Nat /\ (~(lack > 0) => n = upload[w].size)
      /\ name[w] \in Names /\ old \in Data
  BY ProgramAssumption DEF Audio!Save
<1>2. /\ Audio!Over(w, n, old) \in Data
      /\ old = <<>> => Audio!Over(w, n, old) = Audio!Bytes(w, n)
  <2> HIDE DEF n, old
  <2> QED
    BY <1>1, OverSeq
<1>3. new \in [frame : Nat, data : Data]
  BY <1>1, <1>2
<1>4. /\ audio_pc[w] = "save" /\ audio_pc' = [audio_pc EXCEPT ![w] = "open"]
      /\ file' = [file EXCEPT ![name[w]] = new]
      /\ lossy' = [lossy EXCEPT ![w] = lack > 0]
      /\ UNCHANGED <<name, upload, frame, pos, played, audio_answer, disturbed>>
  BY DEF Audio!Save, Audio!Goes
<1>5. lossy' \in [Workers -> BOOLEAN]
  <2> DEFINE some == lack > 0
  <2>1. some \in BOOLEAN
    OBVIOUS
  <2> HIDE DEF some
  <2>2. lossy' = [lossy EXCEPT ![w] = some]
    BY <1>4 DEF some
  <2> QED
    BY <2>1, <2>2
<1>6. lossy'[w] <=> lack > 0
  BY <1>4
<1>7. \A v \in Workers \ {w} : lossy'[v] = lossy[v] /\ audio_pc'[v] = audio_pc[v]
  BY <1>4
<1>8. audio_pc'[w] = "open"
  BY <1>4
<1>11. (~disturbed[w] /\ ~lossy'[w]) => new = Saved(w)
  <2> SUFFICES ASSUME ~disturbed[w], ~lossy'[w] PROVE new = Saved(w)
    OBVIOUS
  <2>1. old = <<>>
    BY <1>4 DEF FileKept, Audio!Empty
  <2>2. n = upload[w].size
    BY <1>1, <1>6
  <2> QED
    BY <1>2, <2>1, <2>2 DEF Saved
<1> HIDE DEF n, old, new
<1>9. AudioTypeOK'
  BY <1>1, <1>3, <1>4, <1>5
<1>10. SharersDisturbed'
  BY <1>4 DEF SharersDisturbed
<1>12. FileKept'
  <2> SUFFICES ASSUME NEW v \in Workers, ~disturbed'[v]
               PROVE  /\ audio_pc'[v] = "save" => file'[name'[v]] = Audio!Empty
                      /\ (audio_pc'[v] \in {"open", "play", "finish"} /\ ~lossy'[v])
                           => file'[name'[v]] = Saved(v)'
    BY DEF FileKept, Audio!Empty
  <2>0. Saved(v)' = Saved(v)
    BY <1>4 DEF Saved, Audio!Bytes
  <2>1. CASE v = w
    <3>1. file'[name'[w]] = new
      BY <1>1, <1>4
    <3> QED
      BY <1>4, <1>8, <1>11, <2>0, <2>1, <3>1
  <2>2. CASE v # w
    <3>1. audio_pc[v] # "idle" => name[v] # name[w]
      BY <1>4, <2>2 DEF SharersDisturbed
    <3>2. audio_pc[v] # "idle" => file'[name'[v]] = file[name[v]]
      BY <1>1, <1>4, <3>1
    <3> QED
      BY <1>4, <1>7, <2>0, <2>2, <3>2 DEF FileKept
  <2> QED
    BY <2>1, <2>2
<1>13. PlayedSoFar'
  <2> SUFFICES ASSUME NEW v \in Workers, ~disturbed'[v], ~lossy'[v],
                      BUFFER_SIZE % upload'[v].frame = 0
               PROVE  /\ audio_pc'[v] \in {"save", "open"} => played'[v] = <<>>
                      /\ audio_pc'[v] = "play" => Between(v)'
                      /\ audio_pc'[v] = "finish" => AllPlayed(v)'
    BY DEF PlayedSoFar
  <2>1. CASE v = w /\ ~lossy[w]
    BY <1>4, <1>8, <2>1 DEF PlayedSoFar
  <2>2. CASE v # w
    BY <1>4, <1>7, <2>2 DEF PlayedSoFar, Between, AllPlayed, Audio!Bytes
  <2>3. ~lossy[w]
    BY <1>4 DEF Fresh
  <2> QED
    BY <2>1, <2>2, <2>3
<1>14. Fresh'
  BY <1>4, <1>7, <1>8 DEF Fresh
<1>15. Audio!PlayedWhole'
  <2>1. audio_answer[w] # "SUCCESS"
    BY <1>4 DEF Fresh
  <2> SUFFICES ASSUME NEW v \in Workers, audio_answer'[v] = "SUCCESS", ~lossy'[v],
                      ~disturbed'[v], BUFFER_SIZE % upload'[v].frame = 0
               PROVE  AllPlayed(v)'
    BY DEF Audio!PlayedWhole, AllPlayed, Audio!Bytes
  <2> QED
    BY <1>4, <1>7, <2>1 DEF Audio!PlayedWhole, AllPlayed, Audio!Bytes
<1> QED
  BY <1>9, <1>10, <1>12, <1>13, <1>14, <1>15

\* A pass of the loop of playWav.
LEMMA AudioPlayBuffer ==
  ASSUME AudioInv, NEW w \in Workers, NEW result \in Audio!Results, NEW lack \in Lacks,
         Audio!PlayBuffer(w, result, lack)
  PROVE  AudioInv'
<1> USE DEF AudioInv, AudioTypeOK
<1> DEFINE data == file[name[w]].data
           n == Audio!BytesRead(w)
           lost == result # "frames" \/ lack > 0
           to == IF result = "error" \/ n < BUFFER_SIZE THEN "finish" ELSE "play"
<1>1. /\ data \in Data /\ Len(data) \in Nat /\ pos[w] \in Nat /\ pos[w] < Len(data)
      /\ BUFFER_SIZE \in Nat /\ BUFFER_SIZE > 0
  BY ProgramAssumption DEF Audio!PlayBuffer, Audio!Left, Data
<1>2. /\ n \in Nat /\ n <= BUFFER_SIZE /\ pos[w] + n <= Len(data)
      /\ n = BUFFER_SIZE \/ pos[w] + n = Len(data)
  BY <1>1 DEF Audio!BytesRead
<1>3. lost \in BOOLEAN
  OBVIOUS
<1>4. /\ audio_pc[w] = "play" /\ audio_pc' = [audio_pc EXCEPT ![w] = to]
      /\ pos' = [pos EXCEPT ![w] = pos[w] + n]
      /\ lossy' = [lossy EXCEPT ![w] = lossy[w] \/ lost]
      /\ UNCHANGED <<name, upload, file, frame, audio_answer, disturbed>>
  BY DEF Audio!PlayBuffer, Audio!Goes
<1>5. ~lost => played' = [played EXCEPT ![w] =
                 played[w] \o SubSeq(data, pos[w] + 1, pos[w] + (Audio!Frames(w) - 0) * frame[w])]
  <2>1. ~lost => result = "frames" /\ lack = 0
    BY ProgramAssumption
  <2> QED
    BY <2>1 DEF Audio!PlayBuffer
<1>6. \A v \in Workers \ {w} : /\ played'[v] = played[v] /\ lossy'[v] = lossy[v]
                               /\ pos'[v] = pos[v] /\ audio_pc'[v] = audio_pc[v]
  BY DEF Audio!PlayBuffer, Audio!Goes
<1>7. DOMAIN played' = Workers
  BY DEF Audio!PlayBuffer
<1>8. ASSUME ~disturbed[w], ~lossy'[w], BUFFER_SIZE % upload[w].frame = 0
      PROVE  IF to = "play" THEN Between(w)' ELSE AllPlayed(w)'
  <2> DEFINE F == upload[w].frame
             s == upload[w].size
             p == pos[w]
             k == (n \div F) * F
  <2>1. ~lossy[w] /\ ~lost
    BY <1>3, <1>4, <1>8
  <2>2. F \in Nat /\ F > 0 /\ s \in Nat
    BY ProgramAssumption
  <2>3. frame[w] = F /\ p % F = 0 /\ p <= s /\ played[w] = Audio!Bytes(w, p)
    BY <1>4, <1>8, <2>1 DEF PlayedSoFar, Between
  <2>4. data = Audio!Bytes(w, s) /\ Len(data) = s
    <3>1. file[name[w]] = Saved(w)
      BY <1>4, <1>8, <2>1 DEF FileKept
    <3> QED
      BY <2>2, <3>1, BytesSeq DEF Saved
  <2>5. to = IF n < BUFFER_SIZE THEN "finish" ELSE "play"
    BY <2>1
  <2>6. /\ Audio!Frames(w) = n \div F /\ n \div F \in Int
        /\ (n \div F) - 0 = n \div F
    BY <1>2, <2>2, <2>3, DivMod DEF Audio!Frames
  <2>7. played'[w] = played[w] \o SubSeq(data, p + 1, p + k)
    BY <1>5, <2>1, <2>3, <2>6
  <2>8. /\ p \in Nat /\ p' = p + n /\ frame'[w] = frame[w] /\ upload'[w] = upload[w]
        /\ BUFFER_SIZE % F = 0
    BY <1>1, <1>4, <1>8
  <2>14. /\ to = "play" => n = BUFFER_SIZE
         /\ to # "play" => n # BUFFER_SIZE
    BY <1>1, <1>2, <2>5
  <2>15. n \in Nat /\ p + n <= s /\ (n = BUFFER_SIZE \/ p + n = s)
    BY <1>2, <2>4
  <2> HIDE DEF n, data, F, s, p, to
  <2>9. /\ k \in Nat /\ k <= n
        /\ n = BUFFER_SIZE => k = n /\ (p + n) % F = 0
        /\ p + n = s => p + k = s - (s % F)
    <3>1. k \in Nat /\ n % F \in Nat /\ k = n - (n % F)
      BY <2>2, <2>15, WholeFrames
    <3>2. (p + n) % F = n % F
      BY <2>2, <2>3, <2>8, <2>15, FramesBefore
    <3> HIDE DEF k
    <3>3. n = BUFFER_SIZE => n % F = 0
      BY <2>8
    <3>4. p + n = s => n % F = s % F
      BY <3>2
    <3> QED
      BY <2>8, <2>15, <3>1, <3>2, <3>3, <3>4
  <2> HIDE DEF k
  <2>10. p + k <= s
    BY <2>2, <2>8, <2>9, <2>15
  <2>11. played'[w] = Audio!Bytes(w, p + k)
    <3>1. played'[w] = Audio!Bytes(w, p) \o SubSeq(Audio!Bytes(w, s), p + 1, p + k)
      BY <2>3, <2>4, <2>7
    <3> QED
      BY <2>2, <2>8, <2>9, <2>10, <3>1, MoreBytes, Zenon
  <2>12. CASE to = "play"
    <3>1. p + k = p + n /\ (p + n) % F = 0 /\ p + n <= s
      BY <2>9, <2>12, <2>14, <2>15
    <3>2. pos'[w] = p + n /\ upload'[w].frame = F /\ upload'[w].size = s
      BY <1>4, <1>1 DEF p, F, s
    <3> QED
      BY <2>3, <2>8, <2>11, <2>12, <3>1, <3>2 DEF Between, Audio!Bytes
  <2>13. CASE to # "play"
    <3>1. p + k = s - (s % F)
      BY <2>9, <2>13, <2>14, <2>15
    <3>2. upload'[w].frame = F /\ upload'[w].size = s
      BY <1>4 DEF F, s
    <3> QED
      BY <2>11, <2>13, <3>1, <3>2 DEF AllPlayed, Audio!Bytes
  <2> QED
    BY <2>12, <2>13
<1>9. to \in {"play", "finish"} /\ audio_pc'[w] = to
  BY <1>4
<1>10. pos[w] + n \in Nat
  BY <1>1, <1>2
<1> HIDE DEF n, data, lost, to
<1>11. AudioTypeOK'
  BY <1>3, <1>4, <1>7, <1>9, <1>10
<1>12. SharersDisturbed'
  BY <1>4, <1>9 DEF SharersDisturbed
<1>13. FileKept'
  <2> SUFFICES ASSUME NEW v \in Workers, ~disturbed'[v]
               PROVE  /\ audio_pc'[v] = "save" => file'[name'[v]] = Audio!Empty
                      /\ (audio_pc'[v] \in {"open", "play", "finish"} /\ ~lossy'[v])
                           => file'[name'[v]] = Saved(v)'
    BY DEF FileKept, Audio!Empty
  <2>0. Saved(v)' = Saved(v)
    BY <1>4 DEF Saved, Audio!Bytes
  <2>1. ~lossy'[v] => ~lossy[v]
    BY <1>3, <1>4
  <2> QED
    BY <1>4, <1>6, <1>9, <2>0, <2>1 DEF FileKept
<1>14. PlayedSoFar'
  <2> SUFFICES ASSUME NEW v \in Workers, ~disturbed'[v], ~lossy'[v],
                      BUFFER_SIZE % upload'[v].frame = 0
               PROVE  /\ audio_pc'[v] \in {"save", "open"} => played'[v] = <<>>
                      /\ audio_pc'[v] = "play" => Between(v)'
                      /\ audio_pc'[v] = "finish" => AllPlayed(v)'
    BY DEF PlayedSoFar
  <2>1. CASE v = w
    BY <1>4, <1>8, <1>9, <2>1
  <2>2. CASE v # w
    BY <1>4, <1>6, <2>2 DEF PlayedSoFar, Between, AllPlayed, Audio!Bytes
  <2> QED
    BY <2>1, <2>2
<1>15. Fresh'
  BY <1>4, <1>6, <1>9 DEF Fresh
<1>16. Audio!PlayedWhole'
  <2>1. audio_answer[w] # "SUCCESS"
    BY <1>4 DEF Fresh
  <2> SUFFICES ASSUME NEW v \in Workers, audio_answer'[v] = "SUCCESS", ~lossy'[v],
                      ~disturbed'[v], BUFFER_SIZE % upload'[v].frame = 0
               PROVE  AllPlayed(v)'
    BY DEF Audio!PlayedWhole, AllPlayed, Audio!Bytes
  <2> QED
    BY <1>4, <1>6, <2>1 DEF Audio!PlayedWhole, AllPlayed, Audio!Bytes
<1> QED
  BY <1>11, <1>12, <1>13, <1>14, <1>15, <1>16

\* The end of the file of an undisturbed upload is the end of the upload.
LEMMA AudioEndOfFile ==
  ASSUME AudioInv, NEW w \in Workers, Audio!EndOfFile(w)
  PROVE  AudioInv'
<1> USE DEF AudioInv, AudioTypeOK
<1>1. /\ audio_pc[w] = "play" /\ audio_pc' = [audio_pc EXCEPT ![w] = "finish"]
      /\ UNCHANGED <<name, upload, file, frame, pos, played, audio_answer, lossy, disturbed>>
      /\ ~(pos[w] < Len(file[name[w]].data))
  BY DEF Audio!EndOfFile, Audio!Goes, Audio!Left
<1>2. AudioTypeOK' /\ SharersDisturbed' /\ Fresh'
  BY <1>1 DEF SharersDisturbed, Fresh
<1>3. FileKept' /\ Audio!PlayedWhole'
  BY <1>1 DEF FileKept, Saved, Audio!PlayedWhole, Audio!Bytes
<1>4. ASSUME ~disturbed[w], ~lossy[w], BUFFER_SIZE % upload[w].frame = 0 PROVE AllPlayed(w)
  <2>1. upload[w].size \in Nat
    BY ProgramAssumption
  <2>2. Len(file[name[w]].data) = upload[w].size
    <3>1. file[name[w]] = Saved(w)
      BY <1>1, <1>4 DEF FileKept
    <3>2. file[name[w]].data = Audio!Bytes(w, upload[w].size)
      BY <3>1 DEF Saved
    <3> QED
      BY <2>1, <3>2, BytesSeq
  <2>3. Between(w)
    BY <1>1, <1>4 DEF PlayedSoFar
  <2>4. pos[w] = upload[w].size
    BY <1>1, <2>1, <2>2, <2>3 DEF Between
  <2>5. upload[w].size - (upload[w].size % upload[w].frame) = upload[w].size
    BY <2>1, <2>3, <2>4 DEF Between
  <2> QED
    BY <2>3, <2>4, <2>5 DEF Between, AllPlayed
<1>5. PlayedSoFar'
  <2> SUFFICES ASSUME NEW v \in Workers, ~disturbed'[v], ~lossy'[v],
                      BUFFER_SIZE % upload'[v].frame = 0
               PROVE  /\ audio_pc'[v] \in {"save", "open"} => played'[v] = <<>>
                      /\ audio_pc'[v] = "play" => Between(v)'
                      /\ audio_pc'[v] = "finish" => AllPlayed(v)'
    BY DEF PlayedSoFar
  <2>1. AllPlayed(v)' <=> AllPlayed(v)
    BY <1>1 DEF AllPlayed, Audio!Bytes
  <2>2. Between(v)' <=> Between(v)
    BY <1>1 DEF Between, Audio!Bytes
  <2> QED
    BY <1>1, <1>4, <2>1, <2>2 DEF PlayedSoFar
<1> QED
  BY <1>2, <1>3, <1>5

\* A request that fails leaves nothing to be asked of it.
LEMMA AudioFails ==
  ASSUME AudioInv, NEW w \in Workers, Audio!Fails(w)
  PROVE  AudioInv'
<1> USE DEF AudioInv, AudioTypeOK
<1>1. /\ audio_pc' = [audio_pc EXCEPT ![w] = "idle"]
      /\ audio_answer' = [audio_answer EXCEPT ![w] = "ERROR"]
      /\ frame' = [frame EXCEPT ![w] = 1] /\ pos' = [pos EXCEPT ![w] = 0]
      /\ played' = [played EXCEPT ![w] = <<>>]
      /\ lossy' = [lossy EXCEPT ![w] = FALSE] /\ disturbed' = [disturbed EXCEPT ![w] = FALSE]
      /\ UNCHANGED <<name, upload, file>>
  BY DEF Audio!Fails, Audio!Returns, Audio!Goes
<1>2. /\ audio_pc'[w] = "idle" /\ audio_answer'[w] = "ERROR"
      /\ \A v \in Workers \ {w} :
           /\ audio_pc'[v] = audio_pc[v] /\ audio_answer'[v] = audio_answer[v]
           /\ frame'[v] = frame[v] /\ pos'[v] = pos[v] /\ played'[v] = played[v]
           /\ lossy'[v] = lossy[v] /\ disturbed'[v] = disturbed[v]
  BY <1>1
<1>3. AudioTypeOK'
  BY <1>1
<1>4. SharersDisturbed' /\ Fresh'
  BY <1>1, <1>2 DEF SharersDisturbed, Fresh
<1>5. FileKept'
  BY <1>1, <1>2 DEF FileKept, Saved, Audio!Bytes, Audio!Empty
<1>6. PlayedSoFar'
  <2> SUFFICES ASSUME NEW v \in Workers, ~disturbed'[v], ~lossy'[v],
                      BUFFER_SIZE % upload'[v].frame = 0, v # w
               PROVE  /\ audio_pc'[v] \in {"save", "open"} => played'[v] = <<>>
                      /\ audio_pc'[v] = "play" => Between(v)'
                      /\ audio_pc'[v] = "finish" => AllPlayed(v)'
    BY <1>2 DEF PlayedSoFar
  <2> QED
    BY <1>1, <1>2 DEF PlayedSoFar, Between, AllPlayed, Audio!Bytes
<1>7. Audio!PlayedWhole'
  <2> SUFFICES ASSUME NEW v \in Workers, audio_answer'[v] = "SUCCESS", ~lossy'[v],
                      ~disturbed'[v], BUFFER_SIZE % upload'[v].frame = 0
               PROVE  AllPlayed(v)'
    BY DEF Audio!PlayedWhole, AllPlayed, Audio!Bytes
  <2> QED
    BY <1>1, <1>2 DEF Audio!PlayedWhole, AllPlayed, Audio!Bytes
<1> QED
  BY <1>3, <1>4, <1>5, <1>6, <1>7

\* Success is answered after the loop.
LEMMA AudioFinish ==
  ASSUME AudioInv, NEW w \in Workers, Audio!Finish(w)
  PROVE  AudioInv'
<1> USE DEF AudioInv, AudioTypeOK
<1>1. /\ audio_pc[w] = "finish" /\ audio_pc' = [audio_pc EXCEPT ![w] = "idle"]
      /\ audio_answer' = [audio_answer EXCEPT ![w] = "SUCCESS"]
      /\ frame' = [frame EXCEPT ![w] = 1] /\ pos' = [pos EXCEPT ![w] = 0]
      /\ UNCHANGED <<name, upload, file, played, lossy, disturbed>>
  BY DEF Audio!Finish, Audio!Returns, Audio!Goes
<1>2. /\ audio_pc'[w] = "idle"
      /\ \A v \in Workers \ {w} :
           /\ audio_pc'[v] = audio_pc[v] /\ audio_answer'[v] = audio_answer[v]
           /\ frame'[v] = frame[v] /\ pos'[v] = pos[v]
  BY <1>1
<1>3. AudioTypeOK'
  BY <1>1
<1>4. SharersDisturbed' /\ Fresh' /\ FileKept'
  BY <1>1, <1>2 DEF SharersDisturbed, Fresh, FileKept, Saved, Audio!Bytes
<1>5. PlayedSoFar'
  BY <1>1, <1>2 DEF PlayedSoFar, Between, AllPlayed, Audio!Bytes
<1>6. Audio!PlayedWhole'
  BY <1>1, <1>2 DEF PlayedSoFar, AllPlayed, Audio!PlayedWhole, Audio!Bytes
<1> QED
  BY <1>3, <1>4, <1>5, <1>6

\* The header of an undisturbed upload is its own.
LEMMA AudioOpenDevice ==
  ASSUME AudioInv, NEW w \in Workers, NEW u \in Uploads, Audio!OpenDevice(w, u.frame)
  PROVE  AudioInv'
<1> USE DEF AudioInv, AudioTypeOK
<1>1. /\ audio_pc[w] = "open" /\ audio_pc' = [audio_pc EXCEPT ![w] = "play"]
      /\ frame' = [frame EXCEPT ![w] = u.frame] /\ file[name[w]].frame \in {0, u.frame}
      /\ UNCHANGED <<name, upload, file, pos, played, audio_answer, lossy, disturbed>>
  BY DEF Audio!OpenDevice, Audio!Goes
<1>2. AudioTypeOK'
  BY <1>1, ProgramAssumption
<1>3. SharersDisturbed' /\ Fresh' /\ FileKept' /\ Audio!PlayedWhole'
  BY <1>1 DEF SharersDisturbed, Fresh, FileKept, Saved, Audio!PlayedWhole, Audio!Bytes
<1>4. ASSUME ~disturbed[w], ~lossy[w], BUFFER_SIZE % upload[w].frame = 0 PROVE Between(w)'
  <2>1. upload[w].frame \in Nat /\ upload[w].frame > 0 /\ upload[w].size \in Nat
    BY ProgramAssumption
  <2>2. frame'[w] = upload[w].frame
    <3>1. file[name[w]] = Saved(w)
      BY <1>1, <1>4 DEF FileKept
    <3>2. file[name[w]].frame = upload[w].frame
      BY <3>1 DEF Saved
    <3> QED
      BY <1>1, <2>1, <3>2
  <2>3. pos[w] = 0 /\ played[w] = Audio!Bytes(w, 0)
    BY <1>1, <1>4, BytesSeq DEF Fresh, PlayedSoFar
  <2>4. 0 % upload[w].frame = 0
    BY <2>1
  <2> QED
    BY <1>1, <2>1, <2>2, <2>3, <2>4 DEF Between, Audio!Bytes
<1>5. PlayedSoFar'
  <2> SUFFICES ASSUME NEW v \in Workers, ~disturbed'[v], ~lossy'[v],
                      BUFFER_SIZE % upload'[v].frame = 0
               PROVE  /\ audio_pc'[v] \in {"save", "open"} => played'[v] = <<>>
                      /\ audio_pc'[v] = "play" => Between(v)'
                      /\ audio_pc'[v] = "finish" => AllPlayed(v)'
    BY DEF PlayedSoFar
  <2>1. CASE v = w
    BY <1>1, <1>4, <2>1
  <2>2. CASE v # w
    BY <1>1, <2>2 DEF PlayedSoFar, Between, AllPlayed, Audio!Bytes
  <2> QED
    BY <2>1, <2>2
<1> QED
  BY <1>2, <1>3, <1>5

\* Every step of a worker preserves the invariant.
LEMMA AudioStepInv ==
  ASSUME AudioInv, Audio!Next
  PROVE  AudioInv'
<1> PICK w \in Workers :
      \/ Audio!Refuse(w)
      \/ \E n \in Names, u \in Uploads : Audio!OpenOut(w, n, u)
      \/ \E lack \in Lacks : Audio!Save(w, lack)
      \/ Audio!SaveFails(w)
      \/ Audio!PlayRefused(w)
      \/ \E u \in Uploads : Audio!OpenDevice(w, u.frame)
      \/ \E result \in Audio!Results, lack \in Lacks : Audio!PlayBuffer(w, result, lack)
      \/ Audio!EndOfFile(w)
      \/ Audio!Finish(w)
  BY DEF Audio!Next
<1>1. CASE Audio!Refuse(w) \/ Audio!PlayRefused(w)
  BY <1>1, AudioFails DEF Audio!Refuse, Audio!PlayRefused
<1>2. CASE Audio!SaveFails(w)
  <2> USE DEF AudioInv, AudioTypeOK
  <2>1. /\ audio_pc[w] = "save" /\ audio_pc' = [audio_pc EXCEPT ![w] = "open"]
        /\ lossy' = [lossy EXCEPT ![w] = TRUE]
        /\ UNCHANGED <<name, upload, file, frame, pos, played, audio_answer, disturbed>>
    BY <1>2 DEF Audio!SaveFails, Audio!Goes
  <2>2. AudioTypeOK' /\ SharersDisturbed' /\ Fresh'
    BY <2>1 DEF SharersDisturbed, Fresh
  <2>3. FileKept' /\ PlayedSoFar'
    BY <2>1 DEF FileKept, Saved, PlayedSoFar, Between, AllPlayed, Audio!Bytes
  <2>4. Audio!PlayedWhole'
    BY <2>1 DEF Audio!PlayedWhole, Audio!Bytes
  <2> QED
    BY <2>2, <2>3, <2>4
<1> QED
  BY <1>1, <1>2, AudioOpenOut, AudioSave, AudioOpenDevice, AudioPlayBuffer, AudioEndOfFile,
     AudioFinish

\* The audio interface keeps its invariant, whichever program runs.
LEMMA AudioInvariance == ProgramSpec => []AudioInv
<1>1. ProgramInit => AudioInv
  BY AudioInitInv DEF ProgramInit
<1>2. AudioInv /\ UNCHANGED audioVars => AudioInv'
  <2> SUFFICES ASSUME AudioInv, UNCHANGED audioVars PROVE AudioInv'
    OBVIOUS
  <2>1. AudioTypeOK' /\ SharersDisturbed' /\ Fresh'
    BY DEF audioVars, AudioInv, AudioTypeOK, SharersDisturbed, Fresh
  <2>2. FileKept' /\ PlayedSoFar'
    BY DEF audioVars, AudioInv, FileKept, Saved, PlayedSoFar, Between, AllPlayed, Audio!Bytes
  <2>3. Audio!PlayedWhole'
    BY DEF audioVars, AudioInv, Audio!PlayedWhole, Audio!Bytes
  <2> QED
    BY <2>1, <2>2, <2>3 DEF AudioInv
<1>3. AudioInv /\ [ProgramNext]_allVars => AudioInv'
  BY <1>2, AudioStepInv DEF ProgramNext, allVars
<1> QED
  BY <1>1, <1>3, PTL DEF ProgramSpec

\* An upload that reports success, that no other request disturbed and of which
\* neither disk nor device lost anything, was played up to its last whole frame,
\* for every number of workers and names and every size of uploads, frames and
\* buffers, if the frames fill the buffers.
THEOREM UndisturbedUploadPlayedWhole == ProgramSpec => []PlayedWhole
<1>1. AudioInv => PlayedWhole
  BY DEF AudioInv, PlayedWhole
<1> QED
  BY AudioInvariance, <1>1, PTL

-----------------------------------------------------------------------------
(* UdpForwarder: the address under the mutex, and the throttle.            *)

CopyingPlaces == {"copy", "ipCopied", "portCopied", "unlock"}
SendingPlaces == {"sendto", "ipRead", "portRead", "unlock"}
PendingPlaces == {"load", "lock", "sendto", "ipRead", "portRead"}

\* An address is a pair of halves.
Address == [ip : Int, port : Int]

UdpTypeOK ==
  /\ receiver \in {"off", "recvfrom", "lock", "ready"} \cup CopyingPlaces
  /\ handler \in {"none", "idle", "load", "lock"} \cup SendingPlaces
  /\ latest_client \in Address /\ client_addr \in Address /\ destination \in Address
  /\ client_ready \in BOOLEAN
  /\ client_mutex \in {"free", "receiver", "handler"}
  /\ clients_heard \in Nat /\ installed \in Nat /\ floor \in Nat
  /\ since \in 0..Throttle /\ credit \in Int

\* Who holds client_mutex is where it is held.
MutexHeld ==
  /\ client_mutex = "receiver" <=> receiver \in CopyingPlaces
  /\ client_mutex = "handler" <=> handler \in SendingPlaces

\* A client is heard, copied and announced before the next one is received.
OneAtATime ==
  IF receiver \in {"off", "recvfrom"}
  THEN installed = clients_heard
  ELSE clients_heard = installed + 1 /\ latest_client = Udp!AddressOf(clients_heard)

\* Which client each half of client_addr belongs to.
HalvesWritten ==
  /\ client_addr.ip =
       IF receiver \in {"ipCopied", "unlock", "ready"} THEN clients_heard ELSE installed
  /\ client_addr.port =
       IF receiver \in {"portCopied", "unlock", "ready"} THEN clients_heard ELSE installed

\* client_ready stays true from the first client on, so that a sender that
\* has seen it finds an address.
Announced ==
  /\ client_ready <=> installed > 0
  /\ handler \in {"lock"} \cup SendingPlaces => installed > 0
  /\ floor <= installed

\* What sendto has read is what client_addr holds, as long as it is locked.
HalvesRead ==
  /\ handler \in {"ipRead", "unlock"} => destination.ip = client_addr.ip
  /\ handler \in {"portRead", "unlock"} => destination.port = client_addr.port

\* The time since the last datagram is paid for, and that of a pending one too.
Paid ==
  /\ credit >= since
  /\ handler \in PendingPlaces => credit >= since + Throttle

UdpInv ==
  /\ UdpTypeOK
  /\ MutexHeld
  /\ OneAtATime
  /\ HalvesWritten
  /\ Announced
  /\ HalvesRead
  /\ Paid

\* The service before its first client.
LEMMA UdpInitInv == Udp!Init => UdpInv
<1> SUFFICES ASSUME Udp!Init PROVE UdpInv
  OBVIOUS
<1>0. Udp!ZeroAddress \in Address /\ 0 \in 0..Throttle
  BY ProgramAssumption DEF Udp!ZeroAddress, Address
<1>1. client_ready \in BOOLEAN
  BY Zenon DEF Udp!Init
<1>2. credit \in Int /\ clients_heard \in Nat /\ installed \in Nat /\ floor \in Nat
  BY DEF Udp!Init
<1>3. UdpTypeOK
  BY <1>0, <1>1, <1>2, Zenon DEF Udp!Init, UdpTypeOK
<1>4. MutexHeld /\ OneAtATime /\ HalvesWritten
  BY DEF Udp!Init, Udp!ZeroAddress, CopyingPlaces, SendingPlaces, MutexHeld, OneAtATime,
         HalvesWritten
<1>5. Announced /\ HalvesRead /\ Paid
  BY DEF Udp!Init, SendingPlaces, PendingPlaces, Announced, HalvesRead, Paid
<1> QED
  BY <1>3, <1>4, <1>5 DEF UdpInv

\* The smaller of two numbers, for the clock that saturates.
LEMMA UdpMin ==
  ASSUME NEW a \in Int, NEW b \in Int
  PROVE  Udp!Min({a, b}) = IF a <= b THEN a ELSE b
BY DEF Udp!Min

\* The receiving thread preserves the invariant.
LEMMA UdpReceiverStep ==
  ASSUME UdpInv, Udp!InitUDPServer \/ Udp!RecvEmpty \/ Udp!RecvClient \/ Udp!Register
  PROVE  UdpInv'
<1> USE DEF UdpInv, UdpTypeOK, Address, CopyingPlaces, SendingPlaces, PendingPlaces, MutexHeld,
            OneAtATime, HalvesWritten, Announced, HalvesRead, Paid, Udp!handlerVars,
            Udp!AddressOf
<1>1. CASE Udp!InitUDPServer
  BY <1>1 DEF Udp!InitUDPServer
<1>2. CASE Udp!RecvEmpty
  BY <1>2 DEF Udp!RecvEmpty, Udp!NoClient
<1>3. CASE Udp!RecvClient
  BY <1>3 DEF Udp!RecvClient
<1>4. CASE Udp!ReceiverLock
  BY <1>4 DEF Udp!ReceiverLock
<1>5. ASSUME NEW h \in Udp!Halves, Udp!CopyHalf(h) PROVE UdpInv'
  BY <1>5 DEF Udp!CopyHalf, Udp!Halves, Udp!Copied
<1>6. ASSUME NEW h \in Udp!Halves, Udp!CopyOtherHalf(h) PROVE UdpInv'
  BY <1>6 DEF Udp!CopyOtherHalf, Udp!Halves, Udp!Copied, Udp!OtherHalf
<1>7. CASE Udp!ReceiverUnlock
  BY <1>7 DEF Udp!ReceiverUnlock
<1>8. CASE Udp!SetReady
  BY <1>8 DEF Udp!SetReady
<1> QED
  BY <1>1, <1>2, <1>3, <1>4, <1>5, <1>6, <1>7, <1>8 DEF Udp!Register

\* The DDS thread and the clock do.
LEMMA UdpHandlerStep ==
  ASSUME UdpInv, Udp!FirstMessage \/ Udp!Forward \/ Udp!Tick
  PROVE  UdpInv'
<1> USE ProgramAssumption
    DEF UdpInv, UdpTypeOK, Address, CopyingPlaces, SendingPlaces, PendingPlaces, MutexHeld,
        OneAtATime, HalvesWritten, Announced, HalvesRead, Paid, Udp!receiverVars
<1>1. CASE Udp!FirstMessage
  BY <1>1 DEF Udp!FirstMessage
<1>2. CASE Udp!_HighStateHandler
  BY <1>2 DEF Udp!_HighStateHandler
<1>3. CASE Udp!LoadReady
  BY <1>3 DEF Udp!LoadReady
<1>4. CASE Udp!SenderLock
  BY <1>4 DEF Udp!SenderLock
<1>5. ASSUME NEW h \in Udp!Halves, Udp!ReadHalf(h) PROVE UdpInv'
  BY <1>5 DEF Udp!ReadHalf, Udp!Halves, Udp!ReadOf
<1>6. ASSUME NEW h \in Udp!Halves, Udp!Send(h) PROVE UdpInv'
  BY <1>6 DEF Udp!Send, Udp!Halves, Udp!ReadOf, Udp!OtherHalf
<1>7. CASE Udp!SenderUnlock
  BY <1>7 DEF Udp!SenderUnlock
<1>8. CASE Udp!Tick
  <2>1. /\ Udp!Min({since + 1, Throttle}) \in 0..Throttle
        /\ Udp!Min({since + 1, Throttle}) <= since + 1
    BY UdpMin
  <2>2. /\ Udp!Min({credit + 1, Udp!CreditCap}) \in Int
        /\ \/ Udp!Min({credit + 1, Udp!CreditCap}) = credit + 1
           \/ Udp!Min({credit + 1, Udp!CreditCap}) = Throttle + Throttle
    BY UdpMin DEF Udp!CreditCap
  <2> QED
    BY <1>8, <2>1, <2>2 DEF Udp!Tick, Udp!handlerVars
<1> QED
  BY <1>1, <1>2, <1>3, <1>4, <1>5, <1>6, <1>7, <1>8 DEF Udp!Forward

\* The high state service keeps its invariant, whichever program runs.
LEMMA UdpInvariance == ProgramSpec => []UdpInv
<1>1. ProgramInit => UdpInv
  BY UdpInitInv DEF ProgramInit
<1>2. UdpInv /\ UNCHANGED udpVars => UdpInv'
  BY DEF udpVars, UdpInv, UdpTypeOK, MutexHeld, OneAtATime, HalvesWritten, Announced, HalvesRead,
         Paid, Udp!AddressOf
<1>3. UdpInv /\ [ProgramNext]_allVars => UdpInv'
  BY <1>2, UdpReceiverStep, UdpHandlerStep DEF ProgramNext, allVars, Udp!Next
<1> QED
  BY <1>1, <1>3, PTL DEF ProgramSpec

\* Whatever the receiver does meanwhile, a datagram goes to the whole address
\* of a client that was current when the state arrived, or of a later one, for
\* every number of clients.
THEOREM SentToCurrentClient == ProgramSpec => []ToCurrentClient
<1>1. UdpInv => ToCurrentClient
  <2> SUFFICES ASSUME UdpInv, handler = "unlock"
               PROVE  \E k \in 1..clients_heard :
                        k >= floor /\ destination = Udp!AddressOf(k)
    BY DEF ToCurrentClient, Udp!ToCurrentClient
  <2>1. receiver \notin CopyingPlaces
    BY DEF UdpInv, MutexHeld, SendingPlaces
  <2>2. /\ client_addr.ip \in 1..clients_heard
        /\ client_addr.ip = client_addr.port
        /\ client_addr.ip >= floor
    BY <2>1 DEF UdpInv, UdpTypeOK, CopyingPlaces, SendingPlaces, OneAtATime, HalvesWritten,
                Announced
  <2>3. destination = Udp!AddressOf(client_addr.ip)
    BY <2>2 DEF UdpInv, UdpTypeOK, Address, HalvesRead, Udp!AddressOf
  <2> QED
    BY <2>2, <2>3
<1> QED
  BY UdpInvariance, <1>1, PTL

\* However long the handler waits for the mutex, the datagrams keep the rate,
\* for every throttle.
THEOREM DatagramsKeepRate == ProgramSpec => []RateKept
<1>1. UdpInv => RateKept
  BY DEF UdpInv, UdpTypeOK, Paid, RateKept, Udp!RateKept
<1> QED
  BY UdpInvariance, <1>1, PTL

-----------------------------------------------------------------------------
(* DexHand: the sweep of the fingers.                                      *)

\* _count stays within the swing, is about to turn at its ends, and is one
\* step from the command that was written last.
HandInv ==
  /\ _count \in -Swing .. Swing /\ swept \in -Swing .. Swing
  /\ dir \in {-1, 1}
  /\ _count = Swing => dir = -1
  /\ _count = -Swing => dir = 1
  /\ _count - swept \in {-1, 1}

\* The initial _count is not at an end.
LEMMA HandInitInv == Hand!Init => HandInv
BY ProgramAssumption DEF Hand!Init, HandInv

\* A pass of the main loop or a key preserves the invariant, and moves the
\* sweep by one step at most.
LEMMA HandStepInv ==
  ASSUME HandInv, Hand!Next
  PROVE  HandInv' /\ swept' - swept \in {-1, 0, 1}
<1>1. ASSUME UNCHANGED <<_count, dir, swept>> PROVE HandInv' /\ swept' - swept \in {-1, 0, 1}
  BY <1>1 DEF HandInv
<1>2. ASSUME NEW bit \in {0, 1}, Hand!rotateMotors(bit)
      PROVE  HandInv' /\ swept' - swept \in {-1, 0, 1}
  BY <1>2, ProgramAssumption DEF Hand!rotateMotors, Hand!Turned, HandInv
<1> QED
  BY <1>1, <1>2 DEF Hand!Next, Hand!Main, Hand!userInputThread, Hand!Load, Hand!Initialize,
                    Hand!gripHand, Hand!stopMotors, Hand!printState

\* However the rotation is interrupted, it sweeps the range of the fingers
\* without a jump and turns back at its ends, for every swing.
THEOREM RotationSweeps == ProgramSpec => SweepsTheRange
<1>1. ProgramInit => HandInv
  BY HandInitInv DEF ProgramInit
<1>2. HandInv /\ UNCHANGED handVars => HandInv'
  BY DEF handVars, HandInv
<1>3. HandInv /\ [ProgramNext]_allVars => HandInv'
  BY <1>2, HandStepInv DEF ProgramNext, allVars
<1>4. HandInv /\ HandInv' /\ [ProgramNext]_allVars
        => [swept' \in -Swing .. Swing /\ swept' - swept \in {-1, 0, 1}]_Hand!vars
  <2> SUFFICES ASSUME HandInv, HandInv', [ProgramNext]_allVars
               PROVE  \/ UNCHANGED Hand!vars
                      \/ swept' \in -Swing .. Swing /\ swept' - swept \in {-1, 0, 1}
    OBVIOUS
  <2>1. CASE UNCHANGED handVars
    BY <2>1 DEF handVars, Hand!vars
  <2>2. CASE Hand!Next
    BY <2>2, HandStepInv DEF HandInv
  <2> QED
    BY <2>1, <2>2 DEF ProgramNext, allVars
<1> QED
  BY <1>1, <1>3, <1>4, PTL DEF ProgramSpec, SweepsTheRange, Hand!SweepsTheRange

=============================================================================
