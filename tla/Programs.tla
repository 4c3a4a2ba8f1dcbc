------------------------------ MODULE Programs ------------------------------
(***************************************************************************)
(* The programs whose threads and requests meet: a subscription with its   *)
(* waiter, the workers of the control interface and of the audio           *)
(* interface, the high state service and the dexterous hand.  They share   *)
(* nothing, so one of them runs at a time; program says which.             *)
(***************************************************************************)
EXTENDS Subscription

CONSTANTS
  Checked,     \* the programs that may run
  Workers,     \* of the two HTTP interfaces
  Names,       \* AudioUpload: the file names clients use
  Uploads,     \* AudioUpload: what they send
  BUFFER_SIZE, \* AudioUpload: how much is played at a time
  Lacks,       \* AudioUpload: how much a write may fall short by
  Throttle,    \* UdpForwarder: the time between two datagrams
  MaxClients,  \* UdpForwarder: how many clients come
  Swing        \* DexHand: where _count turns back

\* _count starts at 1, below the end it first moves to.
ASSUME ProgramAssumption ==
  /\ Names # {} /\ Uploads # {} /\ BUFFER_SIZE \in Nat /\ BUFFER_SIZE > 0
  /\ \A u \in Uploads : u.frame \in Nat /\ u.frame > 0 /\ u.size \in Nat
  /\ Lacks \subseteq Nat
  /\ Throttle \in Nat /\ MaxClients \in Nat
  /\ Swing \in Nat /\ Swing > 1

VARIABLES
  program,
  pc, command, rslt, late, answer, cancel_flag, moving, undisturbed, quiet, overtaken,
  audio_pc, name, upload, file, frame, pos, played, audio_answer, lossy, disturbed,
  receiver, latest_client, client_addr, client_ready, client_mutex, clients_heard, installed,
  handler, since, destination, floor, sentTo, credit,
  currentState, inputThread, main, state, _count, dir, wire, lastKey, swept

Remote == INSTANCE RemoteControl

Audio == INSTANCE AudioUpload WITH pc <- audio_pc, answer <- audio_answer

Udp == INSTANCE UdpForwarder WITH heard <- clients_heard

Hand == INSTANCE DexHand

remoteVars == <<pc, command, rslt, late, answer, cancel_flag, moving, undisturbed, quiet,
                overtaken>>
audioVars == <<audio_pc, name, upload, file, frame, pos, played, audio_answer, lossy,
               disturbed>>
udpVars == <<receiver, latest_client, client_addr, client_ready, client_mutex, clients_heard,
             installed, handler, since, destination, floor, sentTo, credit>>
handVars == <<currentState, inputThread, main, state, _count, dir, wire, lastKey, swept>>
allVars == <<program, vars, remoteVars, audioVars, udpVars, handVars>>

\* A program that is not run has one initial state.
ProgramInit ==
  /\ program \in Checked
  /\ Init /\ Remote!Init /\ Audio!Init /\ Udp!Init /\ Hand!Init
  /\ program # "subscription" => robot = 0 /\ mode_pub = 0

ProgramNext ==
  /\ UNCHANGED program
  /\ \/ /\ program = "subscription" /\ Next
        /\ UNCHANGED <<remoteVars, audioVars, udpVars, handVars>>
     \/ /\ program = "remote" /\ Remote!Next
        /\ UNCHANGED <<vars, audioVars, udpVars, handVars>>
     \/ /\ program = "audio" /\ Audio!Next
        /\ UNCHANGED <<vars, remoteVars, udpVars, handVars>>
     \/ /\ program = "udp" /\ Udp!Next
        /\ UNCHANGED <<vars, remoteVars, audioVars, handVars>>
     \/ /\ program = "hand" /\ Hand!Next
        /\ UNCHANGED <<vars, remoteVars, audioVars, udpVars>>

-----------------------------------------------------------------------------
(* Fairness, of the program that runs.                                     *)

RemoteStep(A) == program = "remote" /\ A /\ UNCHANGED <<program, vars, audioVars, udpVars, handVars>>
UdpStep(A) == program = "udp" /\ A /\ UNCHANGED <<program, vars, remoteVars, audioVars, handVars>>
HandStep(A) == program = "hand" /\ A /\ UNCHANGED <<program, vars, remoteVars, audioVars, udpVars>>

\* Workers run, time passes, and a call returns: the client's timeout is 10 s.
RemoteFairness ==
  \A w \in Workers :
    /\ WF_allVars(RemoteStep(Remote!LoopHead(w)))
    /\ WF_allVars(RemoteStep(Remote!TimeUp(w)))
    /\ WF_allVars(RemoteStep(Remote!Call(w)))
    /\ WF_allVars(RemoteStep(Remote!Returned(w)))

\* Both threads run, the clock does, and states keep arriving.  The sender
\* holds the mutex for one sendto in 20 ms, so a blocked receiver gets it.
UdpFairness ==
  /\ WF_allVars(UdpStep(Udp!Tick))
  /\ WF_allVars(UdpStep(Udp!FirstMessage))
  /\ WF_allVars(UdpStep(Udp!Forward))
  /\ WF_allVars(UdpStep(Udp!Register))
  /\ SF_allVars(UdpStep(Udp!ReceiverLock))
  /\ SF_allVars(UdpStep(Udp!SenderLock))

\* The main loop of the hand never blocks; nobody has to type.
HandFairness == WF_allVars(HandStep(Hand!Main))

ProgramSpec ==
  /\ ProgramInit /\ [][ProgramNext]_allVars
  /\ RemoteFairness /\ UdpFairness /\ HandFairness

-----------------------------------------------------------------------------
(* Properties: what each program promises.                                 *)

\* RemoteControl: a stop that met no motion request holds.
StopHolds == Remote!StopHolds

\* RemoteControl: every request is answered.
EveryRequestAnswered == Remote!EveryRequestAnswered

\* RemoteControl: a stop ends the motion requests that were running.
StopCancelsMotion == Remote!StopCancelsMotion

\* AudioUpload: an undisturbed upload reported as played was played whole.
PlayedWhole == Audio!PlayedWhole

\* UdpForwarder: a datagram goes to the whole address of the current client.
ToCurrentClient == Udp!ToCurrentClient

\* UdpForwarder: the rate of the datagrams is limited.
RateKept == Udp!RateKept

\* UdpForwarder: a registered client receives states, or a later one does.
ClientServed == Udp!ClientServed

\* DexHand: the rotation sweeps the range and resumes where it was.
SweepsTheRange == Hand!SweepsTheRange

\* DexHand: a stop reaches the hand, unless the start overwrites it.
StopReachesHand == Hand!StopReachesHand

\* DexHand: a stop reaches the hand whenever it is typed.
StopAlwaysReachesHand == Hand!StopAlwaysReachesHand

=============================================================================
