# A TLA+ verification of unitree_sdk2_typego

The repository is a C++ SDK for Unitree robots together with a set of programs ("typego") that put a
Go2 robot on the network. This directory holds TLA+ models of the parts of it that carry state and
concurrency, the TLC configurations that check them on small instances, and TLAPS proofs of the safety
properties for every value of the constants. `PROJECT.json` lists components, runs, mutations, the
correspondence of definitions and source lines, the hazards, findings and theorems.

## 1. Inventory

### 1.1 Parts of the system

| Part | Source | State | Operations |
|---|---|---|---|
| BlockQueue | `include/unitree/common/block_queue.hpp` | list, separate count, sleepers on a condition variable | Put (replace, putfront), Get (timed or not), Interrupt |
| DDS reader and listener | `include/unitree/common/dds/dds_entity.hpp` | callback, optional queue with its thread, quit flag, time of the last message | SetListener, on_data_available, queue thread, destructors |
| RealTimePublisher | `include/unitree/dds_wrapper/common/Publisher.h`, `robots/*/..._pub.h` | shared message, turn, mutex, run flags | trylock, lock, unlock, unlockAndPublish, stop, publishing loop, destructors |
| Control framework | `example/state_machine/*.hpp` | sensors, state machine with stiffness ratio, prepared and shared command, two mutexes | message handler, start-up, ControlStep, write handler |
| High state service | `example/go2/typego_high_state_service.cpp` | client address, ready flag, mutex, time of the last send | WaitForNextClient, _HighStateHandler, send |
| Livox services | `example/go2/typego_livox_full_service.cpp`, `typego_livox_service.cpp` | client address, ready flag, sequence numbers, atomic statistics | PointCloudCallback, ImuDataCallback, WaitForNextClient |
| Control interface | `example/go2/typego_control_interface.cpp` | last high state, PIDs, sport client | HTTP routes; rotate, move, nav, stop, simple commands |
| Audio interface | `example/go2/typego_audio_interface.cpp` | saved files, ALSA device | upload and play, in several workers |
| Channels, topics, writers | `include/unitree/robot/channel`, `include/unitree/common/dds` | maps of topics, writer | InitChannel, Write with a wait for a reader |
| Subscriptions, joystick | `include/unitree/dds_wrapper/common`, `robots/go2/go2.h` | newest message, time, smoothed sticks | handler, isTimeout, wait_for_connection, check_mode_machine, shutdown, joystick update |
| Requests, leases, thread pool, log | `include/unitree/robot/{client,server,future}`, `common/thread`, `common/log` | declarations only | in the prebuilt library |
| Examples for single robots | `example/{b2,b2w,g1,go2,go2w,h1,wireless_controller}` | stages, DataBuffers, a state typed by the user | periodic threads, input thread |
| Message types, third party | `include/unitree/idl`, `thirdparty` | - | generated or vendored |

### 1.2 How the parts interact

A DDS thread calls `on_data_available`; the reader calls the user's handler at once or puts the message
into a BlockQueue whose thread calls it. The typego services are such handlers: they turn a state or a
point cloud into UDP datagrams for a client that a second thread waits for. The control interface reads
the state that a handler stores and sends velocities to the robot's sport service from HTTP worker
threads. On the low level, a program runs a DDS handler, a control thread and a write thread around
shared state and commands (the control framework), or fills the message of a RealTimePublisher that a
loop copies, seals with a CRC and writes.

### 1.3 What is hard in it

* Interleaving: a `Get` that waits once and does not loop; a publisher whose message is filled piece by
  piece by several threads; a write thread that copies a command while it is replaced; an address that is
  replaced while datagrams are sent.
* Shutdown: interrupts that nobody remembers, destructors that join threads which may not have started, a
  derived class destroyed before its thread is stopped.
* Stale values: flags and times read before a mutex is taken; a robot state older than the decision made
  from it.
* Sequences of legal inputs: stops, falls and buttons in any order must not skip the stiffness ramp.
* Partial failure: calls to the robot that fail or are lost, a device that takes less than it is given, a
  query whose failure looks like an answer.
* Limits: full queues, packets that are full exactly, sequence numbers and angles that wrap around.
* Things that must happen: delivery, the end of a destructor, an answer to a request, damping after a
  fall.

`PROJECT.json` lists each one as a hazard at its source line with the properties that cover it, or with
the reason why none does.

## 2. The modules

Every module has the state as variables, one action per step the code makes between two points where
another thread can come in, `Next` and `Spec`. Fairness is stated where liveness is checked: in a `FairSpec`,
or in `Programs` for the programs it runs. Operators whose
comment begins with "Mutation of" are not part of any specification: each is a plausible slip in the code,
put in place of the definition it names to see that the property notices it.

### BlockQueue
`mQueue` and `mCurSize` are the list and the count the code keeps beside it; `getter` says where each
consumer is in `Get`. `Put` and `Interrupt` run under the mutex and are one action each. A `Get` that finds
the queue empty gives the mutex up in `MutexCond::Wait`, so it is split there: `GetAvailable`/`GetWait` and
`GetResume`/`GetTimedOut`. The condition variable is external: `Notify` wakes one sleeper if there is one,
waits can time out and end spuriously.

### ReaderListener
Composes `BlockQueue` (an `INSTANCE` with the queue thread as the only consumer) with the DDS thread (`Take`,
`SkipInvalid`, `Stamp`, `Enqueue` or `HandleDirectly`), the queue thread (`HandlerTest` .. `OnDataAvailable`) and the
owner (`SetCallback`, `SetQueue`, `Attach`, `Detach`, `SetQuit`, `InterruptQueue`, `Join`). `SetCallback` is also
called without a message handler: nothing is delivered then, and the queue thread polls for a handler and never comes
to its test of `mQuit`. Messages are numbered by arrival. Deleting the native reader is taken to wait for a listener
call in progress, which is what DDS does.

### NewestWins
The abstract channel that a subscription is to its user: `Accept`, `Deliver` in order, and `Lose`, which may
drop a message only if `Capacity` newer ones wait behind it. `ReaderListener` implements it
(`ImplementsNewestWins`): what is pending is the message in the queue thread's hands, the queue, and the
message on_data_available has stamped and not yet queued; what is delivered is what the handler was called with.
Order, at-most-once delivery and the survival of the newest message follow from that one property.

### RealTimePublisher
A message has two halves, filled one after the other, and a CRC named by the content it was computed over.
`trylock`, `lock`, `unlock`, `unlockAndPublish` and `stop` are the users' calls; the loop is one action per
access to shared state, the first unlocked `turn_ = REALTIME` included. `DestroyDerived` is the moment at
which the virtual `pre_communication` becomes the empty one of the base class.

### RobotController
The DDS thread (`LowStateMessageHandler`, with `GetState` under `state_mutex` writing the joints in two
parts), `main` (wait, start, 100 ms, start the writer), the control thread (`ControlStep` as one action
per locked section and per branch) and the write thread. `pd_ratio` is counted in steps of `delta_pd`. A
command is its position target and its gains, so that a mixture of two modes can be seen.

### UdpForwarder
The receiver thread and the handler of the high state service with `client_mutex` and the atomic
`client_ready`. An address has two halves, copied and read in either order, so a copy outside the mutex
would show. Time is `since`, the saturated distance to `last_send_time`.

### LidarPackets, FilteredPackets, CallbackStats
`LidarPackets` is the packet loop of the full service, parameterised by the sizes, with clients that come and are
replaced between any two packets and a network that loses packets. `seq_id` is `thread_local`: the module follows one
of the threads that run the callback, `OtherPacket` is what any other sends to the same client meanwhile, with a
number of its own. Nothing in a packet names its thread, so that `LossVisible` holds only of the packets of one
thread with none of another in between (`mixed`). Items have the size of the High format; a Low cloud, which the
callback lets pass (lines 177-178) and reads with the layout of a High one (192, 222), is outside the model.
`FilteredPackets` is the callback of the smaller service: the int16 cut (`int16`), the height band, the buffer that
is sent when the next point does not fit, the flush at the end. `CallbackStats` is the lock-free counter and log at
the head of the full service's callback, run by several threads, one action per atomic access.

### RotateCommand
The robot turns as it likes (`Turn`, external), its state arrives at any time (`_HighStateHandler`), and `rotate`
looks, adds the wrapped difference to its sum, sends a velocity and sleeps. The history variables `turned`,
`received`, `seen` and `startedAt` hold the true angles. The assumption `TurnAssumption`, that the robot turns by
less than half a turn between two looks, is what the code relies on: at the rate of the passes and the yaw limit of
the robot the angle in between is far below pi. `ki` and `kd` of the yaw PID are zero in the program, so that
`update` is its proportional part within `o_limit`. `rotate` and `move` start with a state received: the code has no
test for it, `high_state` is all zero until a message comes (line 375) and `main` only sleeps for a second before it
serves requests (line 403).

### MoveCommand
`move` reads x, y and yaw one by one while `_HighStateHandler` replaces the state (`Read` is a pose made of two
messages), turns the displacement from the body into the world (`BodyToWorld`) and the velocity back (`WorldToBody`).
Lengths are integers and yaws are quarter turns, reported between -2 and 2 as the robot reports them between -pi and
pi: sine and cosine are exact, and both names of the half turn occur. `update` has the gain 2 for the position and 10
for the yaw, as in the code.

### RemoteControl
The `/control` requests of several workers against the one sport service. A loop (`move`, `rotate`) is its head, a
call and a return, again and again until it is done or late; the other commands are one call. A call is served or
lost, or it is served and its reply is lost; the reply comes later, so the calls of other workers fall in between.
The branch for a cancelled loop is there and never taken, since nothing sets `cancel_flag`.

### Subscription
`SubscriptionBase`: the handler stamps the time, then copies the message; the user polls the age in
`wait_for_connection` and reads the message without the mutex in `check_mode_machine`. Times are ages in ticks;
sleeps last at least as asked and at most `Slack` longer. `SubscriptionAssumption` says what the numbers in the code
have to satisfy: the time-outs are not shorter than a poll, and the handler copies within the last sleep. Shorter
values of `set_timeout_ms`, which would miss messages, are outside it. So is the constructor's branch for a handler
of the user (lines 33-34), where the time is never stamped: no class of the repository takes it.

### AudioUpload
`/upload_play` in several workers: the file is truncated and written under the client's name, then played buffer
by buffer. A byte is the worker it was sent to and its place in the upload. The write of the file is not checked and
may lack bytes, or the header too (`Save`, `SaveFails`); a worker may write over what another has saved (`Over`). What
was read is cut to whole frames (`Frames`), and the device may take a part of them, run dry or fail (`PlayBuffer`).
History variables record whether disk or device lost something and whether another worker saved the same file.

### StandUp, AnkleSwing, DexHand
`StandUp` is the Go2's stand-up: the loop that releases the controlling service (also that of `shutdown()` in
`go2.h`, which differs in keeping the name) and the four stages in shares of the way, for one joint, which moves by
at most `Drift` between two state messages (`JointMoves`, external). `AnkleSwing` is the G1's ankle swing: state
handler, control thread and command writer with the two members that travel outside the locked buffers; a command is
named by the time it was computed for. `MaxOvertake` bounds how many steps of `Control` fall between the two reads of
one write, and between the two stores of the first state message. `DexHand` is the hand example's input thread and
main loop, which both write `currentState`; a rotate command is its `_count`.

### The composed models
`Livox`, `Motion` and `Programs` instantiate several components that share nothing: a variable chosen in the
initial state says which of them runs, the others stay in one initial state. Every component is checked as it
would be alone. They declare the constants of all their components, with named assumptions, so that what is
proved of them is proved for every value; `MCLivox`, `MCMotion` and `MCPrograms` only add the values TLC uses,
so that the assumptions are evaluated and the properties of the runs are literally those of the theorems.

## 3. The runs

| Run | Shows | Bounds |
|---|---|---|
| `block_queue` | The count is exact and within the capacity; while a consumer sleeps every item is matched by a woken one; nobody sleeps on while items lie there | 3 consumers and capacity 3: sleepers, woken threads and items can each outnumber the others |
| `reader_listener` | The reader implements `NewestWins`; queued messages leave the queue; the destructor's join returns if there is a handler and the thread was not just about to wait | queue of 2, batches of 2, 5 messages: the queue overflows while the handler runs |
| `reader_listener_shutdown` | *violated*: an interrupt between the thread's test of `mQuit` and its wait is lost and the join hangs | the smallest queue |
| `realtime_publisher` | Messages written are whole and sealed, each answers a hand-over; trylock waits for the copy; trylock hand-overs are published; the destructor returns | 2 users, 2 fillings, 3 hand-overs: realtime against non-realtime, and a hand-over without a new filling |
| `realtime_publisher_start` | *violated*: a hand-over before the loop's first `turn_ = REALTIME` is forgotten | 1 user, 1 message |
| `robot_controller` | Commands on the wire belong to one mode; CTRL only after a full ramp; gains return from zero; a fallen robot leaves CTRL; a stop reaches the wire | ramp of 3 steps, starting at 1, with the threshold at 2; five sets of buttons |
| `livox` | Callback statistics lose no call and log once per period; clouds are cut into packets with every item once and in order, and the losses of a thread can be counted past the wrap; the filtered packets hold exactly the band's points, numbered one by one | 3 symmetric threads and three periods; packets of 3 items, 0 to 10 items, numbers modulo 4: exact multiples, one more, one less, and wraps inside a call, with clients replaced and packets of other threads with any number in between; 6 points of three heights, packets of 2 points with a byte to spare |
| `motion` | rotate's sum is the true angle and its success true; move succeeds only where the robot moved as asked and its velocity leads towards the target; the ankle swing's mode fits its targets but for near zero, and only its first commands lack the type; the stand-up's targets do not jump, and a service is left active only by a check that failed | a circle of 6, turns up to 2 between looks, requests over more than a full turn; an oblique displacement, positions within 2, all headings; all three stages with a full swing in each mode, a write overtaken by one step; stages of 4, 3, 2 and 2 passes from four postures, between two of which the joint drifts, two releases |
| `motion_heading` | *violated*: move turns the long way round near pi | as `motion`, move only |
| `programs` | The mode check and the wait for a connection; a stop holds and every request is answered; an undisturbed upload is played whole; states go to the current client, throttled, and a client is served; the hand sweeps its range and stops | three modes, time-outs from the shortest the polling allows; 2 workers; 2 file names, uploads of 7 bytes in frames of 2 and buffers of 4: a full buffer, and a last one with half a frame; 3 clients and a throttle of 3 ticks: two replacements between the call of the handler and its send; a swing of 4 steps either way |
| `programs_cancel` | *violated*: a stop is undone by a loop that was running | as `programs`, requests only |
| `programs_stop` | *violated*: a stop typed while INIT is handled is overwritten | as `programs`, the hand only |

Deadlock is checked wherever the system has no end. `ReaderListener` and `RealTimePublisher` end when the
object is destroyed, a `move`, a stand-up and the bounded ankle swing end as well, and the configurations of these
say so.

Bounds on counters (`MaxWrites`, `MaxMessages`, `MaxClients`, `MaxTime`, ...) stand in guards and are named
constants. The code's behaviour does not depend on how many messages went before, apart from the wrap of
the sequence numbers, which the small moduli bring within reach.

### Fairness
* Weak fairness of the threads' steps: the operating system runs a thread that can run.
* `BlockQueue`: a thread that left the wait gets the mutex, which is held for a few statements only.
* `RealTimePublisher`: strong fairness of the loop's lock, which is retried every millisecond against users
  that hold the mutex for a few assignments; users release it. Nothing obliges a user to lock or hand over.
* `RobotController`, `UdpForwarder`: strong fairness of the actions that take a mutex which the other side
  holds for a copy or a send once per period.
* `UdpForwarder` also assumes that time passes and that states keep arriving (the robot publishes them
  periodically).
* `RemoteControl`: the workers run, time passes, and a call returns, with an error at the latest after the
  client's time-out of 10 s. That calls succeed, or that the target is ever reached, is not assumed.
* `DexHand`: the main loop runs. Nobody has to type.
* Arrivals, the decision to stop or destroy, losses and spurious wakeups are never owed.

### Findings
1. `reader_listener_shutdown`: `~DdsReaderListener` (`dds_entity.hpp:237`) interrupts the queue once. If its
   thread is between the test of `mQuit` and the wait, there is no sleeper to wake, and the join waits for a
   `Get` without a timeout. `JoinReturns` in `reader_listener` shows that there is one other way to hang: a queue
   thread without a message handler, which never tests `mQuit` (`dds_entity.hpp:263-273`).
2. `realtime_publisher_start`: `publishingLoop` sets `turn_ = REALTIME` without the mutex
   (`Publisher.h:136`), so a message handed over with `lock` .. `unlockAndPublish` right after construction
   is not published. `RealtimeHandoverPublished` shows that hand-overs by `trylock`, which waits for the
   loop's first turn, are safe.
3. `motion_heading`: `move` holds the heading with the raw difference of two yaws
   (`typego_control_interface.cpp:353`), which `rotate` wraps.
4. `programs_cancel`: `cancel()` has no caller, and a stop answered with success is undone by the next pass of a
   `move` or `rotate` in another worker (`typego_control_interface.cpp:272`). `StopHolds` shows that the stop
   holds when no such request was running.
5. `programs_stop`: the main loop of `g1_dex3_example.cpp` overwrites a stop typed between its read of INIT and
   its assignment of ROTATE (line 304). `StopReachesHand` shows that no other stop is lost.

The passing properties have premises, which leave out the following. In three places the program says more than that:
`typego_audio_interface.cpp:79` ("played successfully"), `go2_stand_example.cpp:183` ("deactivated") and the comment of
`shutdown()` in `go2.h:18` ("Close the default controller").
* `PublishedSealed` speaks of a live publisher: once the derived part is destroyed, the loop may write one more
  message without a CRC (`Publisher.h:150`).
* `JoinReturns` speaks of a listener with a message handler whose queue thread is not about to wait.
* `LossVisible` speaks of one thread's packets: with several callback threads a client cannot count its losses
  (`typego_livox_full_service.cpp:188`).
* `VelocityApproaches` leaves out a pass during whose reads the yaw changes: its velocity is turned into the frame of
  another heading.
* `LeftActiveOnlyBlind`: a failing `CheckMode` leaves the name empty, which reads as "no service active", and
  the program commands the motors beside the service (`go2_stand_example.cpp:181`).
* `TargetsDoNotJump`: the first pass is left out if no state message had come by then; it sets out from 0, wherever the
  joint is (`go2_stand_example.cpp:252`).
* `PlayedWhole`: after a file that was not written completely, a write error, an underrun or a file replaced under
  its reader the request still reports success (`typego_audio_interface.cpp:70`, `:240`, `:62`). So it does for
  frames whose size does not divide the buffer's 4096 bytes, all of 24 bits or of three, five, six or seven channels
  among them: each buffer is cut to whole frames and the rest of it is dropped (`:231`).
* `MismatchNearZero` and `TypeKnownSoon`: commands with the other stage's mode (`g1_ankle_swing_example.cpp:286`),
  within one step of the zero of both swings, and first commands without the machine's type do go out.
* `StopHolds`: a stop beside a motion request, see finding 4.
* `CheckedModeIsTrue`: raising the time-out of a new subscription makes `isTimeout()` false before any message
  came (`Subscription.h:31`), and the unset message passes for a simulation.
* `PublishedCoherent` counts the command before the first control step as coherent: the write thread starts 100 ms
  after the control thread, whether or not that has set a command (`robot_controller.hpp:90`).
* `BandInNumberedOrder` takes the band by the height cut to int16, as the code does (`typego_livox_service.cpp:92`).
* After `q` the input thread of the hand example ends and its main loop goes on for ever.

## 4. The proofs

All are machine-checked by TLAPS; the theorems hold for every value of the constants that satisfies the
assumptions named in the modules. Every safety property of the passing runs, invariants, action properties and
the refinement, is a theorem. Each follows the same plan: an inductive invariant (checked with TLC first), one
lemma per action or group of actions, and the properties as its consequences. In the composed models the
invariant of a component is preserved by its own steps, and by the others because they leave its variables
alone.

| Module | Holds for | Theorems | Invariant |
|---|---|---|---|
| `BlockQueueProofs` | any finite set of consumers, any capacity | `TypeCorrect`, `SizeIsConsistent`, `NoWakeupIsLost` | `IInv` |
| `ReaderListenerProofs` | any queue length, batch and number of messages | `SubscriptionImplementsNewestWins` | `ListenerInv` |
| `RealTimePublisherProofs` | any users, any number of messages | `NothingTornIsPublished`, `WrittenIsSealed`, `WritesAreAccounted`, `RealtimeWaitsForCopy` | `IInv` |
| `RobotControllerProofs` | any ramp, any sets of buttons | `WireIsCoherent`, `CtrlNeedsRamp`, `StopWins`, `GainsRestart` | `IInv` |
| `LivoxProofs` | any threads and period; any sizes that leave room for one item, any range of the numbers | `CallsAreConserved`, `LogsAreRare`, `LogTimeMovesOn`; `ItemsSentOnce`, `LossesCanBeCounted`; `BandIsSent` | `StatsInv`, `LidarInv`, `FilterInv` |
| `MotionProofs` | any circle, displacements, stage lengths, postures | `SumIsTheAngle`, `SuccessIsHonest`, `VelocityIsSound`; `SuccessIsWhereAsked`, `VelocityLeadsToTarget`; `MismatchIsHarmless`, `TypeIsKnownSoon`; `OnlyBlindLeavesActive`, `TargetsAreSmooth` | `RotateInv`, `MoveInv`, `AnkleInv`, `ReleaseInv`, `StagesInv` |
| `ProgramsProofs` | any workers, names, uploads, buffers, clients, throttle, swing, time-outs | `ModeCheckIsSound`, `OneMessageConnects`; `UndisturbedStopHolds`; `UndisturbedUploadPlayedWhole`; `SentToCurrentClient`, `DatagramsKeepRate`; `RotationSweeps` | `SubscriptionInv`, `RemoteInv`, `AudioInv`, `UdpInv`, `HandInv` |
| `ModularArithmetic` | - | lemmas on `%` and `\div` that the numbers of the packets, the circle and the shares need | - |

Why the invariants are what they are:

* **BlockQueue.** `NoLostWakeup` is about cardinalities: a `Put` adds an item and wakes a sleeper; a woken
  consumer takes an item or finds none. A Get that times out takes nothing and was not counted as woken, so
  the number of woken consumers never falls below the number of items while somebody sleeps.
* **The refinement.** `ListenerInv` says what ties a message's places together: the count of the queue is true
  (`Counted`), the queue thread holds a message exactly while it runs the handler (`HeldInCallback`), without a queue
  nothing is queued and there is no thread (`NothingQueued`), the samples DDS still has are the latest arrivals
  (`Latest`, `NoneBeforeFirst`), and the time stamp is that of the sample in hand or of an earlier one
  (`StampedOnce`). Under it every action is mapped to `ChannelStep`: `Stamp` is `Accept`, an `Enqueue` into a full
  queue is `Lose` of the oldest, the call of the handler is `Deliver`, all else stutters. Losing is allowed because
  the message just stamped is pending already: with it, `queueLen` newer ones wait behind the one lost.
* **RealTimePublisher.** A message on the wire was copied and filled several steps earlier, so the invariant says
  who is inside the mutex, that `msg_` is whole unless its holder is half-way, that the copy awaiting its write
  is sealed, and it accounts for the hand-overs between: `sent`, plus one awaiting its copy, plus one awaiting
  its write, is at most `handovers`.
* **RobotController.** The invariant follows a command from the interface through `cmd` to the wire: what it may
  be at each place of the control thread, given the mode, and how the ratio is tied to the gains last commanded.
* **CallbackStats.** A thread about to exchange the time found its own a period after the one it loaded; the
  compare-exchange makes the loaded one the current one.
* **LidarPackets.** What is not yet in a packet lies behind the offset (`Progress`), packets do not overlap and end
  before the offset (`InOrder`), and no item before it was left out (`Covered`). For the losses the invariant is the
  modular equation itself, as long as `mixed` is false; `ModularArithmetic` carries it over the wrap.
* **FilteredPackets.** What was looked at is in a packet or in the buffer, whose points come after those sent
  (`Buffered`); the packets are in order and numbered up to `seq_id` (`SentInOrder`). The order is stated with indices
  rather than with a filter over sequences, whose meaning would need induction.
* **RotateCommand.** `AngleIsTrue` says nothing of the yaws and is not inductive; `Tracked` adds that robot,
  received state and last look are the true angle apart, up to one turn, from which the wrapped difference is
  the true one, because of `TurnAssumption`.
* **MoveCommand.** `TargetAsAsked`: the target is as far from where the robot was at the start as was asked for, up to
  what it moved while the start was read. A velocity is compared with the target after turning it into the robot's
  frame and back, for each of the headings.
* **AnkleSwing.** `InStep`: the stored mode is that of the time, and the stored command at most one step behind.
  `DraftInStep`: the mode a writer has read is that of the time it read it at, at most `MaxOvertake` steps ago. That
  such a difference falls near the zero of both swings is arithmetic, for which a stage must last for whole half
  periods. `TypeKnown`: until the first state is handled the time is at most `MaxOvertake`, and so it was when a writer
  read that the type is unknown; what it then writes is at most as many steps younger.
* **StandUp.** `Remembered`: the loop goes on only with a name, and the wrapper keeps it, so that only its first check
  can be blind. `StagesInv`: a stage is begun when the one before it is over (`InTurn`), the target last written is
  where the steps made so far lead the joint (`Led`), and the joint is within `Drift` of the last message.
* **Subscription.** The message that ended the wait may still be in the handler when the connection is seen;
  `Settling` bounds what the handler has left by what is left of the last sleep. `HeardRecently` bounds the age of
  a message that came since the last look by the part of the sleep that has passed.
* **RemoteControl.** While a stop is handled undisturbed no worker handles a motion request, and the robot is at rest
  once the call has succeeded (`UndisturbedStops`); after its answer both still hold (`QuietIsStill`).
* **AudioUpload.** Two requests that use one name know of each other (`SharersDisturbed`), so the file of an
  undisturbed one is its own upload from a complete `Save` on (`FileKept`), and the loop stands between two frames
  and has played all that it has read (`PlayedSoFar`): that a buffer of whole frames keeps it so, and that the last
  one is cut to the last whole frame of the upload, is modular arithmetic.
* **UdpForwarder.** Who holds the mutex is where it is held (`MutexHeld`); clients are heard, copied and announced
  one at a time (`OneAtATime`); `HalvesWritten` and `HalvesRead` say whose the halves of the address are at each
  place of either thread; `client_ready` stays true from the first client on (`Announced`). For the rate, `Paid`: the
  time since the last datagram is paid for, and that of a pending one too.
* **DexHand.** The count stays within the swing, is about to turn at its ends, and is one step from the command written
  last.

The assumptions are about units and about the numbers in the code. Packets have room for one item
(`LivoxAssumption`). The robot turns less than half a turn between looks (`TurnAssumption`). Positions in `StandUp`
are counted in a unit in which each stage's step is whole, which exists for any rational postures
(`StandAssumption`). A stage of the ankle swing lasts for whole half periods, as 3 s of 0.5 s do, and its control
thread makes a bounded number of steps during one write or one state handler, which run as often as it does
(`AnkleAssumption`). Time-outs are not shorter than a poll and the handler copies within the last sleep
(`SubscriptionAssumption`). TLC evaluates every one of them in the passing runs.

`TypeCorrect` (BlockQueue), `StopWins`, `LogTimeMovesOn` and `VelocityIsSound` are proved and not repeated as runs:
they are steps of the other proofs, or too close to the code for a run to tell more.

Only model-checked: the liveness properties, since fairness and `ENABLED` are outside the prover's reach:
`ServedWhileAsleep`, `QueuedMessageLeaves`, `JoinReturns`, `RealtimeHandoverPublished`, `DestructorReturns`,
`FallEndsCtrl`, `StopReachesWire`, `ClientServed`, `EveryRequestAnswered` and `StopReachesHand`; and the violations
under "Findings", which are counterexamples.

## 5. Not modelled, and why

Of the repository's lines nearly all are not the program's own logic: Asio and Crow (`include/asio`,
`include/crow`), CycloneDDS and the DDS C++ API (`thirdparty`), and message types written by the IDL compiler
(`include/unitree/idl`). Their share of the source is what keeps the share of mapped lines small; there is
nothing of this repository in them to model. Of the rest:

* Requests, services, leases, thread pool and log: the repository holds declarations; the code is in the
  prebuilt library.
* Robot clients: one request per method, no state; the services are on the robot.
* Topics, channels and writers: each operation is an assignment of a pointer around DDS or `DdsReader`.
* The examples of the other robots repeat `StandUp`, `AnkleSwing` or a sequence of client calls with other
  numbers; the examples of single clients make calls in a row.
* The joystick's smoothing: a filter over reals in one thread.
* The camera and start-up scripts: capture and encoding in a pipeline outside the repository.
* The IMU callback of the full service is the packet loop again, with its own buffer and numbers.
* Logging, statistics output, JSON and message layouts, QoS settings: no effect on the properties.
* The contents of clouds and states: an item is its index, a state a stamp.
* The unlocked copy of the client's address in the two Livox services is a data race in C++, whose outcome
  depends on the build. It is a hazard with a note.

## 6. Plan

1. Safety cores of the liveness properties: the steps that a fair schedule has to take are bounded by measures that
   could be proved to decrease (the ramp and the stop of `RobotController`, the loop of `RealTimePublisher`, a
   request of `RemoteControl`), which leaves only the fairness argument to TLC.
2. The exact condition under which the interrupt of `~DdsReaderListener` is not lost, as an invariant of
   `ReaderListener`.
3. That a state is written before it is announced, in the control framework's two halves of the joints.
