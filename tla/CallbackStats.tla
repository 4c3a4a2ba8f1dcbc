--------------------------- MODULE CallbackStats ----------------------------
(***************************************************************************)
(* The statistics at the head of PointCloudCallback in                     *)
(* example/go2/typego_livox_full_service.cpp: every call is counted, and a *)
(* call that finds the last log a second old writes the count and starts   *)
(* it anew.  The callback may be run by several threads; the counter and   *)
(* the time of the last log are atomics, and nothing else protects them.   *)
(***************************************************************************)
EXTENDS Integers

CONSTANTS
  Threads,    \* the threads of the lidar's library that call back
  LogPeriod,  \* the 1000 ms between two logs
  MaxCount,   \* bound: how many calls are counted between two logs
  MaxTime     \* bound: how long the service is observed

ASSUME PeriodAssumption == LogPeriod \in Nat \ {0}
ASSUME BoundAssumption == MaxCount \in Nat /\ MaxTime \in Nat

VARIABLES
  pointcloud_callback_count,
  last_log_time,
  clock,
  thread,      \* where each thread is
  log_now,     \* of each thread
  last_log,    \* of each thread
  unlogged,    \* history: calls counted less calls written to the log
  logs         \* history: how often the log was written

vars == <<pointcloud_callback_count, last_log_time, clock, thread, log_now, last_log,
          unlogged, logs>>

Init ==
  /\ pointcloud_callback_count = 0
  /\ last_log_time = 0
  /\ clock = 0
  /\ thread = [t \in Threads |-> "idle"]
  /\ log_now = [t \in Threads |-> 0]
  /\ last_log = [t \in Threads |-> 0]
  /\ unlogged = 0
  /\ logs = 0

\* ++pointcloud_callback_count
Count(t) ==
  /\ thread[t] = "idle"
  /\ pointcloud_callback_count < MaxCount
  /\ pointcloud_callback_count' = pointcloud_callback_count + 1
  /\ unlogged' = unlogged + 1
  /\ thread' = [thread EXCEPT ![t] = "now"]
  /\ UNCHANGED <<last_log_time, clock, log_now, last_log, logs>>

ReadClock(t) ==
  /\ thread[t] = "now"
  /\ log_now' = [log_now EXCEPT ![t] = clock]
  /\ thread' = [thread EXCEPT ![t] = "load"]
  /\ UNCHANGED <<pointcloud_callback_count, last_log_time, clock, last_log, unlogged, logs>>

\* last_log_time.load(); elapsed is negative if another thread logged since.
LoadLast(t) ==
  /\ thread[t] = "load"
  /\ last_log' = [last_log EXCEPT ![t] = last_log_time]
  /\ thread' = [thread EXCEPT ![t] = IF log_now[t] - last_log_time >= LogPeriod
                                     THEN "exchange" ELSE "idle"]
  /\ UNCHANGED <<pointcloud_callback_count, last_log_time, clock, log_now, unlogged, logs>>

\* Mutation of CompareExchange: the time is stored without comparing.
StoreTime(t) ==
  /\ thread[t] = "exchange"
  /\ last_log_time' = log_now[t]
  /\ logs' = logs + 1
  /\ thread' = [thread EXCEPT ![t] = "reset"]
  /\ UNCHANGED <<pointcloud_callback_count, clock, log_now, last_log, unlogged>>

CompareExchange(t) ==
  /\ thread[t] = "exchange"
  /\ last_log_time = last_log[t]
  /\ last_log_time' = log_now[t]
  /\ logs' = logs + 1
  /\ thread' = [thread EXCEPT ![t] = "reset"]
  /\ UNCHANGED <<pointcloud_callback_count, clock, log_now, last_log, unlogged>>

\* Another thread was faster, or compare_exchange_weak fails for no reason;
\* last_log is loaded again and not used any more.
CompareExchangeFails(t) ==
  /\ thread[t] = "exchange"
  /\ last_log' = [last_log EXCEPT ![t] = last_log_time]
  /\ thread' = [thread EXCEPT ![t] = "idle"]
  /\ UNCHANGED <<pointcloud_callback_count, last_log_time, clock, log_now, unlogged, logs>>

\* Mutation of ExchangeCount: the counter is read and not reset.
ReadCount(t) ==
  /\ thread[t] = "reset"
  /\ unlogged' = unlogged - pointcloud_callback_count
  /\ thread' = [thread EXCEPT ![t] = "idle"]
  /\ UNCHANGED <<pointcloud_callback_count, last_log_time, clock, log_now, last_log, logs>>

\* pointcloud_callback_count.exchange(0), and the count is printed.
ExchangeCount(t) ==
  /\ thread[t] = "reset"
  /\ unlogged' = unlogged - pointcloud_callback_count
  /\ pointcloud_callback_count' = 0
  /\ thread' = [thread EXCEPT ![t] = "idle"]
  /\ UNCHANGED <<last_log_time, clock, log_now, last_log, logs>>

Tick ==
  /\ clock < MaxTime
  /\ clock' = clock + 1
  /\ UNCHANGED <<pointcloud_callback_count, last_log_time, thread, log_now, last_log,
                 unlogged, logs>>

\* The observation ends.
Done == clock = MaxTime /\ UNCHANGED vars

Next ==
  \/ Tick
  \/ Done
  \/ \E t \in Threads :
       \/ Count(t) \/ ReadClock(t) \/ LoadLast(t)
       \/ CompareExchange(t) \/ CompareExchangeFails(t) \/ ExchangeCount(t)

Spec == Init /\ [][Next]_vars

-----------------------------------------------------------------------------
(* Properties.                                                             *)

\* The variables keep their types.
TypeOK ==
  /\ pointcloud_callback_count \in Nat
  /\ last_log_time \in Nat /\ clock \in Nat
  /\ thread \in [Threads -> {"idle", "now", "load", "exchange", "reset"}]
  /\ log_now \in [Threads -> Nat] /\ last_log \in [Threads -> Nat]
  /\ unlogged \in Int
  /\ logs \in Nat

\* "Get and reset counter atomically": no call is lost and none is logged
\* twice, although other threads count between the two exchanges of a log.
NoCallLost == unlogged = pointcloud_callback_count

\* "only one thread will succeed": threads that find the same log too old at
\* the same time write it once; the n-th log is not written before n periods.
OneLogPerPeriod == logs * LogPeriod <= last_log_time

\* The time of the last log only moves forward, by a whole period at least,
\* although each thread took its time before it looked at the last log's.
LogTimeAdvances ==
  [][last_log_time' # last_log_time => last_log_time' >= last_log_time + LogPeriod]_vars

=============================================================================
