-------------------------------- MODULE Alarm --------------------------------
(***************************************************************************)
(* Alarm timers, drivers/rtc/alarm.c with drivers/rtc/hctosys.c: one queue *)
(* of alarms and one hrtimer per type of alarm; the elapsed realtime clock *)
(* is the wall clock less a delta that every setting of the wall clock has *)
(* to correct; in suspend the RTC stands in for the timers of the wakeup   *)
(* types.  Steps that hold the spinlock alarm_slock, and timer interrupts, *)
(* are atomic (one CPU); the setting of the wall clock, the suspend hook   *)
(* and alarm_set_rtc are not.                                              *)
(*                                                                         *)
(* A unit of time is longer than any of these calls takes, so no clock     *)
(* moves while one is under way.  alarm_start_range is called with equal   *)
(* bounds, as alarm-dev.c does.  The RTC keeps the wall clock's pace.      *)
(***************************************************************************)
EXTENDS Integers, Sequences, FiniteSets, SequencesExt

CONSTANTS
  Alarms,          \* the struct alarms
  Type,            \* alarm->type
  Times,           \* expiry times and wall times that are set
  MaxElapsed,      \* bound on the time that passes
  MaxDelta,        \* bound on the size of the delta
  SetFails,        \* may do_settimeofday refuse a time (tv_nsec out of range)?
  AutoTime,        \* does user space ask for the time of the network?
  TodInSuspend,    \* may the modem's update come between suspend and sleep?
  SlowSuspend,     \* may a suspend outlast the second of the RTC's lock?
  JumpLimit        \* the 10000 hours of alarm_resume

RTC_WAKEUP == "RTC_WAKEUP"
RTC == "RTC"
ELAPSED_REALTIME_WAKEUP == "ELAPSED_REALTIME_WAKEUP"
ELAPSED_REALTIME == "ELAPSED_REALTIME"
SYSTEMTIME == "SYSTEMTIME"
WallTypes == {RTC_WAKEUP, RTC}
ElapsedTypes == {ELAPSED_REALTIME_WAKEUP, ELAPSED_REALTIME}
Types == WallTypes \cup ElapsedTypes \cup {SYSTEMTIME}
StoppedTypes == WallTypes \cup ElapsedTypes
WakeupTypes == {RTC_WAKEUP, ELAPSED_REALTIME_WAKEUP}

AlarmAssumption ==
  /\ Type \in [Alarms -> Types]
  /\ Times \subseteq Nat
  /\ MaxElapsed \in Nat /\ MaxDelta \in Nat /\ JumpLimit \in Nat
  /\ {SetFails, AutoTime, TodInSuspend, SlowSuspend} \subseteq BOOLEAN

NoTime == [set |-> FALSE, at |-> 0]
NoSetting == [pc |-> "idle", new |-> 0, by |-> "nobody", old |-> 0]

VARIABLES
  wall, mono, rtc,      \* CLOCK_REALTIME, CLOCK_MONOTONIC, the RTC
  elapsed,              \* the time since boot, sleep included
  delta,                \* alarms[].delta of both elapsed types
  stopped,              \* of the four types on the wall clock
  queue,                \* of each type: alarms in the order of their expiry
  timer,                \* each hrtimer: is it queued, and _expires
  suspended,
  rtc_lock,             \* alarm_rtc_wake_lock: "free", "held" or "timed"
  pm,                   \* "on", "hctosys", "suspend", "suspended", "asleep", "waking"
  setting,              \* the holder of alarm_setrtc_mutex and its progress
  IS_SYNC_NETWORK,
  rtc_alarm,            \* the alarm of the RTC, in its own time
  rtc_suspend_time,
  ALARM_PWR_STATUS      \* 0 in suspend

clocks == <<wall, mono, rtc, elapsed>>
queues == <<delta, stopped, queue, timer>>
pmVars == <<suspended, pm, rtc_alarm, rtc_suspend_time, ALARM_PWR_STATUS>>
alarmVars == <<clocks, queues, pmVars, rtc_lock, setting, IS_SYNC_NETWORK>>

-----------------------------------------------------------------------------
DeltaOf(t, d) == IF t \in ElapsedTypes THEN d ELSE 0

Clock(t) == IF t = SYSTEMTIME THEN mono ELSE wall

\* The time of a type's clock as the driver reads it; stopped_time is the
\* wall time at which the setting began.
Now(t) == (IF stopped /\ t # SYSTEMTIME THEN setting.old ELSE Clock(t)) - DeltaOf(t, delta)

alarm_get_elapsed_realtime == Now(ELAPSED_REALTIME)

\* update_timer_locked in two parts: what becomes of the type's hrtimer ...
Skipped(t, q, st, susp) ==
  (st /\ t # SYSTEMTIME) \/ q[t] = <<>> \/ (t \in WakeupTypes /\ susp)

TimerAfter(t, old, q, d, st, susp) ==
  IF Skipped(t, q, st, susp) THEN old
  ELSE [set |-> TRUE, at |-> DeltaOf(t, d) + Head(q[t]).expires]

\* ... and of the wake lock.
LockAfter(t, q, st, susp, head_removed) ==
  CASE st /\ t # SYSTEMTIME                          -> rtc_lock
    [] t \in WakeupTypes /\ susp /\ q[t] # <<>>      -> "timed"
    [] t \in WakeupTypes /\ ~ susp /\ head_removed   -> "free"
    [] OTHER                                         -> rtc_lock

\* The lock after update_timer_locked(t, false) for all t of T.
LockAfterAll(T, q, susp) ==
  IF susp /\ \E t \in T \cap WakeupTypes : q[t] # <<>> THEN "timed" ELSE rtc_lock

-----------------------------------------------------------------------------
\* rb_erase, of an alarm that is in the queue.
Without(q, a) ==
  IF \E i \in DOMAIN q : q[i].alarm = a
  THEN RemoveAt(q, CHOOSE i \in DOMAIN q : q[i].alarm = a)
  ELSE q

\* The place of the first alarm after a time, or behind the last one.
FirstAfter(q, time) ==
  CHOOSE i \in 1 .. Len(q) + 1 :
    /\ \A j \in 1 .. i - 1 : q[j].expires <= time
    /\ i <= Len(q) => q[i].expires > time

\* Nodes with the same expiry time stay together, the new one last.
Place(q, e) == InsertAt(q, FirstAfter(q, e.expires), e)

\* Mutant of alarm_start: the timer is set only for the first alarm.
alarm_start_once(a, expires) ==
  /\ pm # "asleep"
  /\ LET t == Type[a]
         old == Without(queue[t], a)
         q == [queue EXCEPT ![t] = Place(old, [alarm |-> a, expires |-> expires])]
     IN  /\ queue' = q
         /\ IF old = <<>>
              THEN /\ timer' = [timer EXCEPT ![t] = TimerAfter(t, @, q, delta, stopped, suspended)]
                   /\ rtc_lock' = LockAfter(t, q, stopped, suspended, FALSE)
              ELSE UNCHANGED <<timer, rtc_lock>>
  /\ UNCHANGED <<clocks, delta, stopped, pmVars, setting, IS_SYNC_NETWORK>>

\* alarm_start_range: only an alarm that becomes the first sets the timer.
alarm_start(a, expires) ==
  /\ pm # "asleep"
  /\ LET t == Type[a]
         q == [queue EXCEPT ![t] =
                 Place(Without(@, a), [alarm |-> a, expires |-> expires])]
     IN  /\ queue' = q
         /\ IF Head(q[t]).alarm = a
              THEN /\ timer' = [timer EXCEPT ![t] = TimerAfter(t, @, q, delta, stopped, suspended)]
                   /\ rtc_lock' = LockAfter(t, q, stopped, suspended, FALSE)
              ELSE UNCHANGED <<timer, rtc_lock>>
  /\ UNCHANGED <<clocks, delta, stopped, pmVars, setting, IS_SYNC_NETWORK>>

alarm_try_to_cancel(a) ==
  /\ pm # "asleep"
  /\ LET t == Type[a]
         q == [queue EXCEPT ![t] = Without(@, a)]
     IN  /\ q # queue
         /\ queue' = q
         /\ IF Head(queue[t]).alarm = a
              THEN /\ timer' = [timer EXCEPT ![t] = TimerAfter(t, @, q, delta, stopped, suspended)]
                   /\ rtc_lock' = LockAfter(t, q, stopped, suspended, TRUE)
              ELSE UNCHANGED <<timer, rtc_lock>>
  /\ UNCHANGED <<clocks, delta, stopped, pmVars, setting, IS_SYNC_NETWORK>>

\* The hrtimer of a type expires: all alarms that are due are called.
alarm_timer_triggered(t) ==
  /\ pm # "asleep"
  /\ timer[t].set /\ timer[t].at <= Clock(t)
  /\ LET q == [queue EXCEPT ![t] = SubSeq(@, FirstAfter(@, Now(t)), Len(@))]
     IN  /\ queue' = q
         /\ timer' = [timer EXCEPT ![t] =
                        TimerAfter(t, [@ EXCEPT !.set = FALSE], q, delta, stopped, suspended)]
         /\ rtc_lock' = LockAfter(t, q, stopped, suspended, TRUE)
  /\ UNCHANGED <<clocks, delta, stopped, pmVars, setting, IS_SYNC_NETWORK>>

-----------------------------------------------------------------------------
(***************************************************************************)
(* Setting the wall clock: alarm_set_rtc and its copy cci_alarm_set_rtc    *)
(* that rtc_hctosys calls.  The timers are stopped and the delta changes,  *)
(* the clock is set, the timers start again, the RTC is set.               *)
(***************************************************************************)
\* Mutant of StopQueues: the delta stays.
StopQueues_no_delta(new, by) ==
  /\ setting' = [pc |-> "stopped", new |-> new, by |-> by, old |-> wall]
  /\ rtc_lock' = "held"
  /\ stopped' = TRUE
  /\ timer' = [t \in Types |-> IF t = SYSTEMTIME THEN timer[t]
                               ELSE [timer[t] EXCEPT !.set = FALSE]]
  /\ UNCHANGED delta

StopQueues(new, by) ==
  /\ setting' = [pc |-> "stopped", new |-> new, by |-> by, old |-> wall]
  /\ rtc_lock' = "held"
  /\ stopped' = TRUE
  /\ timer' = [t \in Types |-> IF t = SYSTEMTIME THEN timer[t]
                               ELSE [timer[t] EXCEPT !.set = FALSE]]
  /\ delta' = delta - (wall - new)

\* The bound on the delta a setting to the time new leaves.
Bounded(new) == delta - (wall - new) \in -MaxDelta..MaxDelta

alarm_set_rtc(new) ==
  /\ pm = "on" /\ setting = NoSetting /\ Bounded(new)
  /\ StopQueues(new, "user")
  /\ UNCHANGED <<clocks, queue, pmVars, IS_SYNC_NETWORK>>

do_settimeofday(fails) ==
  /\ setting.pc = "stopped"
  /\ setting' = [setting EXCEPT !.pc = IF fails THEN "failed" ELSE "set"]
  /\ wall' = IF fails THEN wall ELSE setting.new
  /\ UNCHANGED <<mono, rtc, elapsed, queues, pmVars, rtc_lock, IS_SYNC_NETWORK>>

\* Mutant of restart_queues: a timer that was set is left alone.
restart_queues_set ==
  /\ setting.pc \in {"set", "failed"}
  /\ stopped' = FALSE
  /\ rtc_lock' = LockAfterAll(StoppedTypes, queue, suspended)
  /\ setting' = [setting EXCEPT !.pc = IF @ = "set" THEN "rtc" ELSE "err"]
  /\ UNCHANGED <<clocks, delta, queue, timer, pmVars, IS_SYNC_NETWORK>>

restart_queues ==
  /\ setting.pc \in {"set", "failed"}
  /\ stopped' = FALSE
  /\ timer' = [t \in Types |-> IF t = SYSTEMTIME THEN timer[t]
                               ELSE TimerAfter(t, timer[t], queue, delta, FALSE, suspended)]
  /\ rtc_lock' = LockAfterAll(StoppedTypes, queue, suspended)
  /\ setting' = [setting EXCEPT !.pc = IF @ = "set" THEN "rtc" ELSE "err"]
  /\ UNCHANGED <<clocks, delta, queue, pmVars, IS_SYNC_NETWORK>>

\* The end: rtc_set_time, which may fail, unless the clock was not set;
\* wake_unlock, and what the caller of rtc_hctosys does next.
set_rtc_end(fails) ==
  /\ setting.pc \in {"rtc", "err"}
  /\ rtc' = IF setting.pc = "rtc" /\ ~ fails THEN setting.new ELSE rtc
  /\ rtc_lock' = "free"
  /\ setting' = NoSetting
  /\ pm' = IF setting.by = "suspend" THEN "suspend" ELSE pm
  /\ IS_SYNC_NETWORK' = (IS_SYNC_NETWORK \/ setting.by = "auto")
  /\ UNCHANGED <<wall, mono, elapsed, queues, suspended, rtc_alarm,
                 rtc_suspend_time, ALARM_PWR_STATUS>>

(***************************************************************************)
(* rtc_hctosys sets the wall clock from the RTC; once IS_SYNC_NETWORK is   *)
(* set it does so without a word to the alarms.                            *)
(***************************************************************************)
rtc_hctosys(by) ==
  IF ~ IS_SYNC_NETWORK
  THEN StopQueues(rtc, by) /\ UNCHANGED wall
  ELSE /\ wall' = rtc
       /\ setting' = IF by = "auto" THEN [pc |-> "auto", new |-> rtc, by |-> by, old |-> wall]
                     ELSE NoSetting
       /\ UNCHANGED <<delta, stopped, timer, rtc_lock>>

\* EVENT_TOD_CHANGE: the modem has another time of day for the RTC.
tod_update(now) ==
  /\ pm = "on" \/ (TodInSuspend /\ pm = "suspended")
  /\ setting = NoSetting /\ Bounded(now)
  /\ rtc' = now
  /\ IF ~ IS_SYNC_NETWORK
       THEN StopQueues(now, "tod") /\ UNCHANGED wall
       ELSE wall' = now /\ UNCHANGED <<setting, delta, stopped, timer, rtc_lock>>
  /\ UNCHANGED <<mono, elapsed, queue, pmVars, IS_SYNC_NETWORK>>

\* alarm_set_rtc with 1 for a time: from manual to automatic.
set_auto ==
  /\ AutoTime /\ pm = "on" /\ setting = NoSetting /\ Bounded(rtc)
  /\ rtc_hctosys("auto")
  /\ UNCHANGED <<mono, rtc, elapsed, queue, pmVars, IS_SYNC_NETWORK>>

\* update_elapsed_rtc corrects the delta after the fact and no timer.
update_elapsed_rtc(old, status) ==
  delta' = IF status = 0 THEN delta ELSE wall - (old - delta)

set_auto_update ==
  /\ setting.pc = "auto"
  /\ update_elapsed_rtc(setting.old, ALARM_PWR_STATUS)
  /\ setting' = NoSetting
  /\ UNCHANGED <<clocks, stopped, queue, timer, pmVars, rtc_lock, IS_SYNC_NETWORK>>

\* alarm_set_rtc with 2 for a time: from automatic to manual.
set_manual ==
  /\ AutoTime /\ pm = "on" /\ setting = NoSetting
  /\ rtc' = wall
  /\ UNCHANGED <<wall, mono, elapsed, queues, pmVars, rtc_lock, setting, IS_SYNC_NETWORK>>

-----------------------------------------------------------------------------
(***************************************************************************)
(* System suspend and resume.  User space is frozen, kernel threads that   *)
(* set alarms are not.                                                     *)
(***************************************************************************)
alarm_suspend ==
  /\ pm = "on" /\ setting = NoSetting /\ rtc_lock = "free" /\ Bounded(rtc)
  /\ rtc_hctosys("suspend")
  /\ pm' = IF IS_SYNC_NETWORK THEN "suspend" ELSE "hctosys"
  /\ UNCHANGED <<mono, rtc, elapsed, queue, suspended, rtc_alarm, rtc_suspend_time,
                 ALARM_PWR_STATUS, IS_SYNC_NETWORK>>

\* Two timers are cancelled.  The second is alarms[4], for the index is the
\* mask ANDROID_ALARM_ELAPSED_REALTIME_WAKEUP_MASK.
Cancelled == {RTC_WAKEUP, SYSTEMTIME}

alarm_suspend_stop ==
  /\ pm = "suspend"
  /\ pm' = "suspend_rtc"
  /\ ALARM_PWR_STATUS' = 0
  /\ rtc_suspend_time' = IF IS_SYNC_NETWORK THEN rtc_suspend_time ELSE wall
  /\ suspended' = TRUE
  /\ timer' = [t \in Types |-> [timer[t] EXCEPT !.set = @ /\ t \notin Cancelled]]
  /\ UNCHANGED <<clocks, delta, stopped, queue, rtc_alarm, rtc_lock,
                 setting, IS_SYNC_NETWORK>>

\* The queue whose timer is first, with RTC_WAKEUP before the other.
WakeupQueues == {t \in WakeupTypes : queue[t] # <<>>}

\* Mutant of wakeup_queue: the RTC queue goes before the other.
wakeup_queue_rtc ==
  IF RTC_WAKEUP \in WakeupQueues THEN RTC_WAKEUP ELSE ELAPSED_REALTIME_WAKEUP

wakeup_queue ==
  IF /\ ELAPSED_REALTIME_WAKEUP \in WakeupQueues
     /\ RTC_WAKEUP \in WakeupQueues =>
          timer[ELAPSED_REALTIME_WAKEUP].at < timer[RTC_WAKEUP].at
  THEN ELAPSED_REALTIME_WAKEUP ELSE RTC_WAKEUP

\* Mutant of RestartWakeups: only the elapsed queue's timer is set.
RestartWakeups_elapsed(d) ==
  timer' = [t \in Types |-> IF t = ELAPSED_REALTIME_WAKEUP
                            THEN TimerAfter(t, timer[t], queue, d, stopped, FALSE)
                            ELSE timer[t]]

\* update_timer_locked for both wakeup types once suspended is false.
RestartWakeups(d) ==
  timer' = [t \in Types |-> IF t \in WakeupTypes
                            THEN TimerAfter(t, timer[t], queue, d, stopped, FALSE)
                            ELSE timer[t]]

\* rtc_delta is wall - rtc.  An alarm that is about to go off refuses the
\* suspend; ALARM_PWR_STATUS stays as it is.
alarm_suspend_rtc ==
  /\ pm = "suspend_rtc"
  /\ LET rtc_alarm_time == timer[wakeup_queue].at - (wall - rtc) IN
     IF WakeupQueues # {} /\ rtc + 1 >= rtc_alarm_time
       THEN /\ pm' = "on" /\ suspended' = FALSE
            /\ rtc_alarm' = NoTime
            /\ rtc_lock' = "timed"
            /\ RestartWakeups(delta)
       ELSE /\ pm' = "suspended"
            /\ rtc_alarm' = IF WakeupQueues = {} THEN rtc_alarm
                            ELSE [set |-> TRUE, at |-> rtc_alarm_time]
            /\ UNCHANGED <<suspended, rtc_lock, timer>>
  /\ UNCHANGED <<clocks, delta, stopped, queue, rtc_suspend_time,
                 ALARM_PWR_STATUS, setting, IS_SYNC_NETWORK>>

\* suspend_late lets the system sleep if no wake lock is held.
sleep ==
  /\ pm = "suspended" /\ rtc_lock = "free" /\ setting = NoSetting
  /\ pm' = "asleep"
  /\ UNCHANGED <<clocks, queues, suspended, rtc_alarm, rtc_suspend_time, ALARM_PWR_STATUS,
                 rtc_lock, setting, IS_SYNC_NETWORK>>

\* The RTC's alarm, alarm_triggered_func, or another interrupt.
wakeup(by_rtc) ==
  /\ pm = "asleep"
  /\ by_rtc => rtc_alarm.set /\ rtc_alarm.at <= rtc
  /\ pm' = "waking"
  /\ rtc_lock' = IF by_rtc THEN "timed" ELSE rtc_lock
  /\ UNCHANGED <<clocks, queues, suspended, rtc_alarm, rtc_suspend_time, ALARM_PWR_STATUS,
                 setting, IS_SYNC_NETWORK>>

alarm_resume ==
  /\ pm \in {"suspended", "waking"} /\ setting = NoSetting
  /\ pm' = "on" /\ suspended' = FALSE
  /\ ALARM_PWR_STATUS' = 1
  /\ IF ~ IS_SYNC_NETWORK /\ wall - rtc_suspend_time > JumpLimit
       THEN update_elapsed_rtc(rtc_suspend_time, 1)
       ELSE UNCHANGED delta
  /\ delta' \in -MaxDelta..MaxDelta
  /\ rtc_alarm' = NoTime
  /\ RestartWakeups(delta')
  /\ UNCHANGED <<clocks, stopped, queue, rtc_suspend_time,
                 rtc_lock, setting, IS_SYNC_NETWORK>>

\* A second or two have passed.
rtc_lock_expires ==
  /\ rtc_lock = "timed" /\ (pm = "on" \/ SlowSuspend)
  /\ rtc_lock' = "free"
  /\ UNCHANGED <<clocks, queues, pmVars, setting, IS_SYNC_NETWORK>>

Tick ==
  /\ elapsed < MaxElapsed /\ setting = NoSetting
  /\ pm \in {"on", "asleep"}
  /\ wall' = wall + 1 /\ rtc' = rtc + 1 /\ elapsed' = elapsed + 1
  /\ mono' = IF pm = "asleep" THEN mono ELSE mono + 1
  /\ UNCHANGED <<queues, pmVars, rtc_lock, setting, IS_SYNC_NETWORK>>

-----------------------------------------------------------------------------
AlarmInit ==
  /\ wall \in Times /\ rtc = wall
  /\ mono = 0 /\ elapsed = 0
  /\ delta = wall
  /\ stopped = FALSE
  /\ queue = [t \in Types |-> <<>>]
  /\ timer = [t \in Types |-> NoTime]
  /\ suspended = FALSE /\ pm = "on" /\ rtc_alarm = NoTime
  /\ rtc_suspend_time = 0 /\ ALARM_PWR_STATUS = 1
  /\ rtc_lock = "free"
  /\ setting = NoSetting
  /\ IS_SYNC_NETWORK = FALSE

SettingStep ==
  \/ \E fails \in {FALSE, SetFails /\ setting.by = "user"} : do_settimeofday(fails)
  \/ restart_queues \/ set_auto_update
  \/ \E fails \in BOOLEAN : set_rtc_end(fails)

SuspendStep ==
  alarm_suspend_stop \/ alarm_suspend_rtc \/ alarm_resume

AlarmNext ==
  \/ \E a \in Alarms : alarm_try_to_cancel(a) \/ \E e \in Times : alarm_start(a, e)
  \/ \E t \in Types : alarm_timer_triggered(t)
  \/ \E new \in Times : alarm_set_rtc(new) \/ tod_update(new)
  \/ set_auto \/ set_manual
  \/ SettingStep
  \/ alarm_suspend \/ SuspendStep
  \/ sleep \/ \E by_rtc \in BOOLEAN : wakeup(by_rtc)
  \/ rtc_lock_expires \/ Tick

AlarmSpec == AlarmInit /\ [][AlarmNext]_alarmVars

\* Calls that were begun go on, the RTC wakes the system, and a timer that is
\* due raises its interrupt whenever it is set: a suspend that cancels it and
\* sets it again does not keep it off for ever.  (The timer of a type without
\* alarms is never set.)
AlarmFairness ==
  /\ WF_alarmVars(SettingStep) /\ WF_alarmVars(SuspendStep)
  /\ WF_alarmVars(wakeup(TRUE))
  /\ \A a \in Alarms : SF_alarmVars(alarm_timer_triggered(Type[a]))

AlarmLiveSpec == AlarmSpec /\ AlarmFairness

-----------------------------------------------------------------------------
\* The type's timer goes off no later than its first alarm is due.
Armed(t) ==
  queue[t] # <<>> /\ ~ (stopped /\ t # SYSTEMTIME) /\ ~ (suspended /\ t \in WakeupTypes)
    => timer[t].set /\ timer[t].at <= DeltaOf(t, delta) + Head(queue[t]).expires

(***************************************************************************)
(* No alarm is forgotten: outside the setting of the clock, and for wakeup *)
(* types outside suspend, the timer of a type with alarms is set, and not  *)
(* too late, whatever alarms were moved, cancelled or called before.       *)
(***************************************************************************)
TimersArmed == \A t \in Types : Armed(t)

(***************************************************************************)
(* The same for the alarms on the wall clock alone, also when the time is  *)
(* taken from the network and do_settimeofday fails.                       *)
(***************************************************************************)
WallTimersArmed == \A t \in WallTypes : Armed(t)

(***************************************************************************)
(* The elapsed realtime clock is "not disrupted when the wall time is      *)
(* set": but for the setting itself it shows the time since boot.          *)
(***************************************************************************)
ElapsedPreserved ==
  setting = NoSetting => alarm_get_elapsed_realtime = elapsed

(***************************************************************************)
(* "set rtc while preserving elapsed realtime": at every moment, the       *)
(* setting included, who asks for the elapsed realtime gets it.            *)
(***************************************************************************)
ElapsedAlwaysRead == alarm_get_elapsed_realtime = elapsed

(***************************************************************************)
(* "support for wakeup from suspend": a system that sleeps with a wakeup   *)
(* alarm in a queue is woken by the RTC when the alarm is due, or before.  *)
(***************************************************************************)
SleepHasWakeup ==
  pm = "asleep" =>
    \A t \in WakeupQueues :
      rtc_alarm.set /\ rtc_alarm.at <= DeltaOf(t, delta) + Head(queue[t]).expires - (wall - rtc)

\* All of it, on a system whose clock is set by settings that succeed, neither by
\* the network nor between suspend and sleep, that suspends in less than a second,
\* runs for less than the 10000 hours and has no alarm of the type SYSTEMTIME: what
\* README.md lists as broken otherwise.
Undisturbed ==
  /\ ~ SetFails /\ ~ AutoTime /\ ~ TodInSuspend /\ ~ SlowSuspend
  /\ MaxElapsed <= JumpLimit
  /\ \A a \in Alarms : Type[a] # SYSTEMTIME

AlarmsKept == TimersArmed /\ ElapsedPreserved /\ SleepHasWakeup

-----------------------------------------------------------------------------
Nodes == [alarm : Alarms, expires : Times]
Timers == [set : BOOLEAN, at : Int]
Settings == [pc : {"idle", "stopped", "set", "failed", "rtc", "err", "auto"}, new : Int,
             by : {"nobody", "user", "tod", "suspend", "auto"}, old : Int]

AlarmTypeOK ==
  /\ wall \in Int /\ mono \in Int /\ rtc \in Int /\ delta \in Int /\ rtc_suspend_time \in Int
  /\ elapsed \in 0 .. MaxElapsed
  /\ queue \in [Types -> Seq(Nodes)]
  /\ timer \in [Types -> Timers]
  /\ rtc_lock \in {"free", "held", "timed"} /\ rtc_alarm \in Timers
  /\ pm \in {"on", "hctosys", "suspend", "suspend_rtc", "suspended", "asleep", "waking"}
  /\ setting \in Settings
  /\ stopped \in BOOLEAN /\ suspended \in BOOLEAN /\ IS_SYNC_NETWORK \in BOOLEAN

\* The queues are in the order of expiry: what leaves one makes its first alarm
\* a later one.
Sorted(q) == \A i, j \in DOMAIN q : i <= j => q[i].expires <= q[j].expires

QueuesSorted == \A t \in Types : Sorted(queue[t])

WallInv == AlarmTypeOK /\ QueuesSorted /\ WallTimersArmed

\* A setting is under way on a system that is up, or as the first step of a
\* suspend, and until the clock is set the delta is ahead of it.
SettingInv ==
  /\ setting.pc \in {"idle", "stopped", "set", "rtc"} /\ setting.by # "auto" /\ ~ IS_SYNC_NETWORK
  /\ setting.pc = "idle" => setting = NoSetting
  /\ setting.pc # "idle" => pm = IF setting.by = "suspend" THEN "hctosys" ELSE "on"
  /\ stopped = (setting.pc \in {"stopped", "set"})
  /\ elapsed = (IF setting.pc = "stopped" THEN setting.new ELSE wall) - delta

\* The time for which the timer of a type was last set, by the clock of the type.
NotLate(t) == timer[t].at <= DeltaOf(t, delta) + Head(queue[t]).expires

\* In suspend the timers of the wakeup types stay as they were set, and what would
\* make one of them too late takes the wake lock, which keeps the system from
\* sleeping.
SuspendInv ==
  /\ suspended = (pm \in {"suspend_rtc", "suspended", "asleep", "waking"})
  /\ suspended => wall - rtc_suspend_time <= elapsed
  /\ suspended /\ rtc_lock # "timed" => \A t \in WakeupQueues : NotLate(t)
  /\ pm = "asleep" => rtc_lock = "free"
  /\ pm \in {"suspended", "asleep"} /\ rtc_lock # "timed" =>
       \A t \in WakeupQueues :
         rtc_alarm.set /\ rtc_alarm.at <= DeltaOf(t, delta) + Head(queue[t]).expires - (wall - rtc)

AlarmInv ==
  /\ AlarmTypeOK /\ QueuesSorted /\ queue[SYSTEMTIME] = <<>>
  /\ TimersArmed /\ SettingInv /\ SuspendInv

Due(a) ==
  \E i \in DOMAIN queue[Type[a]] :
    queue[Type[a]][i].alarm = a /\ queue[Type[a]][i].expires <= Now(Type[a])

(***************************************************************************)
(* A wakeup alarm that is due is called, cancelled or moved: neither sleep *)
(* nor refused suspends nor settings of the clock make it wait for ever.   *)
(***************************************************************************)
DueAlarmsCalled ==
  \A a \in Alarms : Type[a] \in WakeupTypes => (Due(a) ~> ~ Due(a))

=============================================================================
