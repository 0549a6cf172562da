------------------------------- MODULE AlarmDev ------------------------------
(***************************************************************************)
(* The device /dev/alarm, drivers/rtc/alarm-dev.c: the first file to use   *)
(* it owns the alarms; its threads set, clear and wait for them; any file  *)
(* may set the time.  A section under alarm_slock is one step.  The wake   *)
(* lock keeps the system awake from an alarm to the next wait of user      *)
(* space, five seconds at most.                                            *)
(*                                                                         *)
(* The phone has one CPU: from the queue of alarm.c to alarm_triggered an  *)
(* alarm goes in one interrupt, so in one step.                            *)
(***************************************************************************)
EXTENDS Naturals, FiniteSets

CONSTANTS
  Threads,     \* threads that call ioctl on the owner's file
  TypeCount    \* ANDROID_ALARM_TYPE_COUNT

AlarmDevAssumption == TypeCount \in Nat \ {0}

DevTypes == 0 .. TypeCount - 1

TIME_CHANGE == TypeCount

VARIABLES
  alarm_opened,    \* a file owns the device
  alarm_pending, alarm_enabled, wait_pending,
  queued,          \* the alarms in the queues of alarm.c
  alarm_wake_lock, \* "free", "timed", or "expired" after its five seconds
  pc,              \* of each thread: "idle", "asleep", "awake" or "take" in the
                   \* wait, "handling" from an alarm to its next wait
  releasing, i     \* the step of alarm_release, "no" outside; its loop index

devVars == <<alarm_opened, alarm_pending, alarm_enabled, wait_pending, queued,
             alarm_wake_lock, pc, releasing, i>>

-----------------------------------------------------------------------------
MayCall(t) == alarm_opened /\ releasing = "no" /\ pc[t] \in {"idle", "handling"}

WakeWaiters == pc' = [t \in Threads |-> IF pc[t] = "asleep" THEN "awake" ELSE pc[t]]

\* The first call that may change alarms takes the device for its file; the
\* calls of other files return -EBUSY.
alarm_ioctl_open ==
  /\ ~ alarm_opened
  /\ alarm_opened' = TRUE
  /\ UNCHANGED <<alarm_pending, alarm_enabled, wait_pending, queued, alarm_wake_lock,
                 pc, releasing, i>>

ANDROID_ALARM_CLEAR(t, type) ==
  /\ MayCall(t)
  /\ queued' = queued \ {type}
  /\ alarm_enabled' = alarm_enabled \ {type}
  /\ alarm_pending' = alarm_pending \ {type}
  /\ alarm_wake_lock' = IF alarm_pending # {} /\ alarm_pending' = {} /\ ~ wait_pending
                        THEN "free" ELSE alarm_wake_lock
  /\ UNCHANGED <<alarm_opened, wait_pending, pc, releasing, i>>

ANDROID_ALARM_SET(t, type) ==
  /\ MayCall(t)
  /\ alarm_enabled' = alarm_enabled \cup {type}
  /\ queued' = queued \cup {type}
  /\ UNCHANGED <<alarm_opened, alarm_pending, wait_pending, alarm_wake_lock, pc, releasing, i>>

\* Mutant of Acknowledge: alarms that came meanwhile are overlooked.
Acknowledge_all ==
  /\ alarm_wake_lock' = IF wait_pending THEN "free" ELSE alarm_wake_lock
  /\ wait_pending' = FALSE

\* The next wait acknowledges the last one, unless there are alarms again.
Acknowledge ==
  /\ alarm_wake_lock' = IF alarm_pending = {} /\ wait_pending THEN "free" ELSE alarm_wake_lock
  /\ wait_pending' = (wait_pending /\ alarm_pending # {})

\* SET_AND_WAIT is SET and then this.
ANDROID_ALARM_WAIT(t) ==
  /\ MayCall(t)
  /\ Acknowledge
  /\ pc' = [pc EXCEPT ![t] = "awake"]
  /\ UNCHANGED <<alarm_opened, alarm_pending, alarm_enabled, queued, releasing, i>>

\* wait_event_interruptible looks at alarm_pending without the lock; the
\* section after it takes what is pending then.
wait_check(t) ==
  /\ pc[t] = "awake"
  /\ pc' = [pc EXCEPT ![t] = IF alarm_pending = {} THEN "asleep" ELSE "take"]
  /\ UNCHANGED <<alarm_opened, alarm_pending, alarm_enabled, wait_pending, queued,
                 alarm_wake_lock, releasing, i>>

wait_take(t) ==
  /\ pc[t] = "take"
  /\ pc' = [pc EXCEPT ![t] = IF alarm_pending \cap DevTypes # {} THEN "handling" ELSE "idle"]
  /\ wait_pending' = TRUE
  /\ alarm_pending' = {}
  /\ UNCHANGED <<alarm_opened, alarm_enabled, queued, alarm_wake_lock, releasing, i>>

wait_signal(t) ==
  /\ pc[t] = "asleep"
  /\ pc' = [pc EXCEPT ![t] = "idle"]
  /\ UNCHANGED <<alarm_opened, alarm_pending, alarm_enabled, wait_pending, queued,
                 alarm_wake_lock, releasing, i>>

\* Mutant of ANDROID_ALARM_SET_RTC: the waiters are not woken.
ANDROID_ALARM_SET_RTC_silent ==
  /\ alarm_pending' = alarm_pending \cup {TIME_CHANGE}
  /\ UNCHANGED <<alarm_opened, alarm_enabled, wait_pending, queued, alarm_wake_lock,
                 pc, releasing, i>>

\* Any file, after alarm_set_rtc, whether it failed or not.
ANDROID_ALARM_SET_RTC ==
  /\ alarm_pending' = alarm_pending \cup {TIME_CHANGE}
  /\ WakeWaiters
  /\ UNCHANGED <<alarm_opened, alarm_enabled, wait_pending, queued, alarm_wake_lock,
                 releasing, i>>

-----------------------------------------------------------------------------
\* alarm.c takes the alarm off its queue and calls this.
alarm_triggered(type) ==
  /\ type \in queued
  /\ queued' = queued \ {type}
  /\ IF type \in alarm_enabled
     THEN /\ alarm_wake_lock' = "timed"
          /\ alarm_enabled' = alarm_enabled \ {type}
          /\ alarm_pending' = alarm_pending \cup {type}
          /\ WakeWaiters
     ELSE UNCHANGED <<alarm_wake_lock, alarm_enabled, alarm_pending, pc>>
  /\ UNCHANGED <<alarm_opened, wait_pending, releasing, i>>

wake_lock_expires ==
  /\ alarm_wake_lock = "timed"
  /\ alarm_wake_lock' = "expired"
  /\ UNCHANGED <<alarm_opened, alarm_pending, alarm_enabled, wait_pending, queued, pc, releasing, i>>

-----------------------------------------------------------------------------
\* The last reference to the owner's file goes: no thread is in a call.
alarm_release ==
  /\ alarm_opened /\ releasing = "no"
  /\ \A t \in Threads : pc[t] \in {"idle", "handling"}
  /\ releasing' = "clear" /\ i' = 0
  /\ pc' = [t \in Threads |-> "idle"]
  /\ UNCHANGED <<alarm_opened, alarm_pending, alarm_enabled, wait_pending, queued,
                 alarm_wake_lock>>

\* Under the lock; it is dropped for alarm_cancel.
alarm_release_clear ==
  /\ releasing = "clear" /\ i < TypeCount
  /\ alarm_enabled' = alarm_enabled \ {i}
  /\ releasing' = "cancel"
  /\ UNCHANGED <<alarm_opened, alarm_pending, wait_pending, queued, alarm_wake_lock, pc, i>>

alarm_release_cancel ==
  /\ releasing = "cancel"
  /\ queued' = queued \ {i}
  /\ releasing' = "clear" /\ i' = i + 1
  /\ UNCHANGED <<alarm_opened, alarm_pending, alarm_enabled, wait_pending, alarm_wake_lock, pc>>

\* Mutant of alarm_release_end: what was taken and not acknowledged is forgotten.
alarm_release_end_pending ==
  /\ releasing = "clear" /\ i = TypeCount
  /\ alarm_wake_lock' = IF alarm_pending # {} THEN "free" ELSE alarm_wake_lock
  /\ wait_pending' = FALSE /\ alarm_pending' = {}
  /\ alarm_opened' = FALSE /\ releasing' = "no" /\ i' = 0
  /\ UNCHANGED <<alarm_enabled, queued, pc>>

alarm_release_end ==
  /\ releasing = "clear" /\ i = TypeCount
  /\ alarm_wake_lock' = IF alarm_pending # {} \/ wait_pending THEN "free" ELSE alarm_wake_lock
  /\ wait_pending' = FALSE /\ alarm_pending' = {}
  /\ alarm_opened' = FALSE /\ releasing' = "no" /\ i' = 0
  /\ UNCHANGED <<alarm_enabled, queued, pc>>

DevInit ==
  /\ alarm_opened = FALSE
  /\ alarm_pending = {} /\ alarm_enabled = {} /\ wait_pending = FALSE
  /\ queued = {}
  /\ alarm_wake_lock = "free"
  /\ pc = [t \in Threads |-> "idle"]
  /\ releasing = "no" /\ i = 0

WaitStep(t) == wait_check(t) \/ wait_take(t)

DevNext ==
  \/ alarm_ioctl_open \/ ANDROID_ALARM_SET_RTC \/ wake_lock_expires
  \/ \E t \in Threads :
       \/ \E type \in DevTypes : ANDROID_ALARM_SET(t, type) \/ ANDROID_ALARM_CLEAR(t, type)
       \/ ANDROID_ALARM_WAIT(t) \/ WaitStep(t) \/ wait_signal(t)
  \/ \E type \in DevTypes : alarm_triggered(type)
  \/ alarm_release \/ alarm_release_clear \/ alarm_release_cancel \/ alarm_release_end

DevFairness == \A t \in Threads : WF_devVars(WaitStep(t))

DevSpec == DevInit /\ [][DevNext]_devVars /\ DevFairness

-----------------------------------------------------------------------------
(***************************************************************************)
(* Properties.                                                             *)
(***************************************************************************)

\* From the moment an alarm goes off to the next wait of the thread that got
\* it the wake lock is not given up by anything but its own timeout, whatever
\* alarms are cleared, times set or alarms triggered in between.  (For one
\* waiting thread: the wait of a second one acknowledges for the first.)
AlarmHeldAwake ==
  (alarm_pending \cap DevTypes # {} \/ \E t \in Threads : pc[t] = "handling")
    => alarm_wake_lock # "free"

\* A device nobody owns has no alarm running or pending and holds no wake
\* lock, though alarm_release drops its spinlock for each alarm it cancels
\* and the later alarms can still go off then.
CleanRelease ==
  ~ alarm_opened =>
    /\ alarm_enabled = {} /\ queued = {} /\ ~ wait_pending
    /\ alarm_pending \subseteq {TIME_CHANGE}
    /\ alarm_wake_lock # "timed"

\* Both, for one waiting thread.
DeviceKeepsAwake == AlarmHeldAwake /\ CleanRelease

OneThread == \A t, u \in Threads : t = u

DevTypeOK ==
  /\ alarm_opened \in BOOLEAN /\ wait_pending \in BOOLEAN
  /\ alarm_pending \subseteq DevTypes \cup {TIME_CHANGE}
  /\ alarm_enabled \subseteq DevTypes /\ queued \subseteq DevTypes
  /\ alarm_wake_lock \in {"free", "timed", "expired"}
  /\ pc \in [Threads -> {"idle", "asleep", "awake", "take", "handling"}]
  /\ releasing \in {"no", "clear", "cancel"} /\ i \in 0 .. TypeCount

\* No thread is in a call while the owner's file is released or there is none.
NobodyCalls ==
  /\ ~ alarm_opened => releasing = "no"
  /\ ~ alarm_opened \/ releasing # "no" => \A t \in Threads : pc[t] = "idle"

\* How far alarm_release has come: no alarm it has passed is set again.
Released ==
  /\ releasing = "clear" => (alarm_enabled \cup queued) \cap (0 .. i - 1) = {}
  /\ releasing = "cancel" =>
       /\ i < TypeCount
       /\ alarm_enabled \cap (0 .. i) = {} /\ queued \cap (0 .. i - 1) = {}

\* The wake lock runs for an alarm that waits to be taken or acknowledged.
LockHasReason == alarm_wake_lock = "timed" => alarm_pending # {} \/ wait_pending

\* What is handled is not acknowledged yet.
HandledUnacknowledged == \A t \in Threads : pc[t] = "handling" => wait_pending

\* The inductive invariant behind CleanRelease, for any threads, and with
\* HandledUnacknowledged behind AlarmHeldAwake, for one.
DevInv == DevTypeOK /\ NobodyCalls /\ Released /\ LockHasReason /\ CleanRelease

OneThreadInv == DevInv /\ HandledUnacknowledged /\ AlarmHeldAwake

\* A thread in ANDROID_ALARM_WAIT gets what comes up, alarm or change of the
\* time, or another thread does, or the owner clears it.
WaiterWoken ==
  \A t \in Threads :
    pc[t] \in {"awake", "asleep", "take"} /\ alarm_pending # {} ~> alarm_pending = {}

=============================================================================
