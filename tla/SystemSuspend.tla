--------------------------- MODULE SystemSuspend ----------------------------
(***************************************************************************)
(* The whole opportunistic-suspend path: what pm_suspend, which            *)
(* EarlySuspend leaves open, does between its call and its return          *)
(* (kernel/power/suspend.c, process.c, the noirq phase of                  *)
(* drivers/base/power/main.c, msm_pm_enter).  phase is where the worker is *)
(* inside pm_suspend; it decides who else can run:                         *)
(*   - user space runs until try_to_freeze_tasks(true) has frozen it and   *)
(*     again once thaw_processes starts;                                   *)
(*   - drivers (interrupts, timers, threads with PF_NOFREEZE) run until    *)
(*     interrupts are disabled.                                            *)
(***************************************************************************)
EXTENDS EarlySuspend

VARIABLES
  phase,     \* progress of the running pm_suspend, "none" if there is none
  lateLocks  \* history: locks taken since power_suspend_late found none held

sysOnly == <<phase, lateLocks>>
sysVars == <<esVars, sysOnly>>

UserFrozen ==
  phase \in {"freeze_kernel", "devices", "noirq", "late_done", "irqs_off", "asleep", "resume"}

IrqsOff == phase \in {"irqs_off", "asleep"}

\* The worker goes from phase a to phase b inside pm_suspend.
Goto(a, b) ==
  /\ pc = "pm_suspend"
  /\ phase = a
  /\ phase' = b

-----------------------------------------------------------------------------
\* suspend(): ... pm_suspend(requested_suspend_state)
suspend_entry_call ==
  /\ suspend_entry
  /\ phase' = "call"
  /\ UNCHANGED <<esOnly, lateLocks>>

\* PM_SUSPEND_ON is -EINVAL; anything else goes to enter_state.
pm_suspend ==
  /\ Goto("call", IF requested_suspend_state = "on" THEN "return" ELSE "prepare")
  /\ UNCHANGED <<esVars, lateLocks>>

\* A PM_SUSPEND_PREPARE notifier or usermodehelper_disable may fail.
suspend_prepare ==
  /\ \/ Goto("prepare", "freeze_user")
     \/ Goto("prepare", "return")
  /\ UNCHANGED <<esVars, lateLocks>>

\* Mutant of try_to_freeze_tasks: the freezer queues suspend again when it
\* gives up.
try_to_freeze_tasks_requeue(at, next) ==
  /\ UNCHANGED <<expire_timer, new_event, pc, esOnly, lateLocks>>
  /\ \/ Goto(at, next) /\ UNCHANGED <<locks, worklist>>
     \/ /\ \E r \in Returns(locks) : has_wake_lock("SUSPEND", r)
        /\ Goto(at, "thaw")
        /\ worklist' = queue_work(worklist, "suspend")

\* One round of the loop of try_to_freeze_tasks.  Wake locks are asked for
\* only while some task has not frozen yet; without one it may time out.
try_to_freeze_tasks(at, next) ==
  /\ UNCHANGED <<expire_timer, worklist, new_event, pc, esOnly, lateLocks>>
  /\ \/ Goto(at, next) /\ UNCHANGED locks
     \/ \E r \in Returns(locks) :
          /\ has_wake_lock("SUSPEND", r)
          /\ Goto(at, "thaw") \/ (r = 0 /\ Goto(at, at))

freeze_processes ==
  \/ try_to_freeze_tasks("freeze_user", "freeze_kernel")
  \/ try_to_freeze_tasks("freeze_kernel", "devices")

\* dpm_suspend_start: a driver may refuse.
dpm_suspend_start ==
  /\ \/ Goto("devices", "noirq")
     \/ Goto("devices", "resume")
  /\ UNCHANGED <<esVars, lateLocks>>

\* Mutants of power_suspend_late: no check, and one that misses timed locks.
power_suspend_late_unchecked ==
  /\ Goto("noirq", "late_done")
  /\ UNCHANGED <<esVars, lateLocks>>

power_suspend_late_untimed_only ==
  /\ \E r \in Returns(locks) :
       /\ has_wake_lock("SUSPEND", r)
       /\ Goto("noirq", IF r < 0 THEN "resume" ELSE "late_done")
  /\ UNCHANGED <<expire_timer, worklist, new_event, pc, esOnly, lateLocks>>

\* dpm_suspend_noirq reaches the power device, unless a driver fails first.
power_suspend_late ==
  /\ \E r \in Returns(locks) :
       /\ has_wake_lock("SUSPEND", r)
       /\ Goto("noirq", IF r # 0 THEN "resume" ELSE "late_done")
  /\ UNCHANGED <<expire_timer, worklist, new_event, pc, esOnly, lateLocks>>

dpm_suspend_noirq_fails ==
  /\ Goto("noirq", "resume") \/ Goto("late_done", "resume")
  /\ UNCHANGED <<esVars, lateLocks>>

arch_suspend_disable_irqs ==
  /\ Goto("late_done", "irqs_off")
  /\ UNCHANGED <<esVars, lateLocks>>

\* sysdev_suspend fails on a pending wakeup interrupt or a system device.
sysdev_suspend ==
  /\ \/ Goto("irqs_off", "asleep")
     \/ Goto("irqs_off", "resume")
  /\ UNCHANGED <<esVars, lateLocks>>

\* msm_pm_enter returns: the device was woken, or could not go to sleep.
msm_pm_enter_returns ==
  /\ Goto("asleep", "resume")
  /\ UNCHANGED <<esVars, lateLocks>>

\* Interrupts on, dpm_resume_noirq, dpm_resume_end; nothing here can fail.
resume_devices ==
  /\ Goto("resume", "thaw")
  /\ lateLocks' = {}
  /\ UNCHANGED esVars

\* suspend_finish, and the error path of suspend_prepare.
suspend_finish ==
  /\ Goto("thaw", "return")
  /\ UNCHANGED <<esVars, lateLocks>>

pm_suspend_done ==
  /\ pm_suspend_return
  /\ phase = "return"
  /\ phase' = "none"
  /\ UNCHANGED <<esOnly, lateLocks>>

-----------------------------------------------------------------------------
SysInit == ESInit /\ phase = "none" /\ lateLocks = {}

PmStep ==
  \/ suspend_entry_call
  \/ pm_suspend
  \/ suspend_prepare
  \/ freeze_processes
  \/ dpm_suspend_start
  \/ power_suspend_late
  \/ dpm_suspend_noirq_fails
  \/ arch_suspend_disable_irqs
  \/ sysdev_suspend
  \/ resume_devices
  \/ suspend_finish
  \/ pm_suspend_done

DriverLockStep(l) ==
  /\ DriverCall(l)
  /\ lateLocks' = IF phase = "late_done" THEN lateLocks \cup {l} ELSE lateLocks
  /\ UNCHANGED <<esOnly, phase>>

\* The worker outside pm_suspend.
WorkStep ==
  /\ \/ (run_workqueue \/ suspend_check \/ suspend_exit) /\ UNCHANGED esOnly
     \/ HandlerWork
  /\ UNCHANGED sysOnly

TimeStep == (expire_wake_locks \/ Tick) /\ UNCHANGED <<esOnly, sysOnly>>

SysNext ==
  \/ ~ UserFrozen /\ UserStep /\ UNCHANGED sysOnly
  \/ /\ ~ IrqsOff
     /\ \/ \E l \in KernelLocks \cup IdleLocks : DriverLockStep(l)
        \/ /\ \E h \in Handlers : register_early_suspend(h) \/ unregister_early_suspend(h)
           /\ UNCHANGED sysOnly
        \/ arch_idle /\ UNCHANGED <<esOnly, sysOnly>>
        \/ TimeStep
  \/ WorkStep
  \/ PmStep
  \/ msm_pm_enter_returns

SysSafety == SysInit /\ [][SysNext]_sysVars

\* The worker runs and its loops end: the freezer gives up after TIMEOUT.
\* Nothing wakes a sleeping device, and still every wakeup request is served
\* (WakeupRequestServed): it takes main_wake_lock, which stops the suspend.
SysFairness ==
  /\ WF_sysVars(WorkStep \/ (PmStep /\ phase' # phase))
  /\ WF_sysVars(~ IrqsOff /\ TimeStep)

SysSpec == SysSafety /\ SysFairness

-----------------------------------------------------------------------------
Phases ==
  {"none", "call", "prepare", "freeze_user", "freeze_kernel", "devices", "noirq",
   "late_done", "irqs_off", "asleep", "resume", "thaw", "return"}

\* The types of the variables of the suspend path; pm_suspend is under way
\* only while the worker of suspend_work_queue is in its call.
SysTypeOK ==
  /\ phase \in Phases
  /\ lateLocks \subseteq Locks
  /\ phase # "none" => pc = "pm_suspend"

(***************************************************************************)
(* The device sleeps only as asked: sleep is (still) requested, every      *)
(* early-suspend hook has been called, and neither user space nor the      *)
(* early-suspend code holds a wake lock.  A wakeup request or a user wake  *)
(* lock that comes at any time before user space is frozen stops the       *)
(* suspend, although suspend() looked at the locks long before.            *)
(***************************************************************************)
SleepAsRequested ==
  phase = "asleep"
  => /\ state = REQUESTED_AND_SUSPENDED
     /\ requested_suspend_state = "mem"
     /\ handlers.reg \ NoSuspend \subseteq off
     /\ \A l \in UserLocks \cup {MainLock, UnknownLock} : ~ Held(locks, l)

(***************************************************************************)
(* A wake lock that is held while the device sleeps was taken after        *)
(* power_suspend_late, the last check: no earlier lock is overlooked.      *)
(***************************************************************************)
SleepsOnlyOverLateLocks ==
  phase = "asleep"
  => \A l \in Locks \ IdleLocks : Held(locks, l) => l \in lateLocks

(***************************************************************************)
(* What wakelock.h says: a WAKE_LOCK_SUSPEND lock that is held "prevents a *)
(* full system suspend".                                                   *)
(***************************************************************************)
HeldLockPreventsSleep ==
  phase = "asleep" => \A l \in Locks \ IdleLocks : ~ Held(locks, l)

=============================================================================
