# A TLA+ model of the Android and MSM additions in the Zio M6000 kernel

The repository is the kernel of the Kyocera Zio M6000: Linux 2.6.32 for the
Qualcomm MSM7x27 with the Android (Froyo) additions. Upstream Linux is by far
the largest part of it; what this project models is the logic that Android, the
chip's vendor and the product's vendor add and the product depends on:
*opportunistic suspend* (wake locks, early suspend and its handlers, the suspend
path, alarms), the *memory shared with the modem*, *anonymous shared memory*,
the *low memory killer*, and the devices that keep the *logs*.

All paths below are relative to
`src/M6000_froyo_kernel_code/KB70_froyo_GPL/kernel/`. The configuration is that
of the product, `arch/arm/configs/msm7627_defconfig`: one processor, `PREEMPT`,
`HZ=100`, `WAKELOCK_STAT`, `USER_WAKELOCK`, `CONSOLE_EARLYSUSPEND`,
`ANDROID_RAM_CONSOLE` without error correction, no hibernation; `CCI_PM_LOG` and
`CCI_KLOG_COLLECTOR` are off. Two modelled parts belong to configurations of the
same tree for other boards: `FB_EARLYSUSPEND`, the alternative to the console's
handler, and the Dekker variant of the remote spinlock (msm7630).

## Inventory

| Component | Source | State | Operations | Modules |
|---|---|---|---|---|
| Wake locks | `kernel/power/wakelock.c` | lists of locks, `expire_timer`, `current_event_num`, `suspend_work`; statistics | lock, timeout, unlock, init, destroy, the timer, `suspend()`; `/proc/wakelocks` | `WakeLock`, `WakeLockStats` |
| User wake locks | `kernel/power/userwakelock.c` | a tree of named locks | writes and reads of `/sys/power/wake_lock`, `wake_unlock` | `UserWakeLock`, `UserLockNames`, `WakeLock` |
| Early suspend | `kernel/power/earlysuspend.c`, `main.c` | `state`, the request, the handler list | requests, registration, the works `early_suspend` and `late_resume` | `EarlySuspend` |
| Handlers of the screen | `kernel/power/consoleearlysuspend.c`, `fbearlysuspend.c`, parts of `drivers/char/vt*.c` | foreground console and its switch; `fb_state` | the hooks, console switches, `wait_for_fb_*` | `ConsoleEarlySuspend`, `FbEarlySuspend` |
| Suspend path | `kernel/power/suspend.c`, `process.c`, parts of `drivers/base`, `mach-msm/pm2.c` | the phase of `pm_suspend` | prepare, freeze, suspend devices, last check, sleep, and back | `SystemSuspend` |
| Alarms | `drivers/rtc/alarm.c`, `alarm-dev.c`, `hctosys.c`, `rtc-msm.c` | clocks, queues, timers, the RTC's alarm; the device's pending alarms and wake lock | start, cancel, set the time, suspend, resume; wait, release | `Alarm`, `AlarmDev` |
| Log device | `drivers/staging/android/logger.c` | ring buffer, offsets, list of readers, wait queue | write, read, open, release, ioctls | `Logger`, `LogFifo`, `LoggerReaders` |
| RAM console | `drivers/staging/android/ram_console.c` | ring in memory that survives a reboot | write, boot | `RamConsole` |
| Anonymous shared memory | `mm/ashmem.c` | unpinned ranges, LRU list, size, name, file | pin, unpin, status, shrink, mmap, set | `Ashmem`, `AshmemPages`, `AshmemArea` |
| Low memory killer | `drivers/staging/android/lowmemorykiller.c` | thresholds; processes | the shrinker | `LowMemoryKiller` |
| Vibrator | `drivers/cci/vibrator/vibrator.c` | mutex, last value written | write, suspend hook, remote call | `Vibrator` |
| Shared memory of the modem | `arch/arm/mach-msm/smd.c`, `proc_comm.c`, `remote_spinlock.[ch]` | rings with head, tail and flags; four words of a mailbox; the lock's words | packet write and read, interrupts; call and answer; lock and unlock | `SmdFifo`, `ProcComm`, `RemoteSpinlock` |
| Binder | `drivers/staging/android/binder.c` | nodes, references, threads, transaction stacks | ioctls | - |
| Physical memory | `drivers/misc/pmem.c` | buddy bitmaps, sub-regions | allocate, map, free | - |
| RPC router | `arch/arm/mach-msm/smd_rpcrouter.c` | endpoints, transports | open, read, write | - |
| Vendor drivers | `drivers/cci` | registers | probe, sysfs, interrupts | - |

### How the components interact

User space writes `mem` or `on` to `/sys/power/state`. `state_store` calls
`request_suspend_state`, which sets flags and queues work on
`suspend_work_queue`, a single-threaded work queue. `early_suspend` calls the
handlers (the screen's among them, which wait for user space, and the
vibrator's, which calls the modem) and releases `main_wake_lock`; `late_resume`
calls them in the opposite order. When the last `WAKE_LOCK_SUSPEND` lock is
released or expires, wakelock.c queues `suspend()` on the same queue, which calls
`pm_suspend`. That freezes user space, suspends the devices (alarm.c hands its
wakeup alarms to the RTC here), asks a last time for wake locks and puts the
processor to sleep. Drivers take and release locks from interrupts, timers and
threads all the while; alarm-dev.c holds one from an alarm to the next wait of
user space. Memory pressure calls the shrinkers of ashmem and of the low memory
killer from whatever thread allocates. The modem, a processor of its own, shares
memory with the kernel: `proc_comm` is a mailbox for one call at a time, SMD
channels are rings with an interrupt each way, and the remote spinlock guards
what both change.

### What is hard

* Everything but the list operations is interruptible: `suspend()` looks at the
  locks long before it sleeps, `early_suspend` looks at its flags before and
  after the handlers, requests come at any time in between, and the worker that
  must serve a wakeup may itself be in `pm_suspend`.
* One timer serves all timed locks and does not re-arm itself; whoever notices
  that the last lock has gone is responsible for the retry.
* A clock is derived from another clock that user space, the network and the
  modem set; alarms move between timers and the RTC.
* Rings tell full from empty by offsets only; writers lap readers, fail half-way,
  or stop between two stores for ever.
* Lists of ranges are split, merged and purged while counters must stay exact.
* Two processors synchronise by plain loads and stores and by interrupts.

`PROJECT.json` lists the hazards at their lines; more are named under
"Further departures and hazards" below.

## Modules

    WakeLock  <--  EarlySuspend  <--  SystemSuspend      (EXTENDS, and implements)

    LogFifo <-- Logger    UserLockNames <-- UserWakeLock    AshmemPages <-- Ashmem
                                                         (INSTANCE ... WITH)

The proofs are in modules of their own, each of which extends the components it is
about:

    SuspendProofs   WakeLock, EarlySuspend, SystemSuspend
    DriverProofs    Vibrator, ConsoleEarlySuspend, AlarmDev, LowMemoryKiller,
                    UserWakeLock
    AlarmProofs     Alarm
    LoggerProofs    Logger
    RecordProofs    LoggerReaders, WakeLockStats, RamConsole
    AshmemProofs    Ashmem, AshmemArea
    ModemProofs     RemoteSpinlock, ProcComm, SmdFifo
    LoopLemmas      loops and finite sets in general; used by most of the others

**WakeLock.** `locks` is the table of `struct wake_lock`s: the list each is on,
its timeout flag, `expires - jiffies` cut off at zero, and the order of the
active lists as a relation. Every function runs under `list_lock` with
interrupts off and is one action; `has_wake_lock_locked`, which moves expired
locks and computes a return value, is the operator `Reap` and the relation
`has_wake_lock_locked(w, type, r)`. `suspend()` is four steps. `new_event` is
`current_event_num # entry_event_num`. On its own, the module leaves open what
`pm_suspend` does and what other work items there are. `DestroyActive` tells
whether drivers destroy locks they hold.

**EarlySuspend** extends it with `earlysuspend.c`. Requests are one action; the
two work items are one action per handler call plus their first and last steps.
`off`, the handlers whose suspend hook was called last, is a history variable.

**SystemSuspend** extends it with `phase`, the progress of `pm_suspend`, and
restricts who can run in each phase: user space until it is frozen, drivers and
timers until interrupts are disabled. `lateLocks` is a history variable: the
locks touched since `power_suspend_late` succeeded.

**WakeLockStats** has the statistics of each lock (`count`, `expire_count`,
`wakeup_count`, the times) as the code keeps them, next to history variables
that count jiffy by jiffy what really happened. **UserWakeLock** has
`lookup_wake_lock_name`: the comparison of names, the search through a tree of
any shape (the tree is the sequence of its nodes in order, and every search tree
of that order is tried), and the conversion of the timeout with its widths. Its
abstract specification **UserLockNames** is one lock per name, where a write of a
name changes the lock of that name and no other.

**ConsoleEarlySuspend** and **FbEarlySuspend** are the two handlers of the
screen. A wait is several steps: the look at the condition, the entry into the
queue, the sleep, the wake-up, which may come after the next request. The
console's handler comes with the part of the virtual terminals it relies on:
`set_console`, `console_callback`, the handshake of `VT_PROCESS` mode, both
ioctls that set the mode (`VT_SETMODE` and `VT_SETACTIVATE`), the death of the
process, `VT_LOCKSWITCH`. Two history variables say what has happened so far:
`disturbed`, that user space has switched or locked by itself, and `stale`, that
`VT_SETACTIVATE` has set the mode of a console whose process had been asked to let
go and left that question open. A switch from the keyboard is a `VT_ACTIVATE`.

**Alarm** has the three clocks and the time since boot, the queues and timers per
type, `alarm_set_rtc` step by step with the mutex it holds, the time updates of
network and modem, and suspend and resume with the RTC. **AlarmDev** is the
device on top, with `alarm_release` giving up its lock in each round of its loop.

**Logger** models `logger.c` with one action per critical section of
`log->mutex`; the early read of `w_off`, the wakeup after the mutex is released
and the sleep of a reader are actions of their own; an entry is a length of two
cells, which the end of the buffer may split, and a payload. **LogFifo** is what
the device promises: a FIFO of whole entries for each reader, which loses its
oldest entries only if the log would overflow. **LoggerReaders** is the list of
readers pointer by pointer, with walks preempted between any two readers and with
`logger_release` at any moment of them, since it takes no lock: `list_del` is a
step per store, `kfree` another. What is read of a freed reader is `Free`, and the
thread that follows it stays where it is for ever. The history variable `raced`
notes the two races that do harm: a change of the list that begins before another
is done, and a `kfree` of the reader at which a walk is. All other releases under
a walk, before the cursor and behind it, leave `raced` false.
**RamConsole** has a step per store, and a reboot after any of them.

**Ashmem** has the lists of ranges and all operations under `ashmem_mutex`;
**AshmemPages** the sets of pages they stand for. **AshmemArea** is the life of an
area, the mutex, and the calls of the shrinker from under it.

**LowMemoryKiller** has the single pass over the processes, whose death takes
time; the look at the counts of free and cached pages and the pass are one step.
**Vibrator** has the remote call as two steps that may fail.

**RemoteSpinlock** is one step per access to the shared word, **SmdFifo** one step
per access the other side can tell apart, with the interrupt handlers of both
sides (packets of length zero, which `smd_packet_write` refuses, are not written
and so never discarded), **ProcComm** one step per store to the mailbox. Next to
`msm_proc_comm` it has `msm_proc_comm_reset_modem_now`, which writes its command
under the same lock, gives the lock back without waiting for the answer and raises
the interrupt after that. `overtaken`, a history variable, is the set of callers
that took the lock while such a command was on its way or the modem was at it. The
modem is external to the repository and modelled by what the code expects of it,
with crashes, resets and restarts.

Definitions whose comment begins with "Mutant of" are deliberately wrong versions
of the definition that follows; no specification uses them. Each property fails
when one of them takes the place of the original ("mutants" in `PROJECT.json`
names one for each property; a property that is a conjunction has one in the
modules for every conjunct).

### The modules for TLC

`MCWakeLock`, `MCEarlySuspend` and `MCSystemSuspend` give the constants of one
specification. The other components share no state in the code paths modelled,
so that checking them together would only multiply their states; `MCLogger`,
`MCWakeLockUsers`, `MCAshmem`, `MCDrivers`, `MCDriversLive` and `MCSharedMemory`
each hold several components and a variable `part`: a behaviour is one of the
component `part` names, the others staying in their initial states. They
extend the components whose properties are proved as well wherever names allow, so that TLC checks the very formulas of the theorems; the others are
instances. The assumptions of the components on their constants are ASSUMEd there
for each. Where one choice of constants cannot have all cases (faults and no
faults, two areas or four pages), there is a second instance of the component.

## Runs

| Run | Checks | Instances | Distinct states |
|---|---|---|---|
| `wakelock` | `UntimedFirst`, `TimerCoversTimedLocks`, `SuspendNotForgotten`, `SuspendRetried` | a driver, a user and an idle lock, timeouts 0 and 2 | 39 000 |
| `wakelock_destroy` | `SuspendRetried` **fails** if held locks are destroyed | a driver and a user lock | |
| `early_suspend` | `MainLockReleasedLast`, `HandlersFollowState`, `LevelOrder`, `HooksAlternate`, `SleepRequestServed`, refinement of `WLSpec` | two handlers on two levels, a user lock and an idle lock | 80 000 |
| `system_suspend` | `SleepAsRequested`, `SleepsOnlyOverLateLocks`, `WakeupRequestServed`, refinement of `ESSafety` | a handler, a driver lock and a user lock | 153 000 |
| `system_suspend_held` | `HeldLockPreventsSleep` **fails** | a handler, a driver and a user lock | |
| `logger` | `LogExact`, `SleepingReaderWoken`, `WalkComplete`, `RamConsoleKept`, refinement of `LogFifo` | ring of 8 cells, entries of 3 and 4, one writer and two; three readers in a list and a walker; RAM console of 4 bytes with and without oopses | 330 000 |
| `logger_stale` | `AtEntries` **fails** with `StaleFault` | two writers | |
| `wakelock_users` | `UserLocksExact`, `StatsExact`, refinement of `UserLockNames` | four names, prefixes of each other; one lock and two beside `main_wake_lock` | 557 000 |
| `ashmem` | `AshmemExact`, `AreasExact`, refinement of `AshmemPages` | one area of four pages; two of two with failing allocations; an area set up by two threads | 139 000 |
| `drivers` | `HandshakeFirst`, `ScreenTaken`, `StopRemembered`, `KillsTheBest`, `DeviceKeepsAwake`, `AlarmsKept` | two consoles; three writers; three processes; three alarms of the device; two alarms on one clock and one on each | 2 281 000 |
| `drivers_live` | `DrawerFollows`, `LockReturned`, `LowMemoryEnds`, `AlarmsDelivered` | a drawer and a watcher; failing remote calls; two processes; two waiting threads; an alarm, with and without faults in setting the clock and slow suspends | 183 000 |
| `shared_memory` | `RemoteInv`, `SomebodyGetsIn`, `ChannelExact`, `AnswerIsOwn`, `ModemServed` | two threads on each processor; ring of 8 bytes, packets of 2 and 5; three callers, modem with and without crashes; two callers and a reset of the modem | 127 000 |

Two runs say `CHECK_DEADLOCK FALSE`: `ashmem`, because a thread that allocates
under `ashmem_mutex` may call the shrinker and wait for itself for ever (see
below), and `shared_memory`, because the channel stops when the bounded number of
packets has passed, and a modem that has crashed or was reset leaves callers
spinning.

### What the failing runs show

* `wakelock_destroy`: `wake_lock_destroy` of the last lock that is held leaves
  the system awake with no timer and no queued work. The RPC router
  (`smd_rpcrouter.c:579-580`) destroys such locks when an endpoint is closed.
* `system_suspend_held`: after `power_suspend_late` interrupts are still on; a
  lock taken then, by a timer or a work item that is not frozen, is ignored.
  `SleepsOnlyOverLateLocks` shows that this window is the only one.
* `logger_stale`: a failing write puts `w_off` back to a value read before it
  took the mutex, over the entry of another writer.

### Further departures and hazards

TLC also refutes the following properties; each is stated in its module, whose
specification can be checked by itself with the constants given. The passing
runs above leave out the case that breaks them, as the last column says.

| Module, property | What the code does | Constants that show it | In the passing runs |
|---|---|---|---|
| `LoggerReaders` `WalkedReadersLive` | `logger_release` (`logger.c:490`) unlinks and frees a reader without `log->mutex` while a walk stands on it; `logger.c:56-57` says "This object lives from open to release, so we don't need additional reference counting. The structure is protected by log->mutex" | any | `WalkComplete`, which has it until `raced` |
| `UserWakeLock` `TimeoutPositive` | jiffies that do not fit a `long` become negative or zero (`userwakelock.c:74`); the comment at 69 says "> 0" | a timeout of more than 7 jiffies with `LONG_MAX = 7` | timeouts that fit |
| `Ashmem` `PurgeReported` | an unpin that fails has dropped the ranges it merges (`ashmem.c:513`); purged pages count as intact | `AllocFails = TRUE` | only `LruExact` with it |
| `Ashmem` `UnpinnedEvictable` | pages merged into a purged range are never taken back (`ashmem.c:512`) | any | - |
| `Ashmem` `StatusExact` | an unpin from the end of the area makes an empty range (`ashmem.c:560`) | `EmptyPins = TRUE` | only `LruExact` with it |
| `AshmemArea` `SizeOfFile` | `ASHMEM_SET_SIZE` tests and sets without the mutex (`ashmem.c:607-609`) | any two threads | - |
| `AshmemArea` `ShrinkerNeverWaitsForItself` | `ashmem_shrink` takes `ashmem_mutex` (`ashmem.c:324`) in reclaim of an allocation made under it (134, 276) | any | - |
| `FbEarlySuspend` `WaitsForDrawerOnly` | after a quick resume and suspend a drawer that does not draw is waited for (`fbearlysuspend.c:41`) | any | - |
| `ConsoleEarlySuspend` `NoWaitForActive` | `vt_waitactive` looks at `fg_console` before it is on the list of waiters (`vt_ioctl.c:183`, 133) | any | - |
| `ConsoleEarlySuspend` `BackAfterResume` | a locked switch at resume is not tried again (`consoleearlysuspend.c:48`) | any | `HookHasScreen` until user space switches or locks |
| `ConsoleEarlySuspend` `AskedAtForeground` | `VT_SETACTIVATE` (`vt_ioctl.c:1000`) sets the mode of a console and leaves its `vt_newvt`, so that a question stays open in the background; when the console is in process mode again, its `VT_RELDISP` takes the screen from a live process that was never asked, where `vt_ioctl.c:1670` says "If this vt is in process mode, then we need to handshake with that process before switching" | any | `ScreenTaken` and `HandshakeFirst`, which have it until `stale` |
| `Vibrator` `StopRemembered` | a stop whose call failed counts as sent (`vibrator.c:153`) | `RpcFails = TRUE` | only `LockReturned` with it |
| `LowMemoryKiller` `CacheCountsAsFree` | free and cached pages are compared one by one (`lowmemorykiller.c:79`) | two processes | - |
| `Alarm` `TimersArmed` | `alarm_suspend` cancels the timer of the type `SYSTEMTIME` (`alarm.c:463`) | an alarm of that type | other types |
| `Alarm` `ElapsedPreserved` | a setting that fails (`alarm.c:330`), the network (`hctosys.c:68`) and a large step during suspend (`alarm.c:528`) move the elapsed clock | `SetFails`, `AutoTime`, or `TodInSuspend` with a small `JumpLimit` | `WallTimersArmed` with all three (`AlarmsDelivered`) |
| `Alarm` `ElapsedAlwaysRead` | while the clock is set the elapsed clock is off (`alarm.c:373`) | any | - |
| `Alarm` `SleepHasWakeup` | a time update of the modem drops the lock that refuses the suspend (`alarm.c:640`) | `TodInSuspend = TRUE` | `FALSE` |
| `Alarm` `SleepHasWakeup` | an alarm that is started or called between suspend and sleep holds a wake lock for one second (`alarm.c:118`); a suspend that takes longer sleeps with the RTC set for another alarm | `SlowSuspend = TRUE` | `FALSE`; `WallTimersArmed` with it |
| `RemoteSpinlock` `WaiterLocks` | a waiter may be overtaken for ever (`remote_spinlock.h:160`), unlike in Dekker's algorithm | two spinning threads | `SomebodyGetsIn` |
| `SmdFifo` `NeverPartial` | a close during the payload makes a partial write (`smd.c:694`); `msm_smd.h:39` excludes it | `Closes = TRUE` | `ChannelExact` with it |
| `SmdFifo` `CurPacketSize` | `smd_cur_packet_size` returns what is left (`smd.c:1077`), not the total | any | - |
| `ProcComm` `CallComesBack` | after a crash of the modem the call loops for ever (`smd.c:198`); after a reset it may wait for a command that was overwritten (`proc_comm.c:90`) | `Crashes = TRUE`, or a resetter | `AnswerIsOwn` with both |
| `ProcComm` `AnswerIsOwn` with `overtaken` left out | `msm_proc_comm_reset_modem_now` unlocks with its command in the mailbox and notifies later (`proc_comm.c:90-92`); the next caller's command may be read with the other's data, or its wait end with the other's answer | a resetter | callers that did not overtake a reset |

Hazards known and covered by no property: `want_console` is shared by the hooks
and user space (`vt.c:2370`); a write to the vibrator that finds the mutex taken
returns the positive `EBUSY` and is lost (`vibrator.c:131`); `VT_SETACTIVATE`
passes the address of its arguments to `set_console` (`vt_ioctl.c:1009`), so that
the switch its comment announces is never made; with two waiting threads on one
alarm file one acknowledges for the other (`alarm-dev.c:136`); a crash between the stores of
start and size in the first lap loses the RAM console's log
(`ram_console.c:284`); remote mutexes may try in step for ever
(`remote_spinlock.c:114`); a fast close and reopen resets one side of a channel
only (`smd.c:485`).

### Bounds

The wake-lock code treats all locks of a type alike, so three locks besides
`main` and `unknown` show every order of a timed, an untimed and an expired one;
timeouts 0 (expired at once) and 2 give locks that expire before and after each
other and before and after `unknown_wakeup` (1). Two handlers on two
levels show the order of calls; handlers of equal level or without a hook are left
to the proof. For these modules, and for the safety of the others that have a
module of proofs, the proofs remove the bounds.

The ring of eight cells of the log holds two entries of three or four cells, so
that every offset is reached and an entry, and its length, ends before, at and
behind the end. Three readers let one be removed between two others, at, before
and behind the cursor of a walk; once one of the two harmful races has happened the
list is followed only with one of them closed (the constraint `AfterRace`), which
keeps the damaged lists few and leaves out nothing `WalkComplete` speaks of. The RAM
console of four bytes sees writes shorter than it, as long and longer, and
several laps. Names are prefixes of each other in every combination of two
letters; the widths of `u64` and `long` (`ULLONG_MAX`, `LONG_MAX`) are scaled to 7 and 4
bits with a jiffy of 4 ns, and the timeouts lie on both sides of each boundary. Three jiffies let a
lock expire, be noticed late and expire again. Four pages are the least in which a
hole leaves pages on both sides of it and two ranges merge. Three alarms of the
device let one be cancelled, one be next and one go off meanwhile; two alarms
share a queue or have one on each clock; the elapsed time runs to 2, the clock is
set to before, at and after an alarm. The channel's ring of eight bytes splits
headers and packets of two and five, and makes the writer wait. Named bounds:
`MaxTime`, `MaxTaken`, `MaxLate`, `MaxElapsed`, `MaxDelta`, `MaxBytes`,
`MaxCount`, `MaxPackets`, `MaxRss`, `MaxPages`.

### Fairness

* Wake locks, early suspend, suspend: the worker, handlers and system calls that
  have begun go on (threads of a preemptive kernel, loops bounded: the freezer
  gives up after `TIMEOUT`); timers fire and time passes except with interrupts
  off. Nothing is assumed of user space, drivers or signals, or that a sleeping
  device is ever woken. `EarlySuspend` assumes that `pm_suspend` returns while
  `main_wake_lock` is held, and `system_suspend` checks `WakeupRequestServed`
  with no such assumption.
* Log: a writer that has begun ends, a woken reader runs.
* Framebuffer: hook and clients go on within their calls, and the second of the
  hook's wait passes. Nothing makes a client come to its call.
* Vibrator: a remote call ends, with an answer or after its five seconds.
* Low memory: reclaim calls the shrinker again while memory is low, and a killed
  process exits.
* Alarms: settings and suspends that have begun go on, the RTC's alarm wakes a
  sleeping system; a timer that is due again and again fires (strong fairness,
  because settings of the clock and suspends, which user space may repeat
  without end, take it away for a while each time).
* Device, channel, calls: a thread within a call and a raised interrupt go on.
* Remote lock: a thread that asks for the lock or has it goes on.

## Proofs

Checked by TLAPS for any values of the constants that satisfy the assumptions
each module names (the special locks are distinct, timeouts are natural numbers,
the work items are the code's, every thread runs on one of the two processors and
takes the lock in one of the three ways, the ring of a channel has room for a
header and any one packet, and so on). Most of the invariants are not inductive as
the runs state them; where the strengthening was in doubt it was tried out with
TLC on the instances of the runs before it was proved.

* **SuspendProofs.**
  *Wake locks*: `Ordered` is the type invariant with `UntimedFirst`; it is
  inductive by itself. `TimerCoversTimedLocks` and `SuspendNotForgotten` are not:
  when the timer fires or the idle loop reaps the last timed lock, what counts
  is that somebody still has the retry in hand. The invariant `Vigilant` joins
  both with `Watched`, and the proof follows the value `r` that
  `has_wake_lock_locked` returns: r = 0 queues the retry, r > 0 arms the timer,
  r = -1 means an untimed lock whose release will do either. Both theorems
  assume `~ DestroyActive`, and the run `wakelock_destroy` shows that they must.
  *Early suspend*: first `ESImplementsWL`: every step is a step of
  `WakeLock` (identity mapping), so the theorems above hold. `ESInv` then relates
  the flags, the position of the worker, the progress of the walk and the called
  hooks: during a walk exactly the hooks already passed differ from the old
  state, and the order of the list is total and agrees with the levels. All four
  safety properties and `HooksAlternate` follow.
  *System suspend*: `SysImplementsES` first, then `SysInv`: after
  `power_suspend_late` no lock is active that is not in `lateLocks`, and those are
  drivers' locks. With `MainLockReleasedLast` this gives `SleepAsRequested`: if
  the device sleeps, `main_wake_lock` is not active, hence sleep is requested and
  all hooks have been called. `SystemNeverForgetsSuspend` carries the results on
  wake locks to the whole system.
* **DriverProofs.**
  *Vibrator*, `StopAlwaysRemembered`: with `prev_time_val` a stop, a motor that
  runs is about to be stopped. `VibInv` adds that one writer at a time is past the
  mutex and that its argument is the value remembered. It assumes `~ RpcFails`: a
  stop whose call failed counts as sent (table above).
  *Console*, `HandshakeAlwaysFirst` (an action property) and `ScreenAlwaysTaken`:
  `ConsoleInv` says that, until `VT_SETACTIVATE` leaves a question open (`stale`),
  only the foreground console in process mode has one, so that whoever answers
  `VT_RELDISP` leaves the console it was asked for; after that the screen still
  goes only where some live process that was asked lets it go. `QuietInv` says where the screen is, what is wanted and who was asked at
  each step of the hooks; it holds until user space switches or locks by itself.
  *Alarm device*, `ReleaseAlwaysClean` for any number of threads, and
  `DeviceAlwaysKeepsAwake` for one thread: `DevInv` follows the loop of
  `alarm_release`, in which alarms behind the index may still go off, and
  `LockHasReason` says that the wake lock is held only over something pending or
  unacknowledged. With two threads one acknowledges for the other, hence
  `OneThread`.
  *Low memory killer*, `AlwaysKillsTheBest` for any list of processes: the choice
  after the first i processes is the best of these (`Best`), and a process that is
  chosen and dying keeps the others alive.
  *User wake locks*, `UserLocksAlwaysExact` and the refinement
  `NamesAlwaysOneLock`, for any names and any shape of the tree: `compare` is shown
  to be a strict total order of names that end with NUL, in which a prefix comes
  first; `TreeInv` says that the nodes are in that order, so that every search
  ends at the name or between its neighbours, and that each timeout is the one
  given. They assume `TimeoutsFit`: of a timeout that does not fit a `long` only
  its low bits are kept (table above).
* **ModemProofs.**
  *Remote spinlock*: `RemoteInv` is inductive: the types, `OneContender`
  (on each processor only the thread with the local lock is past it),
  `RequestStands` (from its request to its unlock, but for the time it has yielded,
  a contender's word is set) and `MutualExclusion`. Whoever enters has seen the
  other's word clear with its own set; `RequestStands` then says that the other's
  contender is not in. The turn word plays no part in it. Shared memory is assumed to be
  sequentially consistent: the word is device memory, which the processor accesses
  in program order; the code itself has barriers only next to the critical section.
  *Mailbox*: `AnswerAlwaysOwn`, for any callers and resetters and with crashes:
  `PcommInv` says that one of them is inside, that before the first reset the modem
  is busy only for one that waits, and what the words hold at each step of a caller
  that has not overtaken a reset (`WordsAreOwn`): while it is inside nobody else's
  interrupt is to come, so that the modem works for it alone. A caller that the
  crash killed keeps the lock, so that nobody reads what it left.
  *Channels*: `ChannelAlwaysExact`, for rings and packets of any size and with closes: `FifoInv` is `RingInv` (each byte
  of the stream is in its cell, those the writer has copied and not yet published
  included), `ReaderInv` (the reader's copy is still to be taken), `WriterInv`
  (packets follow one another and what is still to be written belongs to the last)
  and `PacketAligned`. The cells are compared without the remainder of the
  division that `RingExact` uses; the step from one to the other is a lemma.
* **AlarmProofs.** `WallTimersAlwaysArmed` with every disturbance of the clock:
  queues in the order of their expiry make the timer of a type that was armed for
  the first alarm never late for the next. `AlarmsAlwaysKept` needs `SettingInv`
  (through the steps of `alarm_set_rtc` the delta moves with the clock) and
  `SuspendInv` (what would make a stopped timer or the RTC's alarm too late takes
  the wake lock, which refuses the sleep). It assumes `Undisturbed`: settings that
  succeed, none by the network or between suspend and sleep, suspends shorter than
  the second of the RTC's wake lock, less than the 10000 hours of `alarm_resume`, no alarm of the type `SYSTEMTIME`. Each of these is a
  line of the table above, which shows what fails without it.
* **RecordProofs.** `WalkAlwaysComplete` on the list of readers, pointer by
  pointer, with releases at any moment of a walk: until one of the two harmful races
  has happened (`raced`), `RingInv` has a function `back` that agrees with
  `prev` but for what `list_add_tail` or `list_del` has written ahead, inverts
  `next`, and leads out of every set of readers, which says without induction that
  the list is one ring through the head. `WalkWith`, on the same `back`: a reader
  still to come is at the cursor or behind another such reader, where the cursor of
  a walk whose reader was taken off and not yet freed counts as the one behind it; at
  the head there can be none. A walk is never at freed memory for the same reason.
  `StatisticsAlwaysExact`: total time, time charged and the counts of uses and
  timeouts in `/proc/wakelocks` are those of the history variables, for any locks
  and timeouts. `RecordsInv` says of each record what a reader would be shown of it
  now, and that a record is charged for the present exactly while `main_wake_lock`
  is not held; lemmas show that ending, retaking, updating and reaping a record
  each leave what it shows.
  *RAM console*: `RamConsoleAlwaysInBounds`, with oopses: `RamBounds` says how much
  room the running write has left at each of its stores, whatever start and size
  were left as. `QuietLogAlwaysSaved` (an action property), without oopses:
  `RingKept` counts the bytes back from `start`; during a write the bytes of the
  earlier writes that it has not reached are still in their cells, and those
  it has copied are in theirs, before either of the two words says so.
* **LoggerProofs.** `LogAlwaysExact` and `LogImplementsFifo`, for a ring of any
  size that holds the largest entry and for any writers and readers. The invariant
  `LogInv` has a chain of entries from `head` to `w_off`: the offsets at which
  entries begin, each reached from the one before by the length in its first two
  cells, wherever the end of the buffer splits them. A write extends the chain at
  its end; `fix_up_readers` moves `head` and the lapped readers along it to the
  first entry that the new one leaves whole. What a parse of the buffer yields is
  then the entries of the chain behind a reader, and each operation does to these
  sequences what LogFifo says. Both assume `~ StaleFault`, and the run
  `logger_stale` shows that they must.
* **AshmemProofs.** `AshmemAlwaysExact` for any areas, sizes and requests, with
  failing allocations and empty intervals: each turn of the loops of `ashmem_pin`,
  `ashmem_unpin` and `ashmem_release` keeps `AshOK`: no range is on two lists, the
  LRU list holds those not purged, and `lru_count` is the sum of their sizes, which
  `range_alloc`, `range_del` and `range_shrink` each change by what they add to
  it. Without empty intervals the ranges are in order (`InOrder`), in the middle of
  a loop as well, so that the loops may stop at the first range before the pages.
  `AshmemImplementsPages` adds `Remembered` (a lost page is in a range that is
  marked as purged) and follows the set of unpinned pages through the four cases of
  a pin, the merges of an unpin and the walk of the shrinker. It assumes
  `~ AllocFails` and `~ EmptyPins`, each a line of the table above.
  `NameAlwaysOfFile`, on AshmemArea with any number of threads: `NameOfFile`, the
  other half of `AreasExact`, is inductive by itself.
* **LoopLemmas.** What the loops share. A loop over a list is a function on
  0 .. n; `LoopKeeps` says that what holds before it and is kept by each turn holds
  after it, with the turns that hold it as a set of numbers. The induction under it
  takes no operator as a parameter: a set of natural numbers that is not
  empty has a least element.

Only model-checked:

* the liveness properties, because TLAPS does not do fairness or ENABLED:
  `SuspendRetried`, `SleepRequestServed`, `WakeupRequestServed`,
  `SleepingReaderWoken`, `DrawerFollows`, `LockReturned`, `LowMemoryEnds`,
  `AlarmsDelivered` (whose `WallTimersArmed` is proved), `SomebodyGetsIn`,
  `ModemServed`, and the fairness in `WLSpec`; the safety part of `DrawerFollows`,
  `QuietAfterStop`, is left with it;
* of `RamConsoleKept`, `TornSaved`, what a crash in the middle of a write saves: it
  selects the bytes of whole writes with `SelectSeq`, for which the provers have no
  rules;
* of `StatsExact`, `OneWakeupPerSleep` and `FinishedTimeKept`: sums over all locks
  with a fold of the community modules, which takes an operator as a parameter.

Every safety property of the runs but these parts is proved, and so are the
refinements of `LogFifo`, `UserLockNames`, `AshmemPages` and, but for its fairness,
of `WakeLock` (`WLSpec`) and of `EarlySuspend`.

The type invariants `WLTypeOK`, `ESTypeOK` and `SysTypeOK`, the refinement
`WLSafety` and the inductive invariants named above are proved and therefore not
among the runs' properties.

## Coverage

The map names some 4 800 lines in 35 files. Of the files that are modelled as a
whole (`wakelock.c`, `userwakelock.c`, `earlysuspend.c`, `suspend.c`,
`process.c`, the two handlers, `alarm.c`, `alarm-dev.c`, `logger.c`,
`ram_console.c`, `lowmemorykiller.c`, `ashmem.c`, `vibrator.c`: 5 100 lines) it
covers about two thirds; the rest is debug output, show files, probing, headers
and comments. Of `smd.c` and of the infrastructure the components rest on
(`vt.c`, `vt_ioctl.c`, `workqueue.c`, `list.h`, `drivers/base`, `pm2.c`) only the
part they use is modelled. Measured against the whole tree, eleven million lines
of Linux, this is next to nothing, and no model can change that.

## Not modelled

* Debug output, and the code of configurations that are off: `timed_gpio.c` (its
  body is under `#if 0`), the error correction of the RAM console, the remote
  spinlock with `swp` and `ldrex`, whose lock is one instruction.
* Single tasks in the freezer, and drivers' suspend callbacks other than those
  with a module: only that they succeed or fail.
* Wrap-around of `current_event_num` and of `jiffies` beyond what
  `(long)(expires - jiffies)` already makes relative.
* The power-down handshake of `pm2.c` with the modem, in assembly and shared
  memory; its outcomes are in `SystemSuspend`.
* Of SMD the opening and closing handshake and SMSM, whose other half is in the
  modem; the RPC router, which multiplexes calls over a channel.
* `rtc_alarm_add_device` and the choice of the RTC: done once at boot.
* Binder: nodes, references, thread pool and transaction stacks under one global
  lock, 3 700 lines; even its reference counts are a project of their own.
* `pmem.c`: the buddy allocator is pure and small, the rest is page mapping; it
  is the next candidate.
* Vendor drivers of sensors, backlight and keys: registers and sysfs files.
* The rest of Linux.

## Plan

Done in this order: `WakeLock`, `EarlySuspend`, `SystemSuspend` with their
proofs, because the suspend decision is the system's most important behaviour
and concurrent throughout; `Logger`; then the statistics and user locks, ashmem,
the handlers, alarms, RAM console and the modem's shared memory with the proof
of the remote spinlock; then the proofs of the drivers, the modem's mailbox and
channel, the alarms, the list of readers and the statistics; then those of the log
device and its refinement, the low memory killer, the user locks, anonymous shared
memory and the RAM console.

Next, in order of importance:

1. Proofs: `QuietAfterStop` of `FbEarlySuspend`, and `TornSaved` restated with a set of positions instead of a selection.
2. The refinement of `WakeLock` by the locks that `Alarm` and `AlarmDev` hold, to
   carry `SystemSuspend`'s guarantees to alarms.
3. `Pmem`: the buddy allocator against a set of free pages.
4. `Smd`: the handshake of a channel; `Binder`: the life cycle of nodes and
   references.
