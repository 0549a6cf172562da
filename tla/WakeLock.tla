------------------------------ MODULE WakeLock ------------------------------
(***************************************************************************)
(* Android wake locks: kernel/power/wakelock.c and the sysfs interface of  *)
(* kernel/power/userwakelock.c, with the single-threaded workqueue they    *)
(* share with earlysuspend.c.                                              *)
(*                                                                         *)
(* Every function of wakelock.c that touches the lists runs between        *)
(* spin_lock_irqsave(&list_lock) and spin_unlock_irqrestore, so each one   *)
(* is one atomic step.  The suspend() work item is not: it drops list_lock *)
(* between its steps, and everything may happen in between.                *)
(*                                                                         *)
(* Time is kept as the code uses it: only the sign and the size of         *)
(* (long)(expires - jiffies) are ever looked at, so the model stores that  *)
(* difference, counted down by Tick and cut off at zero ("expired").       *)
(***************************************************************************)
EXTENDS Integers, Sequences

CONSTANTS
  MainLock,        \* main_wake_lock, owned by earlysuspend.c
  UnknownLock,     \* unknown_wakeup, owned by suspend()
  KernelLocks,     \* WAKE_LOCK_SUSPEND locks of drivers
  UserLocks,       \* WAKE_LOCK_SUSPEND locks named through /sys/power/wake_lock
  IdleLocks,       \* WAKE_LOCK_IDLE locks of drivers
  Timeouts,        \* the timeouts, in jiffies, callers pass to wake_lock_timeout
  UnknownTimeout,  \* HZ / 2, the timeout of unknown_wakeup
  OtherWorks,      \* work items other code puts on suspend_work_queue
  DestroyActive    \* do drivers destroy locks they still hold?

Locks == {MainLock, UnknownLock} \cup KernelLocks \cup UserLocks \cup IdleLocks

ASSUME LocksAssumption ==
  /\ MainLock # UnknownLock
  /\ {MainLock, UnknownLock} \cap (KernelLocks \cup UserLocks \cup IdleLocks) = {}
  /\ KernelLocks \cap UserLocks = {}
  /\ IdleLocks \cap (KernelLocks \cup UserLocks) = {}

ASSUME TimeoutsAssumption ==
  /\ Timeouts \subseteq Nat
  /\ UnknownTimeout \in Nat \ {0}
  /\ DestroyActive \in BOOLEAN

ASSUME WorksAssumption ==
  OtherWorks \cap {"idle", "suspend", "suspend_entry", "pm_suspend", "suspend_exit"} = {}

VARIABLES
  locks,         \* the struct wake_locks and the lists they are linked on
  expire_timer,  \* jiffies until expire_timer fires, or NotPending
  worklist,      \* pending items of suspend_work_queue, oldest first
  new_event,     \* current_event_num # entry_event_num of the running suspend()
  pc             \* where the worker thread of suspend_work_queue is

wlVars == <<locks, expire_timer, worklist, new_event, pc>>

NotPending == -1

TypeOf(l) == IF l \in IdleLocks THEN "IDLE" ELSE "SUSPEND"

-----------------------------------------------------------------------------
(***************************************************************************)
(* struct wake_lock.  st is the list the lock is on: none (before          *)
(* wake_lock_init or after wake_lock_destroy), inactive_locks, or          *)
(* active_wake_locks[type].  timed is WAKE_LOCK_AUTO_EXPIRE and left is    *)
(* expires - jiffies.  before holds the order of the active lists:         *)
(* <<a, b>> \in before iff a precedes b on the active list of their type.  *)
(***************************************************************************)
LockState == {"none", "inactive", "active"}

LockTable ==
  [st : [Locks -> LockState],
   timed : [Locks -> BOOLEAN],
   left : [Locks -> Nat],
   before : SUBSET (Locks \X Locks)]

Active(w, type) == {l \in Locks : w.st[l] = "active" /\ TypeOf(l) = type}

Untimed(w, type) == {l \in Active(w, type) : ~ w.timed[l]}

\* WAKE_LOCK_AUTO_EXPIRE is set and (long)(lock->expires - jiffies) <= 0.
IsExpired(w, l) == w.timed[l] /\ w.left[l] = 0

\* What a caller of the API means by "the lock is held".
Held(w, l) == w.st[l] = "active" /\ ~ IsExpired(w, l)

list_del(order, l) == {p \in order : p[1] # l /\ p[2] # l}

list_add(order, list, l) == list_del(order, l) \cup ({l} \X (list \ {l}))

list_add_tail(order, list, l) == list_del(order, l) \cup ((list \ {l}) \X {l})

\* queue_work: an item whose PENDING bit is set is not queued twice.
queue_work(queue, item) ==
  IF \E i \in DOMAIN queue : queue[i] = item THEN queue ELSE Append(queue, item)

-----------------------------------------------------------------------------
(***************************************************************************)
(* has_wake_lock_locked walks the active list from its head.  It moves     *)
(* expired locks to inactive_locks (expire_wake_lock) and returns -1 at    *)
(* the first lock without a timeout; if there is none it returns the       *)
(* largest time left.                                                      *)
(***************************************************************************)
Reached(w, type) ==
  {l \in Active(w, type) : \A u \in Untimed(w, type) : <<u, l>> \notin w.before}

expire_wake_lock(w, S) ==
  [st |-> [l \in Locks |-> IF l \in S THEN "inactive" ELSE w.st[l]],
   timed |-> [l \in Locks |-> l \notin S /\ w.timed[l]],
   left |-> w.left,
   before |-> {p \in w.before : p[1] \notin S /\ p[2] \notin S}]

Reap(w, type) ==
  expire_wake_lock(w, {l \in Reached(w, type) : IsExpired(w, l)})

\* r is the value has_wake_lock_locked(type) returns on the table w.
has_wake_lock_locked(w, type, r) ==
  \/ /\ Untimed(w, type) # {}
     /\ r = -1
  \/ /\ Untimed(w, type) = {}
     /\ r = 0 \/ \E l \in Active(w, type) : r = w.left[l]
     /\ \A l \in Active(w, type) : w.left[l] <= r

Returns(w) == {-1, 0} \cup {w.left[l] : l \in Locks}

\* has_wake_lock(type) = r, together with what it does to the lists.
has_wake_lock(type, r) ==
  /\ has_wake_lock_locked(locks, type, r)
  /\ locks' = Reap(locks, type)

-----------------------------------------------------------------------------
(***************************************************************************)
(* wake_lock_internal, wake_unlock, wake_lock_init and wake_lock_destroy.  *)
(***************************************************************************)
\* Mutant of LockedUntimed: list_add_tail for every lock.
LockedUntimed_at_tail(w, l) ==
  [st |-> [w.st EXCEPT ![l] = "active"],
   timed |-> [w.timed EXCEPT ![l] = FALSE],
   left |-> [w.left EXCEPT ![l] = 0],
   before |-> list_add_tail(w.before, Active(w, TypeOf(l)), l)]

LockedUntimed(w, l) ==
  [st |-> [w.st EXCEPT ![l] = "active"],
   timed |-> [w.timed EXCEPT ![l] = FALSE],
   left |-> [w.left EXCEPT ![l] = 0],
   before |-> list_add(w.before, Active(w, TypeOf(l)), l)]

LockedTimed(w, l, timeout) ==
  [st |-> [w.st EXCEPT ![l] = "active"],
   timed |-> [w.timed EXCEPT ![l] = TRUE],
   left |-> [w.left EXCEPT ![l] = timeout],
   before |-> list_add_tail(w.before, Active(w, TypeOf(l)), l)]

Unlinked(w, l, st) ==
  [st |-> [w.st EXCEPT ![l] = st],
   timed |-> [w.timed EXCEPT ![l] = FALSE],
   left |-> [w.left EXCEPT ![l] = 0],
   before |-> list_del(w.before, l)]

\* Mutant of RearmOrQueue: add_timer, which leaves a pending timer alone.
RearmOrQueue_add_timer(r) ==
  /\ expire_timer' = CASE r <= 0 -> NotPending
                       [] r > 0 /\ expire_timer # NotPending -> expire_timer
                       [] OTHER -> r
  /\ worklist' = IF r = 0 THEN queue_work(worklist, "suspend") ELSE worklist

\* What wake_lock_internal and wake_unlock do with the value r of
\* has_wake_lock_locked: mod_timer, del_timer, queue_work(&suspend_work).
RearmOrQueue(r) ==
  /\ expire_timer' = IF r > 0 THEN r ELSE NotPending
  /\ worklist' = IF r = 0 THEN queue_work(worklist, "suspend") ELSE worklist

\* wake_lock(l).  Without a timeout it never queues work: the worklist is
\* the caller's (request_suspend_state queues late_resume right after it).
wake_lock(l) ==
  /\ locks' = LockedUntimed(locks, l)
  /\ IF TypeOf(l) = "SUSPEND"
       THEN new_event' = TRUE /\ expire_timer' = NotPending
       ELSE UNCHANGED <<new_event, expire_timer>>

wake_lock_timeout(l, timeout) ==
  LET w == LockedTimed(locks, l, timeout)
  IN  IF TypeOf(l) = "SUSPEND"
        THEN /\ new_event' = TRUE
             /\ locks' = Reap(w, "SUSPEND")
             /\ \E r \in Returns(w) :
                  /\ has_wake_lock_locked(w, "SUSPEND", r)
                  /\ RearmOrQueue(r)
        ELSE /\ locks' = w
             /\ UNCHANGED <<new_event, expire_timer, worklist>>

wake_unlock(l) ==
  LET w == Unlinked(locks, l, "inactive")
  IN  /\ UNCHANGED new_event
      /\ IF TypeOf(l) = "SUSPEND"
           THEN /\ locks' = Reap(w, "SUSPEND")
                /\ \E r \in Returns(w) :
                     /\ has_wake_lock_locked(w, "SUSPEND", r)
                     /\ RearmOrQueue(r)
           ELSE /\ locks' = w
                /\ UNCHANGED <<expire_timer, worklist>>

wake_lock_init(l) ==
  /\ locks.st[l] = "none"
  /\ locks' = Unlinked(locks, l, "inactive")
  /\ UNCHANGED <<expire_timer, worklist, new_event>>

\* Only unlinks the lock: neither the timer nor suspend_work is looked at.
wake_lock_destroy(l) ==
  /\ locks.st[l] # "none"
  /\ DestroyActive \/ locks.st[l] # "active"
  /\ locks' = Unlinked(locks, l, "none")
  /\ UNCHANGED <<expire_timer, worklist, new_event>>

-----------------------------------------------------------------------------
(***************************************************************************)
(* The callers.  wake_lock_internal has BUG_ON(!WAKE_LOCK_INITIALIZED), so *)
(* a driver only uses a lock between its init and its destroy.             *)
(***************************************************************************)
DriverCall(l) ==
  /\ UNCHANGED pc
  /\ \/ wake_lock_init(l)
     \/ wake_lock_destroy(l)
     \/ /\ locks.st[l] # "none"
        /\ \/ wake_lock(l) /\ UNCHANGED worklist
           \/ \E t \in Timeouts : wake_lock_timeout(l, t)
           \/ wake_unlock(l)

\* A write to /sys/power/wake_lock: lookup_wake_lock_name initialises a lock
\* it does not know yet.  It turns the 64-bit nanoseconds of the request into
\* a long of jiffies: at least 1, but a value beyond LONG_MAX may become
\* negative, an expired lock (timeout 0 here), or 0, which is no timeout.
wake_lock_store(l) ==
  /\ UNCHANGED pc
  /\ \/ wake_lock(l) /\ UNCHANGED worklist
     \/ \E t \in Timeouts : wake_lock_timeout(l, t)

\* A write to /sys/power/wake_unlock: an unknown name is -EINVAL.
wake_unlock_store(l) ==
  /\ locks.st[l] # "none"
  /\ wake_unlock(l)
  /\ UNCHANGED pc

\* The idle loop (mach-msm/pm2.c) asks for WAKE_LOCK_IDLE locks and, only if
\* there are none, for WAKE_LOCK_SUSPEND locks: it reaps what has expired.
arch_idle ==
  /\ \E r \in Returns(locks) :
       /\ has_wake_lock_locked(locks, "IDLE", r)
       /\ locks' = IF r = 0 THEN Reap(Reap(locks, "IDLE"), "SUSPEND")
                            ELSE Reap(locks, "IDLE")
  /\ UNCHANGED <<expire_timer, worklist, new_event, pc>>

\* Mutant of expire_wake_locks: it reaps the locks and queues nothing.
expire_wake_locks_no_work ==
  /\ expire_timer = 0
  /\ expire_timer' = NotPending
  /\ \E r \in Returns(locks) : has_wake_lock("SUSPEND", r)
  /\ UNCHANGED <<worklist, new_event, pc>>

\* The timer callback.
expire_wake_locks ==
  /\ expire_timer = 0
  /\ expire_timer' = NotPending
  /\ \E r \in Returns(locks) :
       /\ has_wake_lock("SUSPEND", r)
       /\ worklist' = IF r = 0 THEN queue_work(worklist, "suspend") ELSE worklist
  /\ UNCHANGED <<new_event, pc>>

Decrement(n) == IF n > 0 THEN n - 1 ELSE n

\* jiffies++
Tick ==
  /\ locks' = [locks EXCEPT !.left = [l \in Locks |-> Decrement(@[l])]]
  /\ expire_timer' = Decrement(expire_timer)
  /\ UNCHANGED <<worklist, new_event, pc>>

-----------------------------------------------------------------------------
(***************************************************************************)
(* The worker thread of suspend_work_queue and the suspend() work item.    *)
(***************************************************************************)
run_workqueue ==
  /\ pc = "idle"
  /\ worklist # <<>>
  /\ pc' = Head(worklist)
  /\ worklist' = Tail(worklist)
  /\ UNCHANGED <<locks, expire_timer, new_event>>

suspend_check ==
  /\ pc = "suspend"
  /\ \E r \in Returns(locks) :
       /\ has_wake_lock("SUSPEND", r)
       /\ pc' = IF r # 0 THEN "idle" ELSE "suspend_entry"
  /\ UNCHANGED <<expire_timer, worklist, new_event>>

suspend_entry ==
  /\ pc = "suspend_entry"
  /\ new_event' = FALSE
  /\ pc' = "pm_suspend"
  /\ UNCHANGED <<locks, expire_timer, worklist>>

\* pm_suspend seen from wakelock.c: it asks has_wake_lock any number of
\* times (the freezer, power_suspend_late) and returns at some time.
pm_suspend_poll ==
  /\ pc = "pm_suspend"
  /\ \E r \in Returns(locks) : has_wake_lock("SUSPEND", r)
  /\ UNCHANGED <<expire_timer, worklist, new_event, pc>>

pm_suspend_return ==
  /\ pc = "pm_suspend"
  /\ pc' = "suspend_exit"
  /\ UNCHANGED <<locks, expire_timer, worklist, new_event>>

\* Mutant of suspend_exit: nothing is locked when pm_suspend saw no event.
suspend_exit_no_lock ==
  /\ pc = "suspend_exit"
  /\ pc' = "idle"
  /\ UNCHANGED <<locks, expire_timer, worklist, new_event>>

suspend_exit ==
  /\ pc = "suspend_exit"
  /\ pc' = "idle"
  /\ IF new_event
       THEN UNCHANGED <<locks, expire_timer, worklist, new_event>>
       ELSE wake_lock_timeout(UnknownLock, UnknownTimeout)

-----------------------------------------------------------------------------
(***************************************************************************)
(* The component on its own.  main_wake_lock is taken by code that may     *)
(* queue a work item of its own in the same step, and released by such an  *)
(* item: EarlySuspend says when.                                           *)
(***************************************************************************)
WLInit ==
  /\ locks = [st |-> [l \in Locks |-> CASE l = MainLock -> "active"
                                         [] l = UnknownLock -> "inactive"
                                         [] OTHER -> "none"],
              timed |-> [l \in Locks |-> FALSE],
              left |-> [l \in Locks |-> 0],
              before |-> {}]
  /\ expire_timer = NotPending
  /\ worklist = <<>>
  /\ new_event = TRUE
  /\ pc = "idle"

QueueOtherWork ==
  /\ \E item \in OtherWorks : worklist' = queue_work(worklist, item)
  /\ \/ wake_lock(MainLock)
     \/ UNCHANGED <<locks, expire_timer, new_event>>
  /\ UNCHANGED pc

OtherWorkDone ==
  /\ pc \in OtherWorks
  /\ pc' = "idle"
  /\ \/ wake_unlock(MainLock)
     \/ UNCHANGED <<locks, expire_timer, worklist, new_event>>

SuspendWork ==
  \/ suspend_check
  \/ suspend_entry
  \/ suspend_exit

WLNext ==
  \/ QueueOtherWork
  \/ OtherWorkDone
  \/ \E l \in KernelLocks \cup IdleLocks : DriverCall(l)
  \/ \E l \in UserLocks : wake_lock_store(l) \/ wake_unlock_store(l)
  \/ arch_idle
  \/ expire_wake_locks
  \/ Tick
  \/ run_workqueue
  \/ SuspendWork
  \/ pm_suspend_poll
  \/ pm_suspend_return

WLSafety == WLInit /\ [][WLNext]_wlVars

\* The worker thread is scheduled and other work items end, timers run and
\* time passes.  Nothing says that pm_suspend returns: the device may sleep.
WLFairness ==
  /\ WF_wlVars(run_workqueue \/ SuspendWork \/ OtherWorkDone)
  /\ WF_wlVars(expire_wake_locks)
  /\ WF_wlVars(Tick)

WLSpec == WLSafety /\ WLFairness

-----------------------------------------------------------------------------
Works == {"suspend"} \cup OtherWorks

Labels == Works \cup {"idle", "suspend_entry", "pm_suspend", "suspend_exit"}

\* The types of the variables of wakelock.c.
WLTypeOK ==
  /\ locks \in LockTable
  /\ expire_timer \in Nat \cup {NotPending}
  /\ worklist \in Seq(Works)
  /\ new_event \in BOOLEAN
  /\ pc \in Labels

InSuspend == pc \in {"suspend", "suspend_entry", "pm_suspend", "suspend_exit"}

IsQueued(item) == \E i \in DOMAIN worklist : worklist[i] = item

UntimedPrecede(w) ==
  \A u, l \in Locks :
    w.st[u] = "active" /\ ~ w.timed[u] /\ w.st[l] = "active" /\ w.timed[l]
      /\ TypeOf(u) = TypeOf(l)
    => <<u, l>> \in w.before /\ <<l, u>> \notin w.before

(***************************************************************************)
(* On an active list the locks without a timeout precede those with one,   *)
(* so has_wake_lock_locked, which stops at the first lock without a        *)
(* timeout, never expires a lock while one without a timeout is held.      *)
(***************************************************************************)
UntimedFirst == UntimedPrecede(locks)

(***************************************************************************)
(* While only timed locks keep the system awake, expire_timer is armed and *)
(* does not fire before the last of them has expired: expire_wake_locks    *)
(* does not re-arm it, so an early or a missing timer is a lost suspend.   *)
(***************************************************************************)
TimerCoversTimedLocks ==
  /\ Untimed(locks, "SUSPEND") = {}
  /\ Active(locks, "SUSPEND") # {}
  => /\ expire_timer # NotPending
     /\ \A l \in Active(locks, "SUSPEND") : locks.left[l] <= expire_timer

(***************************************************************************)
(* When no lock keeps the system awake a suspend attempt is queued, is     *)
(* running, or will be queued by expire_timer: a release, an expiry or a   *)
(* failed pm_suspend never leaves the system awake with nothing to retry.  *)
(***************************************************************************)
SuspendNotForgotten ==
  Active(locks, "SUSPEND") = {}
  => IsQueued("suspend") \/ InSuspend \/ expire_timer # NotPending

(***************************************************************************)
(* If from some time on no lock but unknown_wakeup is held, suspend is     *)
(* attempted again and again (Kconfig WAKELOCK: a sleep request "will be   *)
(* delayed until no wake locks are held").                                 *)
(***************************************************************************)
SuspendRetried ==
  <>[](\A l \in Locks \ ({UnknownLock} \cup IdleLocks) : ~ Held(locks, l))
  => []<>(pc = "pm_suspend")

=============================================================================
