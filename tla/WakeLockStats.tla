---------------------------- MODULE WakeLockStats ----------------------------
(***************************************************************************)
(* The statistics of wake locks, kernel/power/wakelock.c with              *)
(* CONFIG_WAKELOCK_STAT: what /proc/wakelocks reports of each lock.        *)
(*                                                                         *)
(* Time is absolute and in jiffies, for jiffies and for ktime_get alike.   *)
(* Of the lists only what the statistics depend on is kept: expired locks  *)
(* are taken off lazily, and not while an untimed lock of the same type is *)
(* active, because untimed locks come first (UntimedFirst of WakeLock).    *)
(* The locks here are of type WAKE_LOCK_SUSPEND; those of type             *)
(* WAKE_LOCK_IDLE keep the same counts and no sleep time.                  *)
(***************************************************************************)
EXTENDS Integers, FiniteSetsExt

CONSTANTS
  MainLock,    \* main_wake_lock
  OtherLocks,  \* the other locks
  Timeouts,    \* timeouts of wake_lock_timeout
  MaxTime,     \* bound on the time
  MaxTaken,    \* bound on how often a lock is taken
  MaxLate      \* bound on the calls of power_suspend_late

Locks == {MainLock} \cup OtherLocks

TimeoutsAssumption ==
  /\ Timeouts \subseteq Nat /\ MaxTime \in Nat /\ MaxTaken \in Nat /\ MaxLate \in Nat
  /\ MainLock \notin OtherLocks

VARIABLES
  now,          \* jiffies
  lock,         \* struct wake_lock of each lock: flags, expires and stat
  deleted,      \* deleted_wake_locks.stat
  last_update,  \* last_sleep_time_update
  wait_for_wakeup,
  \* history: what really happened, jiffy by jiffy
  taken,        \* how often each lock was taken while it was not held
  timedOut,     \* how often it was held until its timeout
  held,         \* for how many jiffies it was held
  prevented,    \* for how many of them main_wake_lock was not
  lates         \* the calls of power_suspend_late

wakeupVars == <<wait_for_wakeup, lates>>

statVars == <<now, lock, deleted, last_update, taken, timedOut, held, prevented, wakeupVars>>

\* wake_lock_init: flags and statistics of a new lock.
Fresh ==
  [init |-> TRUE, active |-> FALSE, auto |-> FALSE, preventing |-> FALSE, expires |-> 0,
   count |-> 0, expire_count |-> 0, wakeup_count |-> 0,
   total |-> 0, prevent |-> 0, max |-> 0, last |-> 0]

IsExpired(k) == k.auto /\ k.expires <= now

\* get_expired_time, or the present.
EndTime(k) == IF IsExpired(k) THEN k.expires ELSE now

-----------------------------------------------------------------------------
\* wake_unlock_stat_locked on the lock k
UnlockStat(k, expired) ==
  LET duration == EndTime(k) - k.last
  IN  IF ~k.active THEN k
      ELSE [k EXCEPT
              !.count = @ + 1,
              !.expire_count = IF expired \/ IsExpired(k) THEN @ + 1 ELSE @,
              !.total = @ + duration,
              !.max = IF duration > @ THEN duration ELSE @,
              !.last = now,
              !.prevent = IF k.preventing THEN @ + EndTime(k) - last_update ELSE @,
              !.preventing = FALSE]

\* Mutant of update_sleep_wait_stats: an expired lock is charged to the present.
update_sleep_wait_stats_late(t, done) ==
  [l \in Locks |->
     IF ~t[l].active THEN t[l]
     ELSE [t[l] EXCEPT
             !.prevent = IF t[l].preventing THEN @ + now - last_update ELSE @,
             !.preventing = ~(done \/ IsExpired(t[l]))]]

\* update_sleep_wait_stats_locked on the table t
update_sleep_wait_stats(t, done) ==
  [l \in Locks |->
     IF ~t[l].active THEN t[l]
     ELSE [t[l] EXCEPT
             !.prevent = IF t[l].preventing THEN @ + EndTime(t[l]) - last_update ELSE @,
             !.preventing = ~(done \/ IsExpired(t[l]))]]

\* Mutant of expire_wake_lock: the statistics are not brought up to date.
expire_wake_lock_no_stat(k) == [k EXCEPT !.active = FALSE, !.auto = FALSE]

expire_wake_lock(k) == [UnlockStat(k, TRUE) EXCEPT !.active = FALSE, !.auto = FALSE]

\* has_wake_lock_locked on the table t
Reaped(t) ==
  IF \E l \in Locks : t[l].active /\ ~t[l].auto THEN t
  ELSE [l \in Locks |->
          IF t[l].active /\ IsExpired(t[l]) THEN expire_wake_lock(t[l]) ELSE t[l]]

-----------------------------------------------------------------------------
\* An active lock that is not held any more: it expired and was not taken off.
Held(l) == lock[l].active /\ ~IsExpired(lock[l])

\* Mutant of Retaken: a lock that expired is taken again as if it were held.
Retaken_as_held(k) == IF k.active THEN k ELSE [k EXCEPT !.active = TRUE, !.last = now]

\* wake_lock_internal up to list_del, the wakeup left aside
Retaken(k) ==
  LET ended == IF IsExpired(k) THEN [UnlockStat(k, FALSE) EXCEPT !.last = now] ELSE k
  IN  IF ended.active THEN ended ELSE [ended EXCEPT !.active = TRUE, !.last = now]

\* The rest of wake_lock_internal.
SleepStats(t, l) ==
  /\ \/ /\ l = MainLock
        /\ lock' = update_sleep_wait_stats(t, TRUE)
        /\ last_update' = now
     \/ /\ l # MainLock /\ ~t[MainLock].active
        /\ lock' = LET u == update_sleep_wait_stats(t, FALSE)
                   IN  IF t[l].auto THEN Reaped(u) ELSE u
        /\ last_update' = now
     \/ /\ l # MainLock /\ t[MainLock].active
        /\ lock' = t   \* main_wake_lock is untimed: nothing is reaped
        /\ UNCHANGED last_update

\* Mutant of Woken: wait_for_wakeup is not cleared.
Woken_again == wait_for_wakeup' = wait_for_wakeup /\ UNCHANGED lates

\* The first lock that is taken after power_suspend_late clears the flag.
Woken ==
  /\ wait_for_wakeup' = FALSE
  /\ UNCHANGED lates

\* The lock l when it is taken, before its timeout is set.
Taken(l) ==
  IF wait_for_wakeup
    THEN [Retaken(lock[l]) EXCEPT !.wakeup_count = @ + 1]
    ELSE Retaken(lock[l])

\* The bound; main_wake_lock was taken once before.
MayTake(l) == taken[l] + deleted.count < IF l = MainLock THEN MaxTaken + 1 ELSE MaxTaken

TakeHistory(l, timeout) ==
  /\ taken' = [taken EXCEPT ![l] = IF Held(l) THEN @ ELSE @ + 1]
  /\ timedOut' = [timedOut EXCEPT ![l] = IF timeout = 0 THEN @ + 1 ELSE @]
  /\ UNCHANGED <<now, deleted, held, prevented>>

wake_lock(l) ==
  /\ lock[l].init /\ MayTake(l)
  /\ LET t == [lock EXCEPT ![l] = [Taken(l) EXCEPT !.auto = FALSE, !.expires = 0]]
     IN  SleepStats(t, l)
  /\ Woken
  /\ TakeHistory(l, MaxTime + 1)

wake_lock_timeout(l, timeout) ==
  /\ lock[l].init /\ MayTake(l)
  /\ l # MainLock
  /\ LET t == [lock EXCEPT ![l] = [Taken(l) EXCEPT !.auto = TRUE, !.expires = now + timeout]]
     IN  SleepStats(t, l)
  /\ Woken
  /\ TakeHistory(l, timeout)

\* wake_unlock_stat_locked comes before the flags are cleared, and the update
\* for main_wake_lock after has_wake_lock_locked.
wake_unlock(l) ==
  /\ lock[l].init
  /\ LET t == [lock EXCEPT ![l] = [UnlockStat(@, FALSE) EXCEPT !.active = FALSE, !.auto = FALSE]]
         u == Reaped(t)
     IN  IF l = MainLock
           THEN lock' = update_sleep_wait_stats(u, FALSE) /\ last_update' = now
           ELSE lock' = u /\ UNCHANGED last_update
  /\ UNCHANGED <<now, deleted, taken, timedOut, held, prevented, wakeupVars>>

\* has_wake_lock, from the idle loop, the expire timer or suspend().
has_wake_lock ==
  /\ lock' = Reaped(lock)
  /\ UNCHANGED <<now, deleted, last_update, taken, timedOut, held, prevented, wakeupVars>>

\* has_wake_lock is called first; the flag is set whatever it finds.
power_suspend_late ==
  /\ lates < MaxLate
  /\ lock' = Reaped(lock)
  /\ wait_for_wakeup' = TRUE
  /\ lates' = lates + 1
  /\ UNCHANGED <<now, deleted, last_update, taken, timedOut, held, prevented>>

wake_lock_init(l) ==
  /\ ~lock[l].init
  /\ lock' = [lock EXCEPT ![l] = Fresh]
  /\ taken' = [taken EXCEPT ![l] = 0]
  /\ timedOut' = [timedOut EXCEPT ![l] = 0]
  /\ held' = [held EXCEPT ![l] = 0]
  /\ prevented' = [prevented EXCEPT ![l] = 0]
  /\ UNCHANGED <<now, deleted, last_update, wakeupVars>>

\* Mutant of Accumulated: the times of the lock are dropped.
Accumulated_count_only(d, k) ==
  [d EXCEPT !.count = @ + k.count, !.expire_count = @ + k.expire_count]

Accumulated(d, k) ==
  [d EXCEPT !.count = @ + k.count, !.expire_count = @ + k.expire_count,
            !.total = @ + k.total, !.prevent = @ + k.prevent, !.max = @ + k.max]

wake_lock_destroy(l) ==
  /\ lock[l].init /\ l # MainLock
  /\ deleted' = IF lock[l].count # 0 THEN Accumulated(deleted, lock[l]) ELSE deleted
  /\ lock' = [lock EXCEPT ![l] = [Fresh EXCEPT !.init = FALSE]]
  /\ UNCHANGED <<now, last_update, taken, timedOut, held, prevented, wakeupVars>>

Tick ==
  /\ now < MaxTime
  /\ now' = now + 1
  /\ held' = [l \in Locks |-> IF Held(l) THEN held[l] + 1 ELSE held[l]]
  /\ prevented' = [l \in Locks |->
       IF Held(l) /\ ~lock[MainLock].active
         THEN prevented[l] + 1 ELSE prevented[l]]
  /\ timedOut' = [l \in Locks |->
       IF Held(l) /\ lock[l].auto /\ lock[l].expires = now + 1
         THEN timedOut[l] + 1 ELSE timedOut[l]]
  /\ UNCHANGED <<lock, deleted, last_update, taken, wakeupVars>>

-----------------------------------------------------------------------------
\* print_lock_stat: what is shown of lock k, with what its current use adds.
Shown(k) ==
  LET add == IF k.active THEN EndTime(k) - k.last ELSE 0
  IN  [count |-> IF k.active THEN k.count + 1 ELSE k.count,
       expire_count |-> IF k.active /\ IsExpired(k) THEN k.expire_count + 1 ELSE k.expire_count,
       active_since |-> IF IsExpired(k) THEN 0 ELSE add,
       total |-> k.total + add,
       prevent |-> IF k.active /\ k.preventing THEN k.prevent + EndTime(k) - last_update ELSE k.prevent,
       max |-> IF add > k.max THEN add ELSE k.max]

\* wakelocks_init: main_wake_lock is taken.
StatInit ==
  /\ now = 0
  /\ lock = [l \in Locks |-> IF l = MainLock THEN [Fresh EXCEPT !.active = TRUE] ELSE Fresh]
  /\ deleted = Fresh
  /\ last_update = 0
  /\ wait_for_wakeup = FALSE /\ lates = 0
  /\ taken = [l \in Locks |-> IF l = MainLock THEN 1 ELSE 0]
  /\ timedOut = [l \in Locks |-> 0]
  /\ held = [l \in Locks |-> 0] /\ prevented = [l \in Locks |-> 0]

StatNext ==
  \/ \E l \in Locks :
       \/ wake_lock(l)
       \/ \E timeout \in Timeouts : wake_lock_timeout(l, timeout)
       \/ wake_unlock(l)
       \/ wake_lock_init(l)
       \/ wake_lock_destroy(l)
  \/ has_wake_lock
  \/ power_suspend_late
  \/ Tick

StatSpec == StatInit /\ [][StatNext]_statVars

-----------------------------------------------------------------------------
(***************************************************************************)
(* The total time shown of a lock is the time it was really held, although *)
(* locks that expire are taken off late, by whoever looks next, or are     *)
(* taken again before anybody looked; no use was longer than the maximum.  *)
(***************************************************************************)
TotalTimeExact ==
  \A l \in Locks : lock[l].init =>
    /\ Shown(lock[l]).total = held[l]
    /\ Shown(lock[l]).active_since <= Shown(lock[l]).max
    /\ Shown(lock[l]).max <= held[l]

(***************************************************************************)
(* The sleep time shown of a lock is the time it was held while            *)
(* main_wake_lock was not: the flag WAKE_LOCK_PREVENTING_SUSPEND and       *)
(* last_sleep_time_update, shared by all locks, charge each of them with   *)
(* no moment twice and with none after it expired.                         *)
(***************************************************************************)
SleepTimeExact ==
  \A l \in Locks : lock[l].init => Shown(lock[l]).prevent = prevented[l]

(***************************************************************************)
(* Each use of a lock is counted once, and as expired if it ended with its *)
(* timeout, even if it is unlocked or taken again after that.              *)
(***************************************************************************)
CountsExact ==
  \A l \in Locks : lock[l].init =>
    /\ Shown(lock[l]).count = taken[l]
    /\ Shown(lock[l]).expire_count = timedOut[l]

(***************************************************************************)
(* At most one lock is credited with a wakeup for each time the system was *)
(* about to sleep.                                                         *)
(***************************************************************************)
OneWakeupPerSleep ==
  MapThenSumSet(LAMBDA l : lock[l].wakeup_count, Locks) <= lates

\* The time of all finished uses, of destroyed locks too.
FinishedTime == deleted.total + MapThenSumSet(LAMBDA l : lock[l].total, Locks)

(***************************************************************************)
(* No finished use is forgotten: destroying a lock moves its time to the   *)
(* line of the deleted locks.                                              *)
(***************************************************************************)
FinishedTimeKept == FinishedTime' >= FinishedTime

-----------------------------------------------------------------------------
LockRecords ==
  [init : BOOLEAN, active : BOOLEAN, auto : BOOLEAN, preventing : BOOLEAN, expires : Int,
   count : Int, expire_count : Int, wakeup_count : Int,
   total : Int, prevent : Int, max : Int, last : Int]

StatTypeOK ==
  /\ now \in 0 .. MaxTime /\ last_update \in Int /\ wait_for_wakeup \in BOOLEAN
  /\ lock \in [Locks -> LockRecords]
  /\ taken \in [Locks -> Int] /\ timedOut \in [Locks -> Int]
  /\ held \in [Locks -> Int] /\ prevented \in [Locks -> Int]

\* Between two calls: a lock that is not active has no timeout and is not charged;
\* its longest use is one of its uses, its present one has begun; and each lock
\* that is held is charged exactly while main_wake_lock, which has no timeout and is
\* never destroyed, is not.
SettledInv ==
  /\ lock[MainLock].init /\ ~ lock[MainLock].auto
  /\ \A l \in Locks :
       /\ ~ lock[l].active => ~ lock[l].auto /\ ~ lock[l].preventing
       /\ 0 <= lock[l].max /\ lock[l].max <= lock[l].total
       /\ lock[l].active =>
            /\ lock[l].last <= EndTime(lock[l])
            /\ IF lock[MainLock].active THEN ~ lock[l].preventing
               ELSE IsExpired(lock[l]) \/ lock[l].preventing

StatInv == StatTypeOK /\ SettledInv /\ TotalTimeExact /\ SleepTimeExact /\ CountsExact

=============================================================================
