---------------------------- MODULE MCWakeLockUsers ---------------------------
(***************************************************************************)
(* What is built on wake locks for user space, on small instances: the     *)
(* locks it makes by writing names, and the statistics it reads in         *)
(* /proc/wakelocks.  They share no state, so that a behaviour is one of    *)
(* one of them, with the other at rest in its initial state.               *)
(***************************************************************************)
EXTENDS UserWakeLock, TLC

CONSTANTS main, l0, l1, l2

VARIABLES
  part,      \* the component that is looked at
  now, lock, deleted, last_update, wait_for_wakeup, lates,
  taken, timedOut, held, prevented

\* Names of one and two letters, each a prefix of others.  u64 has 7 bits
\* in the cfg, long has 4 and a jiffy 4 nanoseconds: the timeouts are around the
\* boundaries of a jiffy, up to the longest whose jiffies fit a long.
MCNames == {<<1>>, <<1, 1>>, <<1, 2>>, <<2>>}

\* One lock beside main_wake_lock with time to expire, to be taken again and
\* to expire again; or two, which share last_sleep_time_update.
Stat == INSTANCE WakeLockStats
          WITH MainLock <- main, OtherLocks <- {l0}, Timeouts <- {0, 1, 2},
               MaxTime <- 3, MaxTaken <- 2, MaxLate <- 1

TwoStat == INSTANCE WakeLockStats
             WITH MainLock <- main, OtherLocks <- {l1, l2}, Timeouts <- {1, 2},
                  MaxTime <- 3, MaxTaken <- 1, MaxLate <- 0

ASSUME UsersAssumption ==
  NamesAssumption /\ TimeoutsFit /\ Stat!TimeoutsAssumption /\ TwoStat!TimeoutsAssumption

Interchangeable == Permutations({l1, l2})

-----------------------------------------------------------------------------
stat == <<now, lock, deleted, last_update, wait_for_wakeup, lates,
          taken, timedOut, held, prevented>>
vars == <<part, userVars, stat>>

UsersInit ==
  /\ UserInit
  /\ \/ part \in {"user", "stat"} /\ Stat!StatInit
     \/ part = "two stat" /\ TwoStat!StatInit

UsersNext ==
  \/ part = "user" /\ UserNext /\ UNCHANGED <<part, stat>>
  \/ part = "stat" /\ Stat!StatNext /\ UNCHANGED <<part, userVars>>
  \/ part = "two stat" /\ TwoStat!StatNext /\ UNCHANGED <<part, userVars>>

UsersSpec == UsersInit /\ [][UsersNext]_vars

-----------------------------------------------------------------------------
\* UserLocksExact and OneLockPerName are those of UserWakeLock.

\* What /proc/wakelocks shows is what happened: the time a lock was held, whoever
\* noticed its timeout and when; the numbers of uses and of those that timed out;
\* one wakeup per passage of power_suspend_late; and the time each of two locks
\* that share last_sleep_time_update kept the system awake.  The time of a lock
\* that is destroyed is kept in deleted_wake_locks (WakeLockStats).
StatsExact ==
  [][/\ part = "stat" => Stat!StatInv' /\ Stat!OneWakeupPerSleep' /\ Stat!FinishedTimeKept
     /\ part = "two stat" => TwoStat!StatInv']_vars

=============================================================================
