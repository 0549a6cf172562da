---------------------------- MODULE RemoteSpinlock ---------------------------
(***************************************************************************)
(* The lock in memory shared with the modem: remote_spin_lock and          *)
(* remote_mutex_lock of include/linux/remote_spinlock.h over the variant   *)
(* MSM_REMOTE_SPINLOCK_DEKKERS of mach/remote_spinlock.h, one step for     *)
(* each access to the shared word.  The processor on the other side runs   *)
(* the mirror image of the code; on each side a local lock leaves one      *)
(* thread to contend.  The word is device memory: accesses take effect in  *)
(* program order.                                                          *)
(***************************************************************************)
EXTENDS Naturals

CONSTANTS
  Threads,
  NoThread,
  CpuOf,     \* the processor of each thread
  Way        \* how each thread takes the lock: "spin", "try" or "mutex"

Cpus == {"apps", "modem"}
Other(c) == IF c = "apps" THEN "modem" ELSE "apps"

ASSUME RemoteAssumption ==
  /\ NoThread \notin Threads
  /\ CpuOf \in [Threads -> Cpus]
  /\ Way \in [Threads -> {"spin", "try", "mutex"}]

VARIABLES
  self_lock,   \* of each processor: dek.self_lock, the other's dek.other_lock
  next_yield,  \* the processor for which it is DEK_YIELD_TURN_SELF
  local,       \* of each processor: the thread with the local lock
  pc

remoteVars == <<self_lock, next_yield, local, pc>>

Steps == {"idle", "request", "test", "turn", "yield", "spin", "take", "locked", "unlock",
          "try_request", "try_test", "try_back", "delay"}

TypeOK ==
  /\ self_lock \in [Cpus -> BOOLEAN]
  /\ next_yield \in Cpus
  /\ local \in [Cpus -> Threads \cup {NoThread}]
  /\ pc \in [Threads -> Steps]

-----------------------------------------------------------------------------
OtherLock(t) == self_lock[Other(CpuOf[t])]

Goto(t, from, to) == pc[t] = from /\ pc' = [pc EXCEPT ![t] = to]

Store(t, request) == self_lock' = [self_lock EXCEPT ![CpuOf[t]] = request]

\* spin_lock or mutex_lock of the local lock.
remote_lock(t) ==
  /\ local[CpuOf[t]] = NoThread
  /\ local' = [local EXCEPT ![CpuOf[t]] = t]
  /\ Goto(t, "idle", IF Way[t] = "spin" THEN "request" ELSE "try_request")
  /\ UNCHANGED <<self_lock, next_yield>>

\* __raw_remote_dek_spin_lock
dek_request(t) ==
  /\ Goto(t, "request", "test")
  /\ Store(t, TRUE)
  /\ UNCHANGED <<next_yield, local>>

\* Mutant of dek_test: the test is left out after the first wait.
dek_test_once(t) ==
  /\ \/ OtherLock(t) /\ next_yield = CpuOf[t] /\ Goto(t, "test", "turn")
     \/ (~ OtherLock(t) \/ next_yield # CpuOf[t]) /\ Goto(t, "test", "take")
  /\ UNCHANGED <<self_lock, next_yield, local>>

dek_test(t) ==
  /\ Goto(t, "test", IF OtherLock(t) THEN "turn" ELSE "take")
  /\ UNCHANGED <<self_lock, next_yield, local>>

\* Mutant of dek_turn: both sides yield.
dek_turn_both(t) ==
  /\ Goto(t, "turn", "yield")
  /\ UNCHANGED <<self_lock, next_yield, local>>

dek_turn(t) ==
  /\ Goto(t, "turn", IF next_yield = CpuOf[t] THEN "yield" ELSE "spin")
  /\ UNCHANGED <<self_lock, next_yield, local>>

dek_yield(t) ==
  /\ Goto(t, "yield", "spin")
  /\ Store(t, FALSE)
  /\ UNCHANGED <<next_yield, local>>

dek_spin(t) ==
  /\ ~ OtherLock(t)
  /\ Goto(t, "spin", "request")
  /\ UNCHANGED <<self_lock, next_yield, local>>

\* The end of lock and of trylock.
dek_take(t) ==
  /\ Goto(t, "take", "locked")
  /\ next_yield' = CpuOf[t]
  /\ UNCHANGED <<self_lock, local>>

\* __raw_remote_dek_spin_trylock
dek_try_request(t) ==
  /\ Goto(t, "try_request", "try_test")
  /\ Store(t, TRUE)
  /\ UNCHANGED <<next_yield, local>>

dek_try_test(t) ==
  /\ Goto(t, "try_test", IF OtherLock(t) THEN "try_back" ELSE "take")
  /\ UNCHANGED <<self_lock, next_yield, local>>

\* Mutant of dek_try_back: the local lock is given back while the other side
\* is still waited for.
dek_try_back_idle(t) ==
  /\ Goto(t, "try_back", IF Way[t] = "mutex" THEN "delay" ELSE "unlock")
  /\ Store(t, FALSE)
  /\ local' = [local EXCEPT ![CpuOf[t]] = NoThread]
  /\ UNCHANGED next_yield

\* trylock fails: remote_spin_trylock gives the local lock back,
\* _remote_mutex_lock waits and tries again.
dek_try_back(t) ==
  /\ Goto(t, "try_back", IF Way[t] = "mutex" THEN "delay" ELSE "unlock")
  /\ Store(t, FALSE)
  /\ UNCHANGED <<next_yield, local>>

mutex_delay(t) ==
  /\ Goto(t, "delay", "try_request")
  /\ UNCHANGED <<self_lock, next_yield, local>>

\* __raw_remote_dek_spin_unlock, then the local lock.
dek_unlock(t) ==
  /\ Goto(t, "locked", "unlock")
  /\ Store(t, FALSE)
  /\ UNCHANGED <<next_yield, local>>

local_unlock(t) ==
  /\ Goto(t, "unlock", "idle")
  /\ local' = [local EXCEPT ![CpuOf[t]] = NoThread]
  /\ UNCHANGED <<self_lock, next_yield>>

\* The memory is zero at first: 0 is DEK_YIELD_TURN_SELF here.
RemoteInit ==
  /\ self_lock = [c \in Cpus |-> FALSE]
  /\ next_yield = "apps"
  /\ local = [c \in Cpus |-> NoThread]
  /\ pc = [t \in Threads |-> "idle"]

InCall(t) ==
  \/ dek_request(t) \/ dek_test(t) \/ dek_turn(t) \/ dek_yield(t) \/ dek_spin(t) \/ dek_take(t)
  \/ dek_try_request(t) \/ dek_try_test(t) \/ dek_try_back(t) \/ mutex_delay(t)
  \/ dek_unlock(t) \/ local_unlock(t)

RemoteNext == \E t \in Threads : remote_lock(t) \/ InCall(t)

\* A processor with a thread in the lock keeps going: the thread spins with
\* preemption off.
RemoteFairness == \A t \in Threads : WF_remoteVars(InCall(t))

RemoteSpec == RemoteInit /\ [][RemoteNext]_remoteVars /\ RemoteFairness

-----------------------------------------------------------------------------
(***************************************************************************)
(* Properties.                                                             *)
(***************************************************************************)

Holding == {"take", "locked"}

\* No two threads, of one processor or of both, are in the section between
\* lock and unlock, whichever way they came in.
MutualExclusion ==
  \A t, u \in Threads : pc[t] \in Holding /\ pc[u] \in Holding => t = u

\* The inductive form: a thread in the lock has the local lock of its
\* processor and only it (so there is one contender on each side), and from
\* its request to its unlock, but for the time it has yielded, its word is set.
OneContender ==
  \A t \in Threads : pc[t] # "idle" <=> local[CpuOf[t]] = t

RequestStands ==
  \A t \in Threads :
    pc[t] \in Holding \cup {"test", "turn", "yield", "try_test", "try_back"} => self_lock[CpuOf[t]]

RemoteInv == TypeOK /\ OneContender /\ RequestStands /\ MutualExclusion

\* A thread in remote_spin_lock does not wait in vain for nothing: somebody
\* gets the lock, be it a thread of the other side.  (A collision in which
\* each waits for the other to yield would be a deadlock of two processors.)
SomebodyLocks ==
  \A t \in Threads :
    pc[t] \in {"request", "test", "turn", "yield", "spin"} ~> \E u \in Threads : pc[u] = "locked"

\* What Dekker's algorithm promises beyond that: the thread that waits gets
\* the lock in the end.
WaiterLocks ==
  \A t \in Threads :
    pc[t] \in {"request", "test", "turn", "yield", "spin"} ~> pc[t] = "locked"
=============================================================================
