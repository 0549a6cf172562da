---------------------------- MODULE SuspendProofs ----------------------------
(***************************************************************************)
(* Proofs about WakeLock, EarlySuspend and SystemSuspend, each of which    *)
(* extends the one before.  The active lists are in order and, as long as  *)
(* drivers do not destroy a lock they hold, no suspend is forgotten.       *)
(* Early suspend uses the wake locks as WakeLock allows, main_wake_lock is *)
(* released last, hooks are called in order and none is missed or called   *)
(* twice.  The whole system implements early suspend, and the device       *)
(* sleeps only as requested and only over locks taken after the last check.*)
(***************************************************************************)
EXTENDS SystemSuspend, TLAPS

-----------------------------------------------------------------------------
(***************************************************************************)
(* Facts about the operations on a lock table w.                           *)
(***************************************************************************)

\* Each operation on the table yields a table.
LEMMA TableTypes ==
  ASSUME NEW w \in LockTable
  PROVE  /\ \A l \in Locks : LockedUntimed(w, l) \in LockTable
         /\ \A l \in Locks, t \in Nat : LockedTimed(w, l, t) \in LockTable
         /\ \A l \in Locks, st \in LockState : Unlinked(w, l, st) \in LockTable
         /\ \A type : Reap(w, type) \in LockTable
<1>1. ASSUME NEW l \in Locks PROVE LockedUntimed(w, l) \in LockTable
  BY DEF LockTable, LockState, LockedUntimed, list_add, list_del, Active
<1>2. ASSUME NEW l \in Locks, NEW t \in Nat PROVE LockedTimed(w, l, t) \in LockTable
  BY DEF LockTable, LockState, LockedTimed, list_add_tail, list_del, Active
<1>3. ASSUME NEW l \in Locks, NEW st \in LockState PROVE Unlinked(w, l, st) \in LockTable
  BY DEF LockTable, Unlinked, list_del
<1>4. ASSUME NEW type PROVE Reap(w, type) \in LockTable
  BY DEF LockTable, LockState, Reap, expire_wake_lock
<1> QED BY <1>1, <1>2, <1>3, <1>4

\* wake_lock puts a lock in front of its list and wake_lock_timeout behind
\* it: the locks without a timeout stay in front.
LEMMA OrderKept ==
  ASSUME NEW w \in LockTable, UntimedPrecede(w)
  PROVE  /\ \A l \in Locks : UntimedPrecede(LockedUntimed(w, l))
         /\ \A l \in Locks, t \in Nat : UntimedPrecede(LockedTimed(w, l, t))
         /\ \A l \in Locks : UntimedPrecede(Unlinked(w, l, "inactive"))
         /\ \A l \in Locks : UntimedPrecede(Unlinked(w, l, "none"))
         /\ \A type : UntimedPrecede(Reap(w, type))
<1>1. ASSUME NEW l \in Locks PROVE UntimedPrecede(LockedUntimed(w, l))
  BY DEF LockTable, UntimedPrecede, LockedUntimed, list_add, list_del, Active
<1>2. ASSUME NEW l \in Locks, NEW t \in Nat PROVE UntimedPrecede(LockedTimed(w, l, t))
  BY DEF LockTable, UntimedPrecede, LockedTimed, list_add_tail, list_del, Active
<1>3. ASSUME NEW l \in Locks PROVE UntimedPrecede(Unlinked(w, l, "inactive"))
  BY DEF LockTable, UntimedPrecede, Unlinked, list_del
<1>4. ASSUME NEW l \in Locks PROVE UntimedPrecede(Unlinked(w, l, "none"))
  BY DEF LockTable, UntimedPrecede, Unlinked, list_del
<1>5. ASSUME NEW type PROVE UntimedPrecede(Reap(w, type))
  BY DEF LockTable, UntimedPrecede, Reap, expire_wake_lock
<1> QED BY <1>1, <1>2, <1>3, <1>4, <1>5

\* What the value of has_wake_lock_locked says of the table it leaves behind.
LEMMA VerdictMeans ==
  ASSUME NEW w \in LockTable, NEW r, has_wake_lock_locked(w, "SUSPEND", r)
  PROVE  /\ r \in Nat \cup {-1}
         /\ r = -1 => Untimed(Reap(w, "SUSPEND"), "SUSPEND") # {}
         /\ r = 0 => Active(Reap(w, "SUSPEND"), "SUSPEND") = {}
         /\ r > 0 => /\ Active(Reap(w, "SUSPEND"), "SUSPEND") # {}
                     /\ \A l \in Active(Reap(w, "SUSPEND"), "SUSPEND") :
                          Reap(w, "SUSPEND").left[l] <= r
<1> DEFINE v == Reap(w, "SUSPEND")
<1>1. r \in Nat \cup {-1}
  BY DEF has_wake_lock_locked, LockTable, Active
<1>2. ASSUME r = -1 PROVE Untimed(v, "SUSPEND") # {}
  <2>1. Untimed(w, "SUSPEND") # {}
    BY <1>2 DEF has_wake_lock_locked, LockTable, Active
  <2>2. PICK u \in Locks : w.st[u] = "active" /\ TypeOf(u) = "SUSPEND" /\ ~ w.timed[u]
    BY <2>1 DEF Untimed, Active
  <2>3. v.st[u] = "active" /\ ~ v.timed[u]
    BY <2>2 DEF LockTable, Reap, expire_wake_lock, IsExpired
  <2> QED BY <2>2, <2>3 DEF Untimed, Active
<1>3. ASSUME r = 0 PROVE Active(v, "SUSPEND") = {}
  <2>1. Untimed(w, "SUSPEND") = {}
    BY <1>3 DEF has_wake_lock_locked
  <2>2. \A l \in Active(w, "SUSPEND") : w.left[l] = 0 /\ w.timed[l]
    BY <1>3, <2>1 DEF has_wake_lock_locked, LockTable, Untimed, Active
  <2>3. \A l \in Active(w, "SUSPEND") : l \in Reached(w, "SUSPEND") /\ IsExpired(w, l)
    BY <2>1, <2>2 DEF Reached, IsExpired
  <2> QED BY <2>3 DEF LockTable, Reap, expire_wake_lock, Active
<1>4. ASSUME r > 0
      PROVE  /\ Active(v, "SUSPEND") # {}
             /\ \A l \in Active(v, "SUSPEND") : v.left[l] <= r
  <2>1. PICK l \in Active(w, "SUSPEND") : w.left[l] = r
    BY <1>4, <1>1 DEF has_wake_lock_locked
  <2>2. l \in Active(v, "SUSPEND")
    BY <2>1, <1>4 DEF LockTable, Reap, expire_wake_lock, IsExpired, Active
  <2>3. \A k \in Active(v, "SUSPEND") : k \in Active(w, "SUSPEND") /\ v.left[k] = w.left[k]
    BY DEF LockTable, Reap, expire_wake_lock, Active
  <2> QED BY <2>2, <2>3, <1>4, <1>1 DEF has_wake_lock_locked
<1> QED BY <1>1, <1>2, <1>3, <1>4

-----------------------------------------------------------------------------
(***************************************************************************)
(* The type invariant.                                                     *)
(***************************************************************************)

\* queue_work keeps the type of the queue and leaves the item queued.
LEMMA QueueWorkType ==
  ASSUME NEW S, NEW q \in Seq(S), NEW item \in S
  PROVE  /\ queue_work(q, item) \in Seq(S)
         /\ \E i \in DOMAIN queue_work(q, item) : queue_work(q, item)[i] = item
         /\ \A i \in DOMAIN q : i \in DOMAIN queue_work(q, item) /\ queue_work(q, item)[i] = q[i]
BY DEF queue_work

\* RearmOrQueue keeps the types of the timer and of the queue.
LEMMA RearmType ==
  ASSUME WLTypeOK, NEW r \in Nat \cup {-1}, RearmOrQueue(r)
  PROVE  expire_timer' \in Nat \cup {NotPending} /\ worklist' \in Seq(Works)
<1>1. queue_work(worklist, "suspend") \in Seq(Works)
  BY QueueWorkType DEF WLTypeOK, Works
<1> QED BY <1>1 DEF RearmOrQueue, WLTypeOK, NotPending

\* The four entry points of wakelock.c keep the types.
LEMMA CallType ==
  ASSUME WLTypeOK, NEW l \in Locks
  PROVE  /\ wake_lock(l) /\ worklist' \in Seq(Works) /\ pc' \in Labels => WLTypeOK'
         /\ \A t \in Nat : wake_lock_timeout(l, t) /\ pc' \in Labels => WLTypeOK'
         /\ wake_unlock(l) /\ pc' \in Labels => WLTypeOK'
         /\ wake_lock_init(l) /\ UNCHANGED pc => WLTypeOK'
         /\ wake_lock_destroy(l) /\ UNCHANGED pc => WLTypeOK'
<1>1. ASSUME wake_lock(l), worklist' \in Seq(Works), pc' \in Labels PROVE WLTypeOK'
  BY <1>1, TableTypes DEF WLTypeOK, wake_lock, NotPending
<1>2. ASSUME NEW t \in Nat, wake_lock_timeout(l, t), pc' \in Labels PROVE WLTypeOK'
  <2>1. LockedTimed(locks, l, t) \in LockTable
    BY TableTypes DEF WLTypeOK
  <2>2. locks' \in LockTable
    BY <1>2, <2>1, TableTypes DEF wake_lock_timeout
  <2>3. CASE TypeOf(l) = "SUSPEND"
    <3>1. PICK r : has_wake_lock_locked(LockedTimed(locks, l, t), "SUSPEND", r) /\ RearmOrQueue(r)
      BY <1>2, <2>3 DEF wake_lock_timeout
    <3>2. r \in Nat \cup {-1}
      BY <3>1, <2>1, VerdictMeans
    <3>3. new_event' = TRUE
      BY <1>2, <2>3 DEF wake_lock_timeout
    <3> QED BY <1>2, <2>2, <3>1, <3>2, <3>3, RearmType DEF WLTypeOK
  <2>4. CASE TypeOf(l) # "SUSPEND"
    BY <1>2, <2>2, <2>4 DEF wake_lock_timeout, WLTypeOK
  <2> QED BY <2>3, <2>4
<1>3. ASSUME wake_unlock(l), pc' \in Labels PROVE WLTypeOK'
  <2>1. Unlinked(locks, l, "inactive") \in LockTable
    BY TableTypes DEF WLTypeOK, LockState
  <2>2. locks' \in LockTable
    BY <1>3, <2>1, TableTypes DEF wake_unlock
  <2>3. CASE TypeOf(l) = "SUSPEND"
    <3>1. PICK r : has_wake_lock_locked(Unlinked(locks, l, "inactive"), "SUSPEND", r) /\ RearmOrQueue(r)
      BY <1>3, <2>3 DEF wake_unlock
    <3>2. r \in Nat \cup {-1}
      BY <3>1, <2>1, VerdictMeans
    <3> QED BY <1>3, <2>2, <3>1, <3>2, RearmType DEF WLTypeOK, wake_unlock
  <2>4. CASE TypeOf(l) # "SUSPEND"
    BY <1>3, <2>2, <2>4 DEF wake_unlock, WLTypeOK
  <2> QED BY <2>3, <2>4
<1>4. ASSUME wake_lock_init(l), UNCHANGED pc PROVE WLTypeOK'
  BY <1>4, TableTypes DEF WLTypeOK, wake_lock_init, LockState
<1>5. ASSUME wake_lock_destroy(l), UNCHANGED pc PROVE WLTypeOK'
  BY <1>5, TableTypes DEF WLTypeOK, wake_lock_destroy, LockState
<1> QED BY <1>1, <1>2, <1>3, <1>4, <1>5

\* What has_wake_lock does to the table leaves its type and its order.
LEMMA PollKeeps ==
  ASSUME WLTypeOK, UntimedFirst, NEW r, has_wake_lock("SUSPEND", r)
  PROVE  locks' \in LockTable /\ UntimedPrecede(locks')
BY TableTypes, OrderKept DEF WLTypeOK, UntimedFirst, has_wake_lock

\* The entry points keep the order of the active lists.
LEMMA CallOrder ==
  ASSUME WLTypeOK, UntimedFirst, NEW l \in Locks
  PROVE  /\ wake_lock(l) => UntimedFirst'
         /\ \A t \in Nat : wake_lock_timeout(l, t) => UntimedFirst'
         /\ wake_unlock(l) => UntimedFirst'
         /\ wake_lock_init(l) => UntimedFirst'
         /\ wake_lock_destroy(l) => UntimedFirst'
<1> USE DEF WLTypeOK, UntimedFirst
<1>1. ASSUME wake_lock(l) PROVE UntimedPrecede(locks')
  BY <1>1, OrderKept DEF wake_lock
<1>2. ASSUME NEW t \in Nat, wake_lock_timeout(l, t) PROVE UntimedPrecede(locks')
  <2>1. /\ LockedTimed(locks, l, t) \in LockTable
        /\ UntimedPrecede(LockedTimed(locks, l, t))
    BY TableTypes, OrderKept
  <2> QED BY <1>2, <2>1, OrderKept DEF wake_lock_timeout
<1>3. ASSUME wake_unlock(l) PROVE UntimedPrecede(locks')
  <2>1. /\ Unlinked(locks, l, "inactive") \in LockTable
        /\ UntimedPrecede(Unlinked(locks, l, "inactive"))
    BY TableTypes, OrderKept DEF LockState
  <2> QED BY <1>3, <2>1, OrderKept DEF wake_unlock
<1>4. ASSUME wake_lock_init(l) PROVE UntimedPrecede(locks')
  BY <1>4, OrderKept DEF wake_lock_init
<1>5. ASSUME wake_lock_destroy(l) PROVE UntimedPrecede(locks')
  BY <1>5, OrderKept DEF wake_lock_destroy
<1>6. UntimedPrecede(locks') => UntimedPrecede(locks)'
  BY DEF UntimedPrecede
<1> QED BY <1>1, <1>2, <1>3, <1>4, <1>5, <1>6

Ordered == WLTypeOK /\ UntimedFirst

\* Every step keeps the types and the order of the lists.
LEMMA OrderedStep ==
  ASSUME Ordered, [WLNext]_wlVars
  PROVE  Ordered'
<1> USE DEF Ordered
<1>0. MainLock \in Locks /\ UnknownLock \in Locks
  BY DEF Locks
<1>1. CASE QueueOtherWork
  <2>1. PICK item \in OtherWorks : worklist' = queue_work(worklist, item)
    BY <1>1 DEF QueueOtherWork
  <2>2. worklist' \in Seq(Works)
    BY <2>1, QueueWorkType DEF WLTypeOK, Works
  <2>3. pc' \in Labels
    BY <1>1 DEF QueueOtherWork, WLTypeOK
  <2>4. CASE wake_lock(MainLock)
    BY <1>0, <2>2, <2>3, <2>4, CallType, CallOrder
  <2>5. CASE UNCHANGED <<locks, expire_timer, new_event>>
    BY <2>2, <2>3, <2>5 DEF WLTypeOK, UntimedFirst, UntimedPrecede
  <2> QED BY <1>1, <2>4, <2>5 DEF QueueOtherWork
<1>2. CASE OtherWorkDone
  <2>1. pc' \in Labels
    BY <1>2 DEF OtherWorkDone, Labels
  <2>2. CASE wake_unlock(MainLock)
    BY <1>0, <2>1, <2>2, CallType, CallOrder
  <2>3. CASE UNCHANGED <<locks, expire_timer, worklist, new_event>>
    BY <2>1, <2>3 DEF WLTypeOK, UntimedFirst, UntimedPrecede
  <2> QED BY <1>2, <2>2, <2>3 DEF OtherWorkDone
<1>3. CASE \E l \in KernelLocks \cup IdleLocks : DriverCall(l)
  <2>1. PICK l \in Locks : DriverCall(l)
    BY <1>3 DEF Locks
  <2>2. pc' \in Labels /\ UNCHANGED pc
    BY <2>1 DEF DriverCall, WLTypeOK
  <2>3. CASE wake_lock(l) /\ UNCHANGED worklist
    BY <2>2, <2>3, CallType, CallOrder DEF WLTypeOK
  <2>4. CASE \E t \in Timeouts : wake_lock_timeout(l, t)
    BY <2>2, <2>4, CallType, CallOrder, TimeoutsAssumption
  <2> QED BY <2>1, <2>2, <2>3, <2>4, CallType, CallOrder DEF DriverCall
<1>4. CASE \E l \in UserLocks : wake_lock_store(l) \/ wake_unlock_store(l)
  <2>1. PICK l \in Locks : wake_lock_store(l) \/ wake_unlock_store(l)
    BY <1>4 DEF Locks
  <2>2. pc' \in Labels
    BY <2>1 DEF wake_lock_store, wake_unlock_store, WLTypeOK
  <2>3. CASE wake_lock(l) /\ UNCHANGED worklist
    BY <2>2, <2>3, CallType, CallOrder DEF WLTypeOK
  <2>4. CASE \E t \in Timeouts : wake_lock_timeout(l, t)
    BY <2>2, <2>4, CallType, CallOrder, TimeoutsAssumption
  <2> QED BY <2>1, <2>2, <2>3, <2>4, CallType, CallOrder DEF wake_lock_store, wake_unlock_store
<1>5. CASE arch_idle
  <2>1. /\ Reap(locks, "IDLE") \in LockTable
        /\ UntimedPrecede(Reap(locks, "IDLE"))
    BY TableTypes, OrderKept DEF WLTypeOK, UntimedFirst
  <2>2. locks' \in LockTable /\ UntimedPrecede(locks')
    BY <1>5, <2>1, TableTypes, OrderKept DEF arch_idle
  <2> QED BY <1>5, <2>2 DEF arch_idle, WLTypeOK, UntimedFirst, UntimedPrecede
<1>6. CASE expire_wake_locks
  <2>1. locks' \in LockTable /\ UntimedPrecede(locks')
    BY <1>6, PollKeeps DEF expire_wake_locks
  <2>2. worklist' \in Seq(Works)
    BY <1>6, QueueWorkType DEF expire_wake_locks, WLTypeOK, Works
  <2> QED BY <1>6, <2>1, <2>2 DEF expire_wake_locks, WLTypeOK, UntimedFirst, UntimedPrecede, NotPending
<1>7. CASE Tick
  <2>1. \A n \in Nat \cup {NotPending} : Decrement(n) \in Nat \cup {NotPending}
    BY DEF Decrement, NotPending
  <2>2. \A n \in Nat : Decrement(n) \in Nat
    BY DEF Decrement
  <2>3. locks' \in LockTable
    BY <1>7, <2>2 DEF Tick, WLTypeOK, LockTable
  <2>4. locks'.st = locks.st /\ locks'.timed = locks.timed /\ locks'.before = locks.before
    BY <1>7 DEF Tick, WLTypeOK, LockTable
  <2>5. UntimedFirst'
    BY <2>4 DEF UntimedFirst, UntimedPrecede
  <2> QED BY <1>7, <2>1, <2>3, <2>5 DEF Tick, WLTypeOK
<1>8. CASE run_workqueue
  BY <1>8 DEF run_workqueue, WLTypeOK, Works, Labels, UntimedFirst, UntimedPrecede
<1>9. CASE SuspendWork
  <2>1. CASE suspend_check
    <3>1. locks' \in LockTable /\ UntimedPrecede(locks')
      BY <2>1, PollKeeps DEF suspend_check
    <3>2. pc' \in Labels
      BY <2>1 DEF suspend_check, Labels
    <3> QED BY <2>1, <3>1, <3>2 DEF suspend_check, WLTypeOK, UntimedFirst, UntimedPrecede
  <2>2. CASE suspend_entry
    BY <2>2 DEF suspend_entry, WLTypeOK, Labels, UntimedFirst, UntimedPrecede
  <2>3. CASE suspend_exit
    <3>1. pc' \in Labels
      BY <2>3 DEF suspend_exit, Labels
    <3>2. CASE new_event
      BY <2>3, <3>1, <3>2 DEF suspend_exit, WLTypeOK, UntimedFirst, UntimedPrecede
    <3>3. CASE ~ new_event
      BY <1>0, <2>3, <3>1, <3>3, CallType, CallOrder, TimeoutsAssumption DEF suspend_exit
    <3> QED BY <3>2, <3>3
  <2> QED BY <1>9, <2>1, <2>2, <2>3 DEF SuspendWork
<1>10. CASE pm_suspend_poll
  <2>1. locks' \in LockTable /\ UntimedPrecede(locks')
    BY <1>10, PollKeeps DEF pm_suspend_poll
  <2> QED BY <1>10, <2>1 DEF pm_suspend_poll, WLTypeOK, UntimedFirst, UntimedPrecede
<1>11. CASE pm_suspend_return
  BY <1>11 DEF pm_suspend_return, WLTypeOK, Labels, UntimedFirst, UntimedPrecede
<1>12. CASE UNCHANGED wlVars
  BY <1>12 DEF wlVars, WLTypeOK, UntimedFirst, UntimedPrecede
<1> QED
  BY <1>1, <1>2, <1>3, <1>4, <1>5, <1>6, <1>7, <1>8, <1>9, <1>10, <1>11, <1>12 DEF WLNext

\* Initially all lists are in order.
LEMMA OrderedInit == WLInit => Ordered
BY DEF WLInit, Ordered, WLTypeOK, UntimedFirst, UntimedPrecede, LockTable, LockState,
       NotPending, Works, Labels

\* The variables of wakelock.c keep their types.
THEOREM WLTypeCorrect == WLSafety => []WLTypeOK
<1>1. Ordered => WLTypeOK
  BY DEF Ordered
<1> QED BY <1>1, OrderedInit, OrderedStep, PTL DEF WLSafety

\* On the active lists the locks without a timeout always come first, so the
\* walk of has_wake_lock_locked may stop at the first of them.
THEOREM UntimedAlwaysFirst == WLSafety => []UntimedFirst
<1>1. Ordered => UntimedFirst
  BY DEF Ordered
<1> QED BY <1>1, OrderedInit, OrderedStep, PTL DEF WLSafety

-----------------------------------------------------------------------------
(***************************************************************************)
(* No suspend is forgotten.  SuspendNotForgotten is not inductive: a       *)
(* suspend() that returns because an event came in (new_event) leaves      *)
(* nothing behind, so whatever set new_event must have queued suspend_work *)
(* or armed the timer.  Watched says so.                                   *)
(***************************************************************************)
Awaits == IsQueued("suspend") \/ expire_timer # NotPending

\* suspend() will look at the locks, or ends by taking unknown_wakeup.
WillRetry ==
  \/ pc \in {"suspend", "suspend_entry"}
  \/ pc \in {"pm_suspend", "suspend_exit"} /\ ~ new_event

Watched == Active(locks, "SUSPEND") = {} => Awaits \/ WillRetry

Vigilant == Ordered /\ TimerCoversTimedLocks /\ Watched

\* What the code does with the value of has_wake_lock_locked is what the
\* table it leaves behind needs.
LEMMA RearmSuffices ==
  ASSUME WLTypeOK, NEW w \in LockTable, NEW r, has_wake_lock_locked(w, "SUSPEND", r),
         RearmOrQueue(r), locks' = Reap(w, "SUSPEND")
  PROVE  TimerCoversTimedLocks' /\ (Active(locks, "SUSPEND")' = {} => Awaits')
<1>1. /\ r \in Nat \cup {-1}
      /\ r = -1 => Untimed(locks', "SUSPEND") # {}
      /\ r = 0 => Active(locks', "SUSPEND") = {}
      /\ r > 0 => /\ Active(locks', "SUSPEND") # {}
                  /\ \A l \in Active(locks', "SUSPEND") : locks'.left[l] <= r
  BY VerdictMeans
<1>2. CASE r = -1
  BY <1>1, <1>2 DEF TimerCoversTimedLocks, Untimed, Active
<1>3. CASE r = 0
  <2>1. worklist' = queue_work(worklist, "suspend")
    BY <1>3 DEF RearmOrQueue
  <2>2. \E i \in DOMAIN worklist' : worklist'[i] = "suspend"
    BY <2>1, QueueWorkType DEF WLTypeOK, Works
  <2> QED BY <1>1, <1>3, <2>2 DEF TimerCoversTimedLocks, Awaits, IsQueued, Active
<1>4. CASE r > 0
  BY <1>1, <1>4 DEF RearmOrQueue, TimerCoversTimedLocks, Awaits, NotPending, Active
<1> QED BY <1>1, <1>2, <1>3, <1>4

\* Expiring locks touches only locks with a timeout.
LEMMA ReapKeeps ==
  ASSUME NEW w \in LockTable, NEW type
  PROVE  /\ Reap(w, type).left = w.left
         /\ Active(Reap(w, type), "SUSPEND") \subseteq Active(w, "SUSPEND")
         /\ Untimed(Reap(w, type), "SUSPEND") = Untimed(w, "SUSPEND")
<1> DEFINE v == Reap(w, type)
<1>1. v.left = w.left
  BY DEF Reap, expire_wake_lock
<1>2. \A l \in Locks : v.st[l] = "active" => w.st[l] = "active" /\ (v.timed[l] <=> w.timed[l])
  BY DEF LockTable, Reap, expire_wake_lock
<1>3. \A l \in Locks : w.st[l] = "active" /\ ~ w.timed[l] => v.st[l] = "active" /\ ~ v.timed[l]
  BY DEF LockTable, Reap, expire_wake_lock, IsExpired
<1> HIDE DEF v
<1>4. Active(v, "SUSPEND") \subseteq Active(w, "SUSPEND")
  BY <1>2 DEF Active
<1>5. Untimed(v, "SUSPEND") = Untimed(w, "SUSPEND")
  BY <1>2, <1>3 DEF Active, Untimed
<1> QED BY <1>1, <1>4, <1>5 DEF v

\* A poll of has_wake_lock may expire the last lock; the timer is armed then.
LEMMA PollSuffices ==
  ASSUME WLTypeOK, TimerCoversTimedLocks,
         locks' \in {Reap(locks, "SUSPEND"), Reap(locks, "IDLE"),
                     Reap(Reap(locks, "IDLE"), "SUSPEND")},
         UNCHANGED <<expire_timer, worklist>>
  PROVE  /\ TimerCoversTimedLocks'
         /\ Active(locks, "SUSPEND") # {} => (Active(locks, "SUSPEND")' = {} => Awaits')
<1>1. /\ locks'.left = locks.left
      /\ Active(locks', "SUSPEND") \subseteq Active(locks, "SUSPEND")
      /\ Untimed(locks', "SUSPEND") = Untimed(locks, "SUSPEND")
  <2>1. locks \in LockTable /\ Reap(locks, "IDLE") \in LockTable
    BY TableTypes DEF WLTypeOK
  <2> QED BY <2>1, ReapKeeps
<1>2. TimerCoversTimedLocks'
  BY <1>1 DEF TimerCoversTimedLocks, Active, Untimed
<1>3. ASSUME Active(locks, "SUSPEND") # {}, Active(locks, "SUSPEND")' = {}
      PROVE  Awaits'
  <2>1. Untimed(locks, "SUSPEND") = {}
    BY <1>1, <1>3 DEF Untimed, Active
  <2> QED BY <1>3, <2>1 DEF TimerCoversTimedLocks, Awaits
<1> QED BY <1>2, <1>3

\* A lock that is of type WAKE_LOCK_IDLE, or inactive before and after the
\* step, does not matter.
LEMMA OthersDoNotMatter ==
  ASSUME TimerCoversTimedLocks, Watched, NEW l \in Locks,
         \A k \in Locks \ {l} : /\ locks'.st[k] = locks.st[k]
                               /\ locks'.timed[k] = locks.timed[k]
                               /\ locks'.left[k] = locks.left[k],
         TypeOf(l) # "SUSPEND" \/ (locks.st[l] # "active" /\ locks'.st[l] # "active"),
         UNCHANGED <<expire_timer, worklist, new_event, pc>>
  PROVE  TimerCoversTimedLocks' /\ Watched'
<1>1. /\ Active(locks', "SUSPEND") = Active(locks, "SUSPEND")
      /\ Untimed(locks', "SUSPEND") = Untimed(locks, "SUSPEND")
      /\ \A k \in Active(locks', "SUSPEND") : locks'.left[k] = locks.left[k]
  BY DEF Active, Untimed
<1>2. TimerCoversTimedLocks'
  BY <1>1 DEF TimerCoversTimedLocks, Active, Untimed
<1>3. Watched'
  BY <1>1 DEF Watched, Awaits, WillRetry, IsQueued, Active
<1> QED BY <1>2, <1>3

\* A call for a lock of type WAKE_LOCK_SUSPEND settles everything by itself.
LEMMA SuspendCallSuffices ==
  ASSUME WLTypeOK, NEW l \in Locks, TypeOf(l) = "SUSPEND",
         \/ wake_lock(l)
         \/ \E t \in Nat : wake_lock_timeout(l, t)
         \/ wake_unlock(l)
  PROVE  TimerCoversTimedLocks' /\ Watched'
<1>1. CASE wake_lock(l)
  <2>1. locks'.st[l] = "active" /\ ~ locks'.timed[l]
    BY <1>1 DEF wake_lock, LockedUntimed, WLTypeOK, LockTable
  <2>2. l \in Untimed(locks', "SUSPEND") /\ l \in Active(locks', "SUSPEND")
    BY <2>1 DEF Untimed, Active
  <2> QED BY <2>2 DEF TimerCoversTimedLocks, Watched, Active, Untimed
<1>2. CASE \E t \in Nat : wake_lock_timeout(l, t)
  <2>1. PICK t \in Nat : wake_lock_timeout(l, t)
    BY <1>2
  <2>2. LockedTimed(locks, l, t) \in LockTable
    BY TableTypes DEF WLTypeOK
  <2>3. PICK r : /\ has_wake_lock_locked(LockedTimed(locks, l, t), "SUSPEND", r)
                 /\ RearmOrQueue(r)
                 /\ locks' = Reap(LockedTimed(locks, l, t), "SUSPEND")
    BY <2>1 DEF wake_lock_timeout
  <2> QED BY <2>2, <2>3, RearmSuffices DEF Watched
<1>3. CASE wake_unlock(l)
  <2>1. Unlinked(locks, l, "inactive") \in LockTable
    BY TableTypes DEF WLTypeOK, LockState
  <2>2. PICK r : /\ has_wake_lock_locked(Unlinked(locks, l, "inactive"), "SUSPEND", r)
                 /\ RearmOrQueue(r)
                 /\ locks' = Reap(Unlinked(locks, l, "inactive"), "SUSPEND")
    BY <1>3 DEF wake_unlock
  <2> QED BY <2>1, <2>2, RearmSuffices DEF Watched
<1> QED BY <1>1, <1>2, <1>3

\* The remaining calls.
LEMMA OtherCallSuffices ==
  ASSUME Vigilant, NEW l \in Locks, UNCHANGED pc,
         \/ /\ TypeOf(l) # "SUSPEND"
            /\ \/ wake_lock(l) /\ UNCHANGED worklist
               \/ \E t \in Nat : wake_lock_timeout(l, t)
               \/ wake_unlock(l)
         \/ wake_lock_init(l)
         \/ ~ DestroyActive /\ wake_lock_destroy(l)
  PROVE  TimerCoversTimedLocks' /\ Watched'
<1> USE DEF Vigilant, Ordered
<1>1. CASE TypeOf(l) # "SUSPEND" /\ wake_lock(l) /\ UNCHANGED worklist
  BY <1>1, OthersDoNotMatter DEF wake_lock, LockedUntimed, WLTypeOK, LockTable
<1>2. CASE TypeOf(l) # "SUSPEND" /\ \E t \in Nat : wake_lock_timeout(l, t)
  BY <1>2, OthersDoNotMatter, SMTT(40) DEF wake_lock_timeout, LockedTimed, WLTypeOK, LockTable
<1>3. CASE TypeOf(l) # "SUSPEND" /\ wake_unlock(l)
  <2>1. locks' = Unlinked(locks, l, "inactive") /\ UNCHANGED <<expire_timer, worklist, new_event>>
    BY <1>3 DEF wake_unlock
  <2> QED BY <1>3, <2>1, OthersDoNotMatter DEF Unlinked, WLTypeOK, LockTable
<1>4. CASE wake_lock_init(l)
  BY <1>4, OthersDoNotMatter DEF wake_lock_init, Unlinked, WLTypeOK, LockTable
<1>5. CASE ~ DestroyActive /\ wake_lock_destroy(l)
  BY <1>5, OthersDoNotMatter DEF wake_lock_destroy, Unlinked, WLTypeOK, LockTable
<1> QED BY <1>1, <1>2, <1>3, <1>4, <1>5

\* Every step keeps the timer armed and the next suspend in sight.
LEMMA VigilantStep ==
  ASSUME ~ DestroyActive, Vigilant, [WLNext]_wlVars
  PROVE  Vigilant'
<1> SUFFICES TimerCoversTimedLocks' /\ Watched'
  BY OrderedStep DEF Vigilant
<1>0. WLTypeOK /\ TimerCoversTimedLocks /\ Watched
  BY DEF Vigilant, Ordered
<1>00. /\ MainLock \in Locks /\ TypeOf(MainLock) = "SUSPEND"
       /\ UnknownLock \in Locks /\ TypeOf(UnknownLock) = "SUSPEND"
       /\ \A l \in UserLocks : l \in Locks /\ TypeOf(l) = "SUSPEND"
  BY LocksAssumption DEF Locks, TypeOf
<1>1. CASE QueueOtherWork
  <2>1. CASE wake_lock(MainLock)
    BY <1>0, <1>00, <2>1, SuspendCallSuffices
  <2>2. CASE UNCHANGED <<locks, expire_timer, new_event>>
    <3>1. PICK item \in OtherWorks : worklist' = queue_work(worklist, item)
      BY <1>1 DEF QueueOtherWork
    <3>2. \A i \in DOMAIN worklist : i \in DOMAIN worklist' /\ worklist'[i] = worklist[i]
      <4>1. worklist \in Seq(Works) /\ item \in Works
        BY <1>0, <3>1 DEF WLTypeOK, Works
      <4> QED BY <3>1, <4>1, QueueWorkType
    <3>3. Awaits => Awaits'
      BY <2>2, <3>2 DEF Awaits, IsQueued
    <3>4. WillRetry => WillRetry'
      BY <1>1, <2>2 DEF WillRetry, QueueOtherWork
    <3> QED BY <1>0, <2>2, <3>3, <3>4 DEF TimerCoversTimedLocks, Watched, Active, Untimed
  <2> QED BY <1>1, <2>1, <2>2 DEF QueueOtherWork
<1>2. CASE OtherWorkDone
  <2>1. CASE wake_unlock(MainLock)
    BY <1>0, <1>00, <2>1, SuspendCallSuffices
  <2>2. CASE UNCHANGED <<locks, expire_timer, worklist, new_event>>
    <3>1. ~ WillRetry
      BY <1>2, WorksAssumption DEF OtherWorkDone, WillRetry
    <3> QED BY <1>0, <2>2, <3>1 DEF TimerCoversTimedLocks, Watched, Awaits, IsQueued, Active, Untimed
  <2> QED BY <1>2, <2>1, <2>2 DEF OtherWorkDone
<1>3. CASE \E l \in KernelLocks \cup IdleLocks : DriverCall(l)
  <2>1. PICK l \in Locks : DriverCall(l)
    BY <1>3 DEF Locks
  <2>2. CASE TypeOf(l) = "SUSPEND"
    BY <1>0, <2>1, <2>2, SuspendCallSuffices, OtherCallSuffices, TimeoutsAssumption DEF DriverCall
  <2>3. CASE TypeOf(l) # "SUSPEND"
    BY <2>1, <2>3, OtherCallSuffices, TimeoutsAssumption DEF DriverCall
  <2> QED BY <2>2, <2>3
<1>4. CASE \E l \in UserLocks : wake_lock_store(l) \/ wake_unlock_store(l)
  BY <1>0, <1>00, <1>4, SuspendCallSuffices, TimeoutsAssumption DEF wake_lock_store, wake_unlock_store
<1>5. CASE arch_idle
  <2>1. WillRetry => WillRetry'
    BY <1>5 DEF arch_idle, WillRetry
  <2>2. Awaits => Awaits'
    BY <1>5 DEF arch_idle, Awaits, IsQueued
  <2>3. /\ TimerCoversTimedLocks'
        /\ Active(locks, "SUSPEND") # {} => (Active(locks, "SUSPEND")' = {} => Awaits')
    BY <1>0, <1>5, PollSuffices DEF arch_idle
  <2> QED BY <1>0, <2>1, <2>2, <2>3 DEF Watched
<1>6. CASE expire_wake_locks
  <2>1. PICK r : /\ has_wake_lock_locked(locks, "SUSPEND", r)
                 /\ locks' = Reap(locks, "SUSPEND")
                 /\ worklist' = IF r = 0 THEN queue_work(worklist, "suspend") ELSE worklist
    BY <1>6 DEF expire_wake_locks, has_wake_lock
  <2>2. r = 0 \/ r = -1
    BY <1>0, <1>6, <2>1 DEF expire_wake_locks, has_wake_lock_locked, TimerCoversTimedLocks,
                            WLTypeOK, LockTable, Active, NotPending
  <2>3. RearmOrQueue(r)
    BY <1>6, <2>1, <2>2 DEF expire_wake_locks, RearmOrQueue
  <2> QED BY <1>0, <2>1, <2>3, RearmSuffices DEF WLTypeOK, Watched
<1>7. CASE Tick
  <2>1. /\ locks'.st = locks.st /\ locks'.timed = locks.timed
        /\ \A l \in Locks : locks'.left[l] = Decrement(locks.left[l])
        /\ expire_timer' = Decrement(expire_timer)
    BY <1>0, <1>7 DEF Tick, WLTypeOK, LockTable
  <2>2. expire_timer # NotPending => expire_timer' # NotPending
    BY <1>0, <2>1 DEF WLTypeOK, Decrement, NotPending
  <2>3. \A l \in Locks : locks.left[l] <= expire_timer => locks'.left[l] <= expire_timer'
    BY <1>0, <2>1 DEF WLTypeOK, LockTable, Decrement, NotPending
  <2>4. /\ Active(locks', "SUSPEND") = Active(locks, "SUSPEND")
        /\ Untimed(locks', "SUSPEND") = Untimed(locks, "SUSPEND")
    BY <2>1 DEF Active, Untimed
  <2>5. TimerCoversTimedLocks'
    BY <1>0, <2>2, <2>3, <2>4 DEF TimerCoversTimedLocks, Active, Untimed
  <2>6. Watched'
    BY <1>0, <1>7, <2>2, <2>4 DEF Tick, Watched, Awaits, WillRetry, IsQueued, Active
  <2> QED BY <2>5, <2>6
<1>8. CASE run_workqueue
  <2>1. TimerCoversTimedLocks'
    BY <1>0, <1>8 DEF run_workqueue, TimerCoversTimedLocks, Active, Untimed
  <2>2. CASE Head(worklist) = "suspend"
    BY <1>8, <2>1, <2>2 DEF run_workqueue, Watched, WillRetry
  <2>3. CASE Head(worklist) # "suspend"
    <3>1. IsQueued("suspend") => IsQueued("suspend")'
      <4>1. SUFFICES ASSUME NEW i \in DOMAIN worklist, worklist[i] = "suspend"
                     PROVE  \E j \in DOMAIN worklist' : worklist'[j] = "suspend"
        BY DEF IsQueued
      <4>2. i # 1
        BY <1>0, <1>8, <2>3, <4>1 DEF run_workqueue, WLTypeOK
      <4>3. i - 1 \in DOMAIN worklist' /\ worklist'[i - 1] = worklist[i]
        BY <1>0, <1>8, <4>2 DEF run_workqueue, WLTypeOK
      <4> QED BY <4>1, <4>3
    <3>2. ~ WillRetry
      BY <1>8 DEF run_workqueue, WillRetry
    <3> QED BY <1>0, <1>8, <2>1, <3>1, <3>2 DEF run_workqueue, Watched, Awaits, Active
  <2> QED BY <2>1, <2>2, <2>3
<1>9. CASE SuspendWork
  <2>1. CASE suspend_check
    <3>1. PICK r : /\ has_wake_lock_locked(locks, "SUSPEND", r)
                   /\ locks' = Reap(locks, "SUSPEND")
                   /\ pc' = IF r # 0 THEN "idle" ELSE "suspend_entry"
      BY <2>1 DEF suspend_check, has_wake_lock
    <3>2. TimerCoversTimedLocks'
      BY <1>0, <2>1, <3>1, PollSuffices DEF suspend_check
    <3>3. CASE r = 0
      BY <3>1, <3>2, <3>3 DEF Watched, WillRetry
    <3>4. CASE r # 0
      <4>1. /\ r \in Nat \cup {-1}
            /\ r = -1 => Untimed(locks', "SUSPEND") # {}
            /\ r > 0 => Active(locks', "SUSPEND") # {}
        BY <1>0, <3>1, VerdictMeans DEF WLTypeOK
      <4>2. Active(locks', "SUSPEND") # {}
        BY <3>4, <4>1 DEF Untimed
      <4> QED BY <3>2, <4>2 DEF Watched, Active
    <3> QED BY <3>3, <3>4
  <2>2. CASE suspend_entry
    BY <1>0, <2>2 DEF suspend_entry, TimerCoversTimedLocks, Watched, WillRetry, Active, Untimed
  <2>3. CASE suspend_exit
    <3>1. CASE new_event
      BY <1>0, <2>3, <3>1 DEF suspend_exit, TimerCoversTimedLocks, Watched, WillRetry, Awaits,
                              IsQueued, Active, Untimed
    <3>2. CASE ~ new_event
      BY <1>0, <1>00, <2>3, <3>2, SuspendCallSuffices, TimeoutsAssumption DEF suspend_exit
    <3> QED BY <3>1, <3>2
  <2> QED BY <1>9, <2>1, <2>2, <2>3 DEF SuspendWork
<1>10. CASE pm_suspend_poll
  <2>1. WillRetry => WillRetry'
    BY <1>10 DEF pm_suspend_poll, WillRetry
  <2>2. Awaits => Awaits'
    BY <1>10 DEF pm_suspend_poll, Awaits, IsQueued
  <2>3. /\ TimerCoversTimedLocks'
        /\ Active(locks, "SUSPEND") # {} => (Active(locks, "SUSPEND")' = {} => Awaits')
    BY <1>0, <1>10, PollSuffices DEF pm_suspend_poll, has_wake_lock
  <2> QED BY <1>0, <2>1, <2>2, <2>3 DEF Watched
<1>11. CASE pm_suspend_return
  BY <1>0, <1>11 DEF pm_suspend_return, TimerCoversTimedLocks, Watched, WillRetry, Awaits,
                     IsQueued, Active, Untimed
<1>12. CASE UNCHANGED wlVars
  BY <1>0, <1>12 DEF wlVars, TimerCoversTimedLocks, Watched, WillRetry, Awaits, IsQueued,
                     Active, Untimed
<1> QED
  BY <1>1, <1>2, <1>3, <1>4, <1>5, <1>6, <1>7, <1>8, <1>9, <1>10, <1>11, <1>12 DEF WLNext

\* Initially main_wake_lock is held.
LEMMA VigilantInit == WLInit => Vigilant
<1> SUFFICES ASSUME WLInit PROVE Vigilant
  OBVIOUS
<1>1. MainLock \in Untimed(locks, "SUSPEND") /\ MainLock \in Active(locks, "SUSPEND")
  BY LocksAssumption DEF WLInit, Untimed, Active, Locks, TypeOf
<1> QED BY <1>1, OrderedInit DEF Vigilant, TimerCoversTimedLocks, Watched

\* If no driver destroys a lock it holds, expire_timer covers the locks with
\* a timeout whenever they alone keep the system awake.
THEOREM TimerAlwaysCovers == ~ DestroyActive => (WLSafety => []TimerCoversTimedLocks)
<1> SUFFICES ASSUME ~ DestroyActive PROVE WLSafety => []TimerCoversTimedLocks
  OBVIOUS
<1>1. Vigilant => TimerCoversTimedLocks
  BY DEF Vigilant
<1>2. Vigilant /\ [WLNext]_wlVars => Vigilant'
  BY VigilantStep
<1> QED BY <1>1, <1>2, VigilantInit, PTL DEF WLSafety

\* If no driver destroys a lock it holds, then whenever no lock is active a
\* suspend attempt is queued, running or due when the timer fires.
THEOREM SuspendNeverForgotten == ~ DestroyActive => (WLSafety => []SuspendNotForgotten)
<1> SUFFICES ASSUME ~ DestroyActive PROVE WLSafety => []SuspendNotForgotten
  OBVIOUS
<1>1. Vigilant => SuspendNotForgotten
  BY DEF Vigilant, Watched, Awaits, WillRetry, SuspendNotForgotten, InSuspend
<1>2. Vigilant /\ [WLNext]_wlVars => Vigilant'
  BY VigilantStep
<1> QED BY <1>1, <1>2, VigilantInit, PTL DEF WLSafety

-----------------------------------------------------------------------------
(***************************************************************************)
(* Implementation of WakeLock, with the identity as refinement mapping.    *)
(***************************************************************************)

\* A step of early suspend is a step of WakeLock or leaves its variables alone.
LEMMA ESStepsAreWLSteps ==
  ASSUME [ESNext]_esVars
  PROVE  [WLNext]_wlVars
<1> USE ESWorksAssumption
<1>1. CASE UserStep
  <2>1. CASE state_store
    <3>1. PICK new_state \in {"on", "mem"} : request_suspend_state(new_state)
      BY <2>1 DEF state_store
    <3> QED BY <3>1 DEF request_suspend_state, WLNext, QueueOtherWork, wlVars
  <2>2. CASE \E l \in UserLocks : wake_lock_store(l) \/ wake_unlock_store(l)
    BY <2>2 DEF WLNext
  <2> QED BY <1>1, <2>1, <2>2 DEF UserStep
<1>2. CASE DriverStep
  BY <1>2 DEF DriverStep, register_early_suspend, unregister_early_suspend, WLNext
<1>3. CASE CpuStep
  BY <1>3 DEF CpuStep, WLNext
<1>4. CASE WorkerStep
  BY <1>4 DEF WorkerStep, WLNext
<1>5. CASE HandlerWork
  <2>1. CASE early_suspend_check \/ early_suspend_unlock
               \/ \E h \in Handlers : early_suspend_call(h) \/ late_resume_call(h)
    BY <2>1 DEF early_suspend_check, early_suspend_unlock, early_suspend_call, late_resume_call
  <2>2. CASE early_suspend_finish
    BY <2>2 DEF early_suspend_finish, OtherWorkDone, WLNext
  <2>3. CASE late_resume_check \/ late_resume_finish
    BY <2>3 DEF late_resume_check, late_resume_finish, OtherWorkDone, WLNext, wlVars
  <2> QED BY <1>5, <2>1, <2>2, <2>3 DEF HandlerWork
<1>6. CASE (pm_suspend_poll \/ pm_suspend_return) /\ UNCHANGED esOnly
  BY <1>6 DEF WLNext
<1>7. CASE UNCHANGED esVars
  BY <1>7 DEF esVars
<1> QED BY <1>1, <1>2, <1>3, <1>4, <1>5, <1>6, <1>7 DEF ESNext

\* earlysuspend.c uses suspend_work_queue and main_wake_lock only in the ways
\* WakeLock leaves to its environment, so all theorems on WakeLock hold of it.
THEOREM ESImplementsWL == ESSafety => WLSafety
<1>1. ESInit => WLInit
  BY DEF ESInit
<1> QED BY <1>1, ESStepsAreWLSteps, PTL DEF ESSafety, WLSafety

-----------------------------------------------------------------------------
(***************************************************************************)
(* main_wake_lock is nobody else's business: it never has a timeout, so it *)
(* cannot expire, and only earlysuspend.c locks and unlocks it.            *)
(***************************************************************************)
MainUntimed == ~ locks.timed[MainLock]

MainKept == locks'.st[MainLock] = locks.st[MainLock] /\ ~ locks'.timed[MainLock]

\* Reaping expired locks leaves main_wake_lock, which never has a timeout, alone.
LEMMA ReapKeepsMain ==
  ASSUME NEW w \in LockTable, ~ w.timed[MainLock], NEW type
  PROVE  Reap(w, type).st[MainLock] = w.st[MainLock] /\ ~ Reap(w, type).timed[MainLock]
<1>1. MainLock \in Locks
  BY DEF Locks
<1> QED BY <1>1 DEF LockTable, Reap, expire_wake_lock, IsExpired

\* Calls for another lock leave main_wake_lock as it is.
LEMMA CallKeepsMain ==
  ASSUME WLTypeOK, MainUntimed, NEW l \in Locks \ {MainLock},
         \/ wake_lock(l)
         \/ \E t \in Nat : wake_lock_timeout(l, t)
         \/ wake_unlock(l)
         \/ wake_lock_init(l)
         \/ wake_lock_destroy(l)
  PROVE  MainKept
<1> DEFINE Same(w) == w.st[MainLock] = locks.st[MainLock] /\ ~ w.timed[MainLock]
<1>0. MainLock \in Locks /\ MainLock # l /\ locks \in LockTable
  BY DEF Locks, WLTypeOK
<1>1. CASE wake_lock(l)
  BY <1>0, <1>1 DEF wake_lock, LockedUntimed, LockTable, MainUntimed, MainKept
<1>2. CASE \E t \in Nat : wake_lock_timeout(l, t)
  <2>1. PICK t \in Nat : wake_lock_timeout(l, t)
    BY <1>2
  <2>2. LockedTimed(locks, l, t) \in LockTable
    BY <1>0, TableTypes
  <2>3. Same(LockedTimed(locks, l, t))
    BY <1>0 DEF LockedTimed, LockTable, MainUntimed
  <2> QED BY <2>1, <2>2, <2>3, ReapKeepsMain DEF wake_lock_timeout, MainKept
<1>3. CASE wake_unlock(l)
  <2>1. Unlinked(locks, l, "inactive") \in LockTable
    BY <1>0, TableTypes DEF LockState
  <2>2. Same(Unlinked(locks, l, "inactive"))
    BY <1>0 DEF Unlinked, LockTable, MainUntimed
  <2> QED BY <1>3, <2>1, <2>2, ReapKeepsMain DEF wake_unlock, MainKept
<1>4. CASE wake_lock_init(l) \/ wake_lock_destroy(l)
  BY <1>0, <1>4 DEF wake_lock_init, wake_lock_destroy, Unlinked, LockTable, MainUntimed, MainKept
<1> QED BY <1>1, <1>2, <1>3, <1>4

\* So do all steps that are not steps of earlysuspend.c.
LEMMA OthersKeepMain ==
  ASSUME WLTypeOK, MainUntimed,
         \/ \E l \in KernelLocks \cup IdleLocks : DriverCall(l)
         \/ \E l \in UserLocks : wake_lock_store(l) \/ wake_unlock_store(l)
         \/ arch_idle \/ expire_wake_locks \/ Tick
         \/ run_workqueue \/ SuspendWork
         \/ pm_suspend_poll \/ pm_suspend_return
  PROVE  MainKept
<1>0. /\ MainLock \in Locks /\ locks \in LockTable
      /\ UnknownLock \in Locks \ {MainLock}
      /\ \A l \in KernelLocks \cup IdleLocks \cup UserLocks : l \in Locks \ {MainLock}
  BY LocksAssumption DEF Locks, WLTypeOK
<1>1. CASE \E l \in KernelLocks \cup IdleLocks : DriverCall(l)
  BY <1>0, <1>1, CallKeepsMain, TimeoutsAssumption DEF DriverCall
<1>2. CASE \E l \in UserLocks : wake_lock_store(l) \/ wake_unlock_store(l)
  BY <1>0, <1>2, CallKeepsMain, TimeoutsAssumption DEF wake_lock_store, wake_unlock_store
<1>3. CASE arch_idle
  <2>1. /\ Reap(locks, "IDLE") \in LockTable
        /\ Reap(locks, "IDLE").st[MainLock] = locks.st[MainLock]
        /\ ~ Reap(locks, "IDLE").timed[MainLock]
    BY <1>0, TableTypes, ReapKeepsMain DEF MainUntimed
  <2> QED BY <1>3, <2>1, ReapKeepsMain DEF arch_idle, MainKept
<1>4. CASE expire_wake_locks \/ suspend_check \/ pm_suspend_poll
  BY <1>0, <1>4, ReapKeepsMain
     DEF expire_wake_locks, suspend_check, pm_suspend_poll, has_wake_lock, MainUntimed, MainKept
<1>5. CASE Tick
  <2>1. locks'.st = locks.st /\ locks'.timed = locks.timed
    BY <1>0, <1>5 DEF Tick, LockTable
  <2> QED BY <2>1 DEF MainUntimed, MainKept
<1>6. CASE run_workqueue \/ suspend_entry \/ pm_suspend_return
  BY <1>6 DEF run_workqueue, suspend_entry, pm_suspend_return, MainUntimed, MainKept
<1>7. CASE suspend_exit
  BY <1>0, <1>7, CallKeepsMain, TimeoutsAssumption DEF suspend_exit, MainUntimed, MainKept
<1> QED BY <1>1, <1>2, <1>3, <1>4, <1>5, <1>6, <1>7 DEF SuspendWork

\* What earlysuspend.c itself does to it.
LEMMA MainCalls ==
  ASSUME WLTypeOK
  PROVE  /\ wake_lock(MainLock) => locks'.st[MainLock] = "active" /\ ~ locks'.timed[MainLock]
         /\ wake_unlock(MainLock) => ~ locks'.timed[MainLock]
<1>0. MainLock \in Locks /\ locks \in LockTable
  BY DEF Locks, WLTypeOK
<1>1. ASSUME wake_lock(MainLock)
      PROVE  locks'.st[MainLock] = "active" /\ ~ locks'.timed[MainLock]
  BY <1>0, <1>1 DEF wake_lock, LockedUntimed, LockTable
<1>2. ASSUME wake_unlock(MainLock) PROVE ~ locks'.timed[MainLock]
  <2>1. Unlinked(locks, MainLock, "inactive") \in LockTable
    BY <1>0, TableTypes DEF LockState
  <2>2. ~ Unlinked(locks, MainLock, "inactive").timed[MainLock]
    BY <1>0 DEF Unlinked, LockTable
  <2> QED BY <1>2, <2>1, <2>2, ReapKeepsMain DEF wake_unlock
<1> QED BY <1>1, <1>2

-----------------------------------------------------------------------------
(***************************************************************************)
(* The inductive invariant, in parts.                                      *)
(***************************************************************************)

\* Where the worker is decides how far the walk can be.
WalkBelongs ==
  /\ walk.at = "call" => pc \in {"early_suspend", "late_resume"}
  /\ walk.at = "finish" => pc = "early_suspend"
  /\ walk.done \subseteq handlers.reg
  /\ walk.at # "call" => walk.done = {}

\* main_wake_lock, the flags and the requested state.
FlagsAgree ==
  /\ locks.st[MainLock] # "active" => state = REQUESTED_AND_SUSPENDED /\ walk.at # "call"
  /\ walk.at = "call" => (pc = "early_suspend" <=> "SUSPENDED" \in state)
  /\ "REQUESTED" \in state => requested_suspend_state = "mem"

\* The list is sorted by level and the walk follows it.
SortedByLevel ==
  /\ handlers.before \subseteq handlers.reg \X handlers.reg
  /\ \A g, h \in handlers.reg :
       Level[g] < Level[h] => <<g, h>> \in handlers.before /\ <<h, g>> \notin handlers.before

WalkInOrder ==
  walk.at = "call" =>
    \A g, h \in handlers.reg : <<g, h>> \in handlers.before =>
      IF pc = "early_suspend" THEN h \in walk.done => g \in walk.done
                              ELSE g \in walk.done => h \in walk.done

\* Which hooks have been called: outside a walk those the flag says, in a walk
\* those the walk has passed.
HooksAgree ==
  LET suspended(h) == IF walk.at # "call" THEN "SUSPENDED" \in state
                      ELSE (pc = "early_suspend" <=> h \in walk.done)
  IN  /\ \A h \in handlers.reg \cap Hooked : h \in off <=> suspended(h)
      /\ \A h \in handlers.reg \ NoSuspend : suspended(h) => h \in off

ESInv ==
  /\ Ordered
  /\ ESTypeOK
  /\ MainUntimed
  /\ WalkBelongs
  /\ FlagsAgree
  /\ SortedByLevel
  /\ WalkInOrder
  /\ HooksAgree

\* The invariant holds when wakelocks_init and the module inits have run.
LEMMA ESInvInit == ESInit => ESInv
<1> SUFFICES ASSUME ESInit PROVE ESInv
  OBVIOUS
<1>1. Ordered
  BY OrderedInit DEF ESInit
<1>2. MainUntimed /\ locks.st[MainLock] = "active"
  BY LocksAssumption DEF ESInit, WLInit, MainUntimed, Locks
<1>3. ESTypeOK /\ WalkBelongs /\ SortedByLevel /\ WalkInOrder /\ HooksAgree
  BY DEF ESInit, ESTypeOK, WalkBelongs, SortedByLevel, WalkInOrder, HooksAgree, WalkStart
<1>4. FlagsAgree
  BY <1>2 DEF ESInit, FlagsAgree, WalkStart
<1> QED BY <1>1, <1>2, <1>3, <1>4 DEF ESInv

\* Steps that touch neither the early-suspend variables nor main_wake_lock,
\* and do not move the worker out of early_suspend or late_resume.
LEMMA ForeignStep ==
  ASSUME ESInv, Ordered', MainKept, UNCHANGED esOnly,
         pc' # pc => pc \notin {"early_suspend", "late_resume"}
  PROVE  ESInv'
<1>1. ESTypeOK' /\ SortedByLevel'
  BY DEF ESInv, ESTypeOK, SortedByLevel, esOnly
<1>2. MainUntimed'
  BY DEF MainUntimed, MainKept
<1>3. walk.at = "call" => pc' = pc
  BY DEF ESInv, WalkBelongs
<1>4. WalkBelongs'
  BY DEF ESInv, WalkBelongs, esOnly
<1>5. FlagsAgree'
  BY <1>3 DEF ESInv, FlagsAgree, MainKept, esOnly
<1>6. WalkInOrder' /\ HooksAgree'
  BY <1>3 DEF ESInv, WalkInOrder, HooksAgree, esOnly
<1> QED BY <1>1, <1>2, <1>4, <1>5, <1>6 DEF ESInv

\* register_early_suspend keeps the list sorted.
LEMMA RegisterStep ==
  ASSUME ESInv, NEW h \in Handlers, register_early_suspend(h), Ordered'
  PROVE  ESInv'
<1> USE DEF ESInv
<1>0. /\ handlers.reg \subseteq Handlers /\ h \notin handlers.reg
      /\ walk.at # "call"
      /\ UNCHANGED <<locks, pc, state, requested_suspend_state, walk>>
  BY DEF register_early_suspend, MutexHeld, ESTypeOK, wlVars
<1>1. /\ handlers'.reg = handlers.reg \cup {h}
      /\ handlers'.before = handlers.before \cup (Passed(h) \X {h})
                                \cup ({h} \X (handlers.reg \ Passed(h)))
      /\ handlers' = [reg |-> handlers'.reg, before |-> handlers'.before]
  BY DEF register_early_suspend
<1>2. ESTypeOK'
  BY <1>0, <1>1 DEF register_early_suspend, ESTypeOK, Passed
<1>3. MainUntimed' /\ FlagsAgree' /\ WalkInOrder'
  BY <1>0 DEF MainUntimed, FlagsAgree, WalkInOrder
<1>4. WalkBelongs'
  BY <1>0, <1>1 DEF WalkBelongs
<1>5. SortedByLevel'
  <2>1. handlers'.before \subseteq handlers'.reg \X handlers'.reg
    BY <1>0, <1>1 DEF SortedByLevel, Passed
  <2>2. \A e \in handlers.reg :
          /\ Level[e] < Level[h] => e \in Passed(h)
          /\ Level[h] < Level[e] => e \notin Passed(h)
    <3>1. \A e \in handlers.reg : Level[e] \in Int /\ Level[h] \in Int
      BY <1>0, HandlersAssumption
    <3>2. ASSUME NEW e \in handlers.reg, Level[h] < Level[e] PROVE e \notin Passed(h)
      BY <3>1, <3>2 DEF Passed
    <3>3. ASSUME NEW e \in handlers.reg, Level[e] < Level[h] PROVE e \in Passed(h)
      <4>1. \A f \in handlers.reg : Level[f] > Level[h] => Level[e] < Level[f]
        BY <3>1, <3>3
      <4> QED BY <3>1, <3>3, <4>1 DEF Passed, SortedByLevel
    <3> QED BY <3>2, <3>3
  <2>3. \A e \in handlers.reg : <<e, h>> \notin handlers.before /\ <<h, e>> \notin handlers.before
    BY <1>0 DEF SortedByLevel
  <2>4. SUFFICES ASSUME NEW f \in handlers'.reg, NEW g \in handlers'.reg, Level[f] < Level[g]
                 PROVE  <<f, g>> \in handlers'.before /\ <<g, f>> \notin handlers'.before
    BY <2>1 DEF SortedByLevel
  <2>5. CASE f # h /\ g # h
    BY <1>1, <2>4, <2>5 DEF SortedByLevel
  <2>6. CASE f = h /\ g # h
    BY <1>1, <2>2, <2>3, <2>4, <2>6
  <2>7. CASE f # h /\ g = h
    BY <1>1, <2>2, <2>3, <2>4, <2>7
  <2>8. CASE f = h /\ g = h
    BY <1>0, <2>4, <2>8, HandlersAssumption
  <2> QED BY <2>5, <2>6, <2>7, <2>8
<1>6. HooksAgree'
  <2>1. \A e \in handlers.reg : e \in off' <=> e \in off
    BY <1>0 DEF register_early_suspend
  <2>2. h \in off' <=> "SUSPENDED" \in state /\ h \notin NoSuspend
    BY DEF register_early_suspend
  <2> QED BY <1>0, <1>1, <2>1, <2>2 DEF HooksAgree, Hooked
<1> QED BY <1>2, <1>3, <1>4, <1>5, <1>6

\* unregister_early_suspend keeps the invariant: it waits for the mutex of a walk.
LEMMA UnregisterStep ==
  ASSUME ESInv, NEW h \in Handlers, unregister_early_suspend(h), Ordered'
  PROVE  ESInv'
<1> USE DEF ESInv
<1>0. /\ handlers.reg \subseteq Handlers
      /\ walk.at # "call"
      /\ UNCHANGED <<locks, pc, state, requested_suspend_state, walk, off>>
      /\ handlers' = [reg |-> handlers.reg \ {h}, before |-> list_del(handlers.before, h)]
  BY DEF unregister_early_suspend, MutexHeld, ESTypeOK, wlVars
<1>1. ESTypeOK'
  BY <1>0 DEF ESTypeOK, list_del
<1>2. MainUntimed' /\ FlagsAgree' /\ WalkInOrder'
  BY <1>0 DEF MainUntimed, FlagsAgree, WalkInOrder
<1>3. SortedByLevel'
  BY <1>0 DEF SortedByLevel, list_del
<1>4. HooksAgree'
  BY <1>0 DEF HooksAgree
<1>5. WalkBelongs'
  BY <1>0 DEF WalkBelongs
<1> QED BY <1>1, <1>2, <1>3, <1>4, <1>5

\* A request changes the flags and takes main_wake_lock before it clears
\* SUSPEND_REQUESTED.
LEMMA RequestStep ==
  ASSUME ESInv, NEW new_state \in {"on", "mem"}, request_suspend_state(new_state), Ordered'
  PROVE  ESInv'
<1> USE DEF ESInv
<1>0. /\ UNCHANGED <<pc, handlers, walk, off>>
      /\ requested_suspend_state' = new_state
      /\ "SUSPENDED" \in state' <=> "SUSPENDED" \in state
      /\ state' \subseteq REQUESTED_AND_SUSPENDED
      /\ "REQUESTED" \in state' <=> new_state # "on"
  BY DEF request_suspend_state, ESTypeOK, REQUESTED_AND_SUSPENDED
<1>1. ESTypeOK' /\ WalkBelongs' /\ SortedByLevel' /\ WalkInOrder' /\ HooksAgree'
  BY <1>0 DEF ESTypeOK, WalkBelongs, SortedByLevel, WalkInOrder, HooksAgree
<1>2. CASE "REQUESTED" \in state /\ new_state = "on"
  <2>1. locks'.st[MainLock] = "active" /\ ~ locks'.timed[MainLock]
    BY <1>2, MainCalls DEF request_suspend_state, Ordered
  <2> QED BY <1>0, <1>1, <2>1, <1>2 DEF FlagsAgree, MainUntimed
<1>3. CASE ~ ("REQUESTED" \in state /\ new_state = "on")
  <2>1. UNCHANGED locks /\ state \subseteq state'
    BY <1>3 DEF request_suspend_state
  <2> QED BY <1>0, <1>1, <2>1, <1>3 DEF FlagsAgree, MainUntimed, REQUESTED_AND_SUSPENDED
<1> QED BY <1>2, <1>3

\* The steps of the work item early_suspend.
LEMMA EarlySuspendStep ==
  ASSUME ESInv, Ordered',
         \/ early_suspend_check
         \/ \E h \in Handlers : early_suspend_call(h)
         \/ early_suspend_unlock
         \/ early_suspend_finish
  PROVE  ESInv'
<1> USE DEF ESInv
<1>1. CASE early_suspend_check
  <2>0. UNCHANGED <<locks, pc, requested_suspend_state, handlers, off>>
    BY <1>1 DEF early_suspend_check, wlVars
  <2>1. CASE state = {"REQUESTED"}
    <3>1. /\ state' = REQUESTED_AND_SUSPENDED /\ walk' = [at |-> "call", done |-> {}]
          /\ pc = "early_suspend" /\ walk.at = "start"
      BY <1>1, <2>1 DEF early_suspend_check
    <3>2. locks.st[MainLock] = "active"
      BY <2>1 DEF FlagsAgree, REQUESTED_AND_SUSPENDED
    <3>3. ESTypeOK' /\ WalkBelongs' /\ SortedByLevel'
      BY <2>0, <3>1 DEF ESTypeOK, WalkBelongs, SortedByLevel, REQUESTED_AND_SUSPENDED
    <3>4. MainUntimed' /\ FlagsAgree'
      BY <2>0, <2>1, <3>1, <3>2 DEF MainUntimed, FlagsAgree, REQUESTED_AND_SUSPENDED
    <3>5. WalkInOrder'
      BY <2>0, <3>1 DEF WalkInOrder
    <3>6. HooksAgree'
      BY <2>0, <2>1, <3>1 DEF HooksAgree
    <3> QED BY <3>3, <3>4, <3>5, <3>6
  <2>2. CASE state # {"REQUESTED"}
    <3>1. /\ UNCHANGED state /\ walk' = [at |-> "finish", done |-> {}]
          /\ pc = "early_suspend" /\ walk.at = "start"
      BY <1>1, <2>2 DEF early_suspend_check
    <3> QED BY <2>0, <3>1 DEF ESTypeOK, WalkBelongs, SortedByLevel, MainUntimed, FlagsAgree,
                              WalkInOrder, HooksAgree
  <2> QED BY <2>1, <2>2
<1>2. CASE \E h \in Handlers : early_suspend_call(h)
  <2>1. PICK h \in Handlers : early_suspend_call(h)
    BY <1>2
  <2>2. /\ UNCHANGED <<locks, pc, state, requested_suspend_state, handlers>>
        /\ walk' = [at |-> "call", done |-> walk.done \cup {h}]
        /\ pc = "early_suspend" /\ walk.at = "call" /\ h \in handlers.reg /\ h \notin walk.done
        /\ off' = IF h \notin NoSuspend THEN off \cup {h} ELSE off
        /\ \A e \in handlers.reg : <<e, h>> \in handlers.before => e \in walk.done
    BY <2>1 DEF early_suspend_call, wlVars, ESTypeOK
  <2>3. ESTypeOK' /\ WalkBelongs' /\ SortedByLevel'
    BY <2>2 DEF ESTypeOK, WalkBelongs, SortedByLevel
  <2>4. MainUntimed' /\ FlagsAgree'
    BY <2>2 DEF MainUntimed, FlagsAgree
  <2>5. WalkInOrder'
    BY <2>2 DEF WalkInOrder
  <2>6. HooksAgree'
    BY <2>2 DEF HooksAgree, Hooked
  <2> QED BY <2>3, <2>4, <2>5, <2>6
<1>3. CASE early_suspend_unlock
  <2>1. /\ UNCHANGED <<locks, pc, state, requested_suspend_state, handlers, off>>
        /\ walk' = [at |-> "finish", done |-> {}]
        /\ pc = "early_suspend" /\ walk.at = "call" /\ handlers.reg \subseteq walk.done
    BY <1>3 DEF early_suspend_unlock, wlVars, WalkDone
  <2>2. ESTypeOK' /\ WalkBelongs' /\ SortedByLevel' /\ WalkInOrder' /\ MainUntimed'
    BY <2>1 DEF ESTypeOK, WalkBelongs, SortedByLevel, WalkInOrder, MainUntimed
  <2>3. FlagsAgree'
    BY <2>1 DEF FlagsAgree
  <2>4. HooksAgree'
    BY <2>1 DEF HooksAgree, FlagsAgree
  <2> QED BY <2>2, <2>3, <2>4
<1>4. CASE early_suspend_finish
  <2>1. /\ UNCHANGED <<state, requested_suspend_state, handlers, off>>
        /\ walk' = [at |-> "start", done |-> {}]
        /\ pc = "early_suspend" /\ walk.at = "finish"
    BY <1>4 DEF early_suspend_finish, WalkStart
  <2>2. ESTypeOK' /\ WalkBelongs' /\ SortedByLevel' /\ WalkInOrder' /\ HooksAgree'
    BY <2>1 DEF ESTypeOK, WalkBelongs, SortedByLevel, WalkInOrder, HooksAgree
  <2>3. MainUntimed'
    BY <1>4, MainCalls DEF early_suspend_finish, Ordered, MainUntimed
  <2>4. FlagsAgree'
    BY <1>4, <2>1 DEF early_suspend_finish, FlagsAgree
  <2> QED BY <2>2, <2>3, <2>4
<1> QED BY <1>1, <1>2, <1>3, <1>4

\* The steps of the work item late_resume.
LEMMA LateResumeStep ==
  ASSUME ESInv, Ordered',
         \/ late_resume_check
         \/ \E h \in Handlers : late_resume_call(h)
         \/ late_resume_finish
  PROVE  ESInv'
<1> USE DEF ESInv
<1>1. CASE late_resume_check
  <2>0. UNCHANGED <<locks, requested_suspend_state, handlers, off>>
    BY <1>1 DEF late_resume_check
  <2>1. CASE state = {"SUSPENDED"}
    <3>1. /\ state' = {} /\ walk' = [at |-> "call", done |-> {}] /\ UNCHANGED pc
          /\ pc = "late_resume" /\ walk.at = "start"
      BY <1>1, <2>1 DEF late_resume_check
    <3>2. locks.st[MainLock] = "active"
      BY <2>1 DEF FlagsAgree, REQUESTED_AND_SUSPENDED
    <3>3. ESTypeOK' /\ WalkBelongs' /\ SortedByLevel'
      BY <2>0, <3>1 DEF ESTypeOK, WalkBelongs, SortedByLevel
    <3>4. MainUntimed' /\ FlagsAgree'
      BY <2>0, <3>1, <3>2 DEF MainUntimed, FlagsAgree
    <3>5. WalkInOrder'
      BY <2>0, <3>1 DEF WalkInOrder
    <3>6. HooksAgree'
      BY <2>0, <2>1, <3>1 DEF HooksAgree
    <3> QED BY <3>3, <3>4, <3>5, <3>6
  <2>2. CASE state # {"SUSPENDED"}
    <3>1. UNCHANGED <<state, walk>> /\ pc' = "idle" /\ walk.at = "start"
      BY <1>1, <2>2 DEF late_resume_check
    <3> QED BY <2>0, <3>1 DEF ESTypeOK, WalkBelongs, SortedByLevel, MainUntimed, FlagsAgree,
                              WalkInOrder, HooksAgree
  <2> QED BY <2>1, <2>2
<1>2. CASE \E h \in Handlers : late_resume_call(h)
  <2>1. PICK h \in Handlers : late_resume_call(h)
    BY <1>2
  <2>2. /\ UNCHANGED <<locks, pc, state, requested_suspend_state, handlers>>
        /\ walk' = [at |-> "call", done |-> walk.done \cup {h}]
        /\ pc = "late_resume" /\ walk.at = "call" /\ h \in handlers.reg /\ h \notin walk.done
        /\ off' = IF h \notin NoResume THEN off \ {h} ELSE off
        /\ \A e \in handlers.reg : <<h, e>> \in handlers.before => e \in walk.done
    BY <2>1 DEF late_resume_call, wlVars, ESTypeOK
  <2>3. ESTypeOK' /\ WalkBelongs' /\ SortedByLevel'
    BY <2>2 DEF ESTypeOK, WalkBelongs, SortedByLevel
  <2>4. MainUntimed' /\ FlagsAgree'
    BY <2>2 DEF MainUntimed, FlagsAgree
  <2>5. WalkInOrder'
    BY <2>2 DEF WalkInOrder
  <2>6. HooksAgree'
    BY <2>2 DEF HooksAgree, Hooked
  <2> QED BY <2>3, <2>4, <2>5, <2>6
<1>3. CASE late_resume_finish
  <2>1. /\ UNCHANGED <<locks, state, requested_suspend_state, handlers, off>>
        /\ walk' = [at |-> "start", done |-> {}] /\ pc' = "idle"
        /\ pc = "late_resume" /\ walk.at = "call" /\ handlers.reg \subseteq walk.done
    BY <1>3 DEF late_resume_finish, WalkDone, WalkStart
  <2>2. ESTypeOK' /\ WalkBelongs' /\ SortedByLevel' /\ WalkInOrder' /\ MainUntimed'
    BY <2>1 DEF ESTypeOK, WalkBelongs, SortedByLevel, WalkInOrder, MainUntimed
  <2>3. FlagsAgree'
    BY <2>1 DEF FlagsAgree
  <2>4. HooksAgree'
    BY <2>1 DEF HooksAgree, FlagsAgree
  <2> QED BY <2>2, <2>3, <2>4
<1> QED BY <1>1, <1>2, <1>3

\* Every step keeps the invariant.
LEMMA ESInvStep ==
  ASSUME ESInv, [ESNext]_esVars
  PROVE  ESInv'
<1>0. Ordered' /\ Ordered /\ WLTypeOK /\ MainUntimed
  BY ESStepsAreWLSteps, OrderedStep DEF ESInv, Ordered
<1>1. CASE UserStep
  <2>1. CASE state_store
    BY <1>0, <2>1, RequestStep DEF state_store
  <2>2. CASE (\E l \in UserLocks : wake_lock_store(l) \/ wake_unlock_store(l)) /\ UNCHANGED esOnly
    <3>1. UNCHANGED pc
      BY <2>2 DEF wake_lock_store, wake_unlock_store
    <3> QED BY <1>0, <2>2, <3>1, OthersKeepMain, ForeignStep
  <2> QED BY <1>1, <2>1, <2>2 DEF UserStep
<1>2. CASE DriverStep
  <2>1. CASE \E h \in Handlers : register_early_suspend(h) \/ unregister_early_suspend(h)
    BY <1>0, <2>1, RegisterStep, UnregisterStep
  <2>2. CASE (\E l \in KernelLocks \cup IdleLocks : DriverCall(l)) /\ UNCHANGED esOnly
    <3>1. UNCHANGED pc
      BY <2>2 DEF DriverCall
    <3> QED BY <1>0, <2>2, <3>1, OthersKeepMain, ForeignStep
  <2> QED BY <1>2, <2>1, <2>2 DEF DriverStep
<1>3. CASE CpuStep
  <2>1. UNCHANGED pc
    BY <1>3 DEF CpuStep, arch_idle, expire_wake_locks, Tick
  <2> QED BY <1>0, <1>3, <2>1, OthersKeepMain, ForeignStep DEF CpuStep
<1>4. CASE WorkerStep
  <2>1. pc \notin {"early_suspend", "late_resume"}
    BY <1>4 DEF WorkerStep, run_workqueue, SuspendWork, suspend_check, suspend_entry, suspend_exit
  <2> QED BY <1>0, <1>4, <2>1, OthersKeepMain, ForeignStep DEF WorkerStep
<1>5. CASE HandlerWork
  BY <1>0, <1>5, EarlySuspendStep, LateResumeStep DEF HandlerWork
<1>6. CASE (pm_suspend_poll \/ pm_suspend_return) /\ UNCHANGED esOnly
  <2>1. pc \notin {"early_suspend", "late_resume"}
    BY <1>6 DEF pm_suspend_poll, pm_suspend_return
  <2> QED BY <1>0, <1>6, <2>1, OthersKeepMain, ForeignStep
<1>7. CASE UNCHANGED esVars
  <2>1. UNCHANGED <<locks, pc>> /\ UNCHANGED esOnly
    BY <1>7 DEF esVars, wlVars
  <2> QED BY <1>0, <2>1, ForeignStep DEF MainKept, MainUntimed
<1> QED BY <1>1, <1>2, <1>3, <1>4, <1>5, <1>6, <1>7 DEF ESNext

\* The invariant holds always.
THEOREM ESInvariant == ESSafety => []ESInv
BY ESInvInit, ESInvStep, PTL DEF ESSafety

\* The variables of earlysuspend.c keep their types.
THEOREM ESTypeCorrect == ESSafety => []ESTypeOK
<1>1. ESInv => ESTypeOK
  BY DEF ESInv
<1> QED BY <1>1, ESInvariant, PTL

\* main_wake_lock is released only with sleep requested and every suspend hook
\* called, for any number of handlers and whatever the order of the requests.
THEOREM MainLockAlwaysReleasedLast == ESSafety => []MainLockReleasedLast
<1>1. ESInv => MainLockReleasedLast
  BY DEF ESInv, FlagsAgree, HooksAgree, MainLockReleasedLast, MutexHeld, REQUESTED_AND_SUSPENDED
<1> QED BY <1>1, ESInvariant, PTL

\* Outside a walk the hooks that were called agree with the SUSPENDED flag.
THEOREM HandlersAlwaysFollowState == ESSafety => []HandlersFollowState
<1>1. ESInv => HandlersFollowState
  BY DEF ESInv, HooksAgree, HandlersFollowState, MutexHeld
<1> QED BY <1>1, ESInvariant, PTL

\* Hooks are called in the order of their levels, resume hooks in the opposite
\* order, also for handlers registered while the system is suspended.
THEOREM LevelOrderAlways == ESSafety => []LevelOrder
<1>1. ASSUME ESInv PROVE LevelOrder
  <2>1. SUFFICES ASSUME NEW g \in handlers.reg \cap Hooked, NEW h \in handlers.reg \cap Hooked,
                        Level[g] < Level[h], h \in off
                 PROVE  g \in off
    BY DEF LevelOrder
  <2>2. <<g, h>> \in handlers.before
    BY <1>1, <2>1 DEF ESInv, SortedByLevel
  <2>3. CASE walk.at # "call"
    BY <1>1, <2>1, <2>3 DEF ESInv, HooksAgree
  <2>4. CASE walk.at = "call" /\ pc = "early_suspend"
    BY <1>1, <2>1, <2>2, <2>4 DEF ESInv, HooksAgree, WalkInOrder
  <2>5. CASE walk.at = "call" /\ pc # "early_suspend"
    BY <1>1, <2>1, <2>2, <2>5 DEF ESInv, HooksAgree, WalkInOrder
  <2> QED BY <2>3, <2>4, <2>5
<1> QED BY <1>1, ESInvariant, PTL

\* No suspend hook is called twice in a row, and no resume hook of a handler
\* that is not suspended.
THEOREM HooksAlwaysAlternate == ESSafety => HooksAlternate
<1>1. ASSUME ESInv, NEW h \in Hooked
      PROVE  /\ early_suspend_call(h) => h \notin off
             /\ late_resume_call(h) => h \in off
  BY <1>1 DEF ESInv, HooksAgree, early_suspend_call, late_resume_call
<1>2. ESInv => [\A h \in Hooked :
                  /\ early_suspend_call(h) => h \notin off
                  /\ late_resume_call(h) => h \in off]_esVars
  BY <1>1
<1> QED BY <1>2, ESInvariant, PTL DEF HooksAlternate


-----------------------------------------------------------------------------
(***************************************************************************)
(* The system suspend path.                                                *)
(***************************************************************************)

\* A step of the whole system is a step of EarlySuspend, where pm_suspend may
\* do nothing but poll the wake locks and return.
LEMMA SysStepsAreESSteps ==
  ASSUME [SysNext]_sysVars
  PROVE  [ESNext]_esVars
<1>1. CASE UserStep
  BY <1>1 DEF ESNext
<1>2. CASE \E l \in KernelLocks \cup IdleLocks : DriverLockStep(l)
  BY <1>2 DEF DriverLockStep, ESNext, DriverStep
<1>3. CASE \E h \in Handlers : register_early_suspend(h) \/ unregister_early_suspend(h)
  BY <1>3 DEF ESNext, DriverStep
<1>4. CASE (arch_idle /\ UNCHANGED <<esOnly, sysOnly>>) \/ TimeStep
  BY <1>4 DEF TimeStep, ESNext, CpuStep
<1>5. CASE WorkStep
  BY <1>5 DEF WorkStep, ESNext, WorkerStep, SuspendWork
<1>6. CASE PmStep
  <2>1. CASE suspend_entry_call
    BY <2>1 DEF suspend_entry_call, ESNext, WorkerStep, SuspendWork
  <2>2. CASE freeze_processes
    <3>1. PICK at, next : try_to_freeze_tasks(at, next)
      BY <2>2 DEF freeze_processes
    <3>2. CASE UNCHANGED locks
      BY <3>1, <3>2 DEF try_to_freeze_tasks, esVars, wlVars
    <3>3. CASE \E r \in Returns(locks) : has_wake_lock("SUSPEND", r)
      BY <3>1, <3>3 DEF try_to_freeze_tasks, Goto, ESNext, pm_suspend_poll
    <3> QED BY <3>1, <3>2, <3>3 DEF try_to_freeze_tasks
  <2>3. CASE power_suspend_late
    BY <2>3 DEF power_suspend_late, Goto, ESNext, pm_suspend_poll
  <2>4. CASE pm_suspend_done
    BY <2>4 DEF pm_suspend_done, ESNext
  <2>5. CASE \/ pm_suspend \/ suspend_prepare \/ dpm_suspend_start \/ dpm_suspend_noirq_fails
             \/ arch_suspend_disable_irqs \/ sysdev_suspend \/ resume_devices \/ suspend_finish
    BY <2>5 DEF pm_suspend, suspend_prepare, dpm_suspend_start, dpm_suspend_noirq_fails,
                arch_suspend_disable_irqs, sysdev_suspend, resume_devices, suspend_finish
  <2> QED BY <1>6, <2>1, <2>2, <2>3, <2>4, <2>5 DEF PmStep
<1>7. CASE msm_pm_enter_returns
  BY <1>7 DEF msm_pm_enter_returns
<1>8. CASE UNCHANGED sysVars
  BY <1>8 DEF sysVars
<1> QED BY <1>1, <1>2, <1>3, <1>4, <1>5, <1>6, <1>7, <1>8 DEF SysNext

\* The suspend path implements EarlySuspend, hence WakeLock: everything proved
\* of them holds of the whole system.
THEOREM SysImplementsES == SysSafety => ESSafety
<1>1. SysInit => ESInit
  BY DEF SysInit
<1> QED BY <1>1, SysStepsAreESSteps, PTL DEF SysSafety, ESSafety

-----------------------------------------------------------------------------
(***************************************************************************)
(* The inductive invariant: from power_suspend_late until the device wakes,*)
(* the only active WAKE_LOCK_SUSPEND locks are those drivers took since.   *)
(***************************************************************************)
AfterLate == phase \in {"late_done", "irqs_off", "asleep"}

SysInv ==
  /\ SysTypeOK
  /\ lateLocks \subseteq KernelLocks \cup IdleLocks
  /\ AfterLate => \A l \in Locks \ IdleLocks : locks.st[l] = "active" => l \in lateLocks

\* No lock but l, if any, becomes active.
OnlyActivates(S) ==
  \A k \in Locks \ S : locks'.st[k] = "active" => locks.st[k] = "active"

\* A lock that is active after expired locks are reaped was active before.
LEMMA ReapActivatesNone ==
  ASSUME NEW w \in LockTable, NEW type, NEW k \in Locks, Reap(w, type).st[k] = "active"
  PROVE  w.st[k] = "active"
BY DEF LockTable, Reap, expire_wake_lock

\* A call for the lock l makes no other lock active.
LEMMA CallActivatesOne ==
  ASSUME WLTypeOK, NEW l \in Locks, DriverCall(l)
  PROVE  OnlyActivates({l})
<1>0. locks \in LockTable
  BY DEF WLTypeOK
<1>1. CASE wake_lock(l)
  BY <1>0, <1>1 DEF wake_lock, LockedUntimed, LockTable, OnlyActivates
<1>2. CASE \E t \in Timeouts : wake_lock_timeout(l, t)
  <2>1. PICK t \in Nat : wake_lock_timeout(l, t)
    BY <1>2, TimeoutsAssumption
  <2>2. LockedTimed(locks, l, t) \in LockTable
    BY <1>0, TableTypes
  <2>3. \A k \in Locks \ {l} : LockedTimed(locks, l, t).st[k] = locks.st[k]
    BY <1>0 DEF LockedTimed, LockTable
  <2> QED BY <2>1, <2>2, <2>3, ReapActivatesNone DEF wake_lock_timeout, OnlyActivates
<1>3. CASE wake_unlock(l)
  <2>1. Unlinked(locks, l, "inactive") \in LockTable
    BY <1>0, TableTypes DEF LockState
  <2>2. \A k \in Locks \ {l} : Unlinked(locks, l, "inactive").st[k] = locks.st[k]
    BY <1>0 DEF Unlinked, LockTable
  <2> QED BY <1>3, <2>1, <2>2, ReapActivatesNone DEF wake_unlock, OnlyActivates
<1>4. CASE wake_lock_init(l) \/ wake_lock_destroy(l)
  BY <1>0, <1>4 DEF wake_lock_init, wake_lock_destroy, Unlinked, LockTable, OnlyActivates
<1> QED BY <1>1, <1>2, <1>3, <1>4 DEF DriverCall

\* The idle loop, the timer and the clock make no lock active.
LEMMA CpuActivatesNone ==
  ASSUME WLTypeOK, arch_idle \/ expire_wake_locks \/ Tick
  PROVE  OnlyActivates({})
<1>0. locks \in LockTable
  BY DEF WLTypeOK
<1>1. CASE arch_idle
  <2>1. Reap(locks, "IDLE") \in LockTable
    BY <1>0, TableTypes
  <2> QED BY <1>0, <1>1, <2>1, ReapActivatesNone DEF arch_idle, OnlyActivates
<1>2. CASE expire_wake_locks
  BY <1>0, <1>2, ReapActivatesNone DEF expire_wake_locks, has_wake_lock, OnlyActivates
<1>3. CASE Tick
  BY <1>0, <1>3 DEF Tick, LockTable, OnlyActivates
<1> QED BY <1>1, <1>2, <1>3

\* The invariant holds initially: no pm_suspend is under way.
LEMMA SysInvInit == SysInit => SysInv
BY DEF SysInit, SysInv, SysTypeOK, Phases, AfterLate

\* Every step keeps the invariant.
LEMMA SysInvStep ==
  ASSUME WLTypeOK, SysInv, [SysNext]_sysVars
  PROVE  SysInv'
<1> USE DEF SysInv
<1>1. CASE ~ UserFrozen /\ UserStep /\ UNCHANGED sysOnly
  <2>1. ~ AfterLate /\ UNCHANGED <<pc, phase, lateLocks>>
    BY <1>1 DEF UserFrozen, AfterLate, UserStep, state_store, request_suspend_state,
                wake_lock_store, wake_unlock_store, sysOnly
  <2> QED BY <2>1 DEF SysTypeOK, AfterLate
<1>2. CASE ~ IrqsOff /\ \E l \in KernelLocks \cup IdleLocks : DriverLockStep(l)
  <2>1. PICK l \in KernelLocks \cup IdleLocks : DriverLockStep(l)
    BY <1>2
  <2>2. OnlyActivates({l}) /\ UNCHANGED <<pc, phase>>
    BY <2>1, CallActivatesOne DEF DriverLockStep, DriverCall, Locks
  <2>3. /\ lateLocks' \subseteq KernelLocks \cup IdleLocks
        /\ lateLocks \subseteq lateLocks'
        /\ AfterLate => l \in lateLocks'
    BY <1>2, <2>1 DEF DriverLockStep, AfterLate, IrqsOff
  <2> QED BY <2>2, <2>3 DEF SysTypeOK, AfterLate, OnlyActivates, Locks
<1>3. CASE /\ \E h \in Handlers : register_early_suspend(h) \/ unregister_early_suspend(h)
           /\ UNCHANGED sysOnly
  <2>1. UNCHANGED <<locks, pc, phase, lateLocks>>
    BY <1>3 DEF register_early_suspend, unregister_early_suspend, wlVars, sysOnly
  <2> QED BY <2>1 DEF SysTypeOK, AfterLate
<1>4. CASE (arch_idle /\ UNCHANGED <<esOnly, sysOnly>>) \/ TimeStep
  <2>1. OnlyActivates({}) /\ UNCHANGED <<pc, phase, lateLocks>>
    BY <1>4, CpuActivatesNone DEF TimeStep, arch_idle, expire_wake_locks, Tick, sysOnly
  <2> QED BY <2>1 DEF SysTypeOK, AfterLate, OnlyActivates
<1>5. CASE WorkStep
  <2>1. pc # "pm_suspend" /\ UNCHANGED <<phase, lateLocks>>
    BY <1>5 DEF WorkStep, run_workqueue, suspend_check, suspend_exit, HandlerWork,
                early_suspend_check, early_suspend_call, early_suspend_unlock,
                early_suspend_finish, late_resume_check, late_resume_call,
                late_resume_finish, sysOnly
  <2> QED BY <2>1 DEF SysTypeOK, AfterLate
<1>6. CASE power_suspend_late
  <2>1. PICK r : /\ has_wake_lock_locked(locks, "SUSPEND", r)
                 /\ locks' = Reap(locks, "SUSPEND")
                 /\ phase' = IF r # 0 THEN "resume" ELSE "late_done"
                 /\ pc = "pm_suspend" /\ UNCHANGED <<pc, lateLocks>>
    BY <1>6 DEF power_suspend_late, has_wake_lock, Goto
  <2>2. CASE r # 0
    BY <2>1, <2>2 DEF SysTypeOK, AfterLate, Phases
  <2>3. CASE r = 0
    <3>1. Active(locks', "SUSPEND") = {}
      BY <2>1, <2>3, VerdictMeans DEF WLTypeOK
    <3>2. \A l \in Locks \ IdleLocks : locks'.st[l] # "active"
      BY <3>1 DEF Active, TypeOf
    <3> QED BY <2>1, <2>3, <3>2 DEF SysTypeOK, Phases
  <2> QED BY <2>2, <2>3
<1>7. CASE arch_suspend_disable_irqs \/ sysdev_suspend
  <2>1. AfterLate /\ phase' \in Phases /\ phase # "none" /\ UNCHANGED <<locks, pc, lateLocks>>
    BY <1>7 DEF arch_suspend_disable_irqs, sysdev_suspend, Goto, AfterLate, Phases, esVars, wlVars
  <2> QED BY <2>1 DEF SysTypeOK
<1>8. CASE pm_suspend_done
  BY <1>8 DEF pm_suspend_done, SysTypeOK, Phases, AfterLate
<1>9. CASE suspend_entry_call
  BY <1>9 DEF suspend_entry_call, suspend_entry, SysTypeOK, Phases, AfterLate
<1>10. CASE \/ pm_suspend \/ suspend_prepare \/ freeze_processes \/ dpm_suspend_start
            \/ dpm_suspend_noirq_fails \/ resume_devices \/ suspend_finish
            \/ msm_pm_enter_returns
  <2>1. /\ pc = "pm_suspend" /\ UNCHANGED pc
        /\ phase' \in Phases \ {"none", "late_done", "irqs_off", "asleep"}
        /\ lateLocks' \in {lateLocks, {}}
    BY <1>10 DEF pm_suspend, suspend_prepare, freeze_processes, try_to_freeze_tasks,
                 dpm_suspend_start, dpm_suspend_noirq_fails, resume_devices, suspend_finish,
                 msm_pm_enter_returns, Goto, Phases, esVars, wlVars
  <2> QED BY <2>1 DEF SysTypeOK, AfterLate
<1>11. CASE UNCHANGED sysVars
  <2>1. UNCHANGED <<locks, pc, phase, lateLocks>>
    BY <1>11 DEF sysVars, esVars, wlVars, sysOnly
  <2> QED BY <2>1 DEF SysTypeOK, AfterLate
<1> QED
  BY <1>1, <1>2, <1>3, <1>4, <1>5, <1>6, <1>7, <1>8, <1>9, <1>10, <1>11 DEF SysNext, PmStep

\* Both invariants hold always: ESInv because the suspend path implements
\* EarlySuspend, and SysInv by induction with its help.
LEMMA SysInvariant == SysSafety => [](SysInv /\ ESInv)
<1>1. ESInv => WLTypeOK
  BY DEF ESInv, Ordered
<1>2. ESInv /\ SysInv /\ [SysNext]_sysVars => SysInv'
  BY <1>1, SysInvStep
<1> QED BY <1>2, SysInvInit, SysImplementsES, ESInvariant, PTL DEF SysSafety

\* The variables of the suspend path keep their types.
THEOREM SysTypeCorrect == SysSafety => []SysTypeOK
<1>1. SysInv => SysTypeOK
  BY DEF SysInv
<1> QED BY <1>1, SysInvariant, PTL

\* The device sleeps only if sleep is still requested, all suspend hooks have
\* been called and neither user space nor earlysuspend.c holds a lock.
THEOREM SleepAlwaysAsRequested == SysSafety => []SleepAsRequested
<1>1. ASSUME SysInv, ESInv, phase = "asleep"
      PROVE  /\ state = REQUESTED_AND_SUSPENDED
             /\ requested_suspend_state = "mem"
             /\ handlers.reg \ NoSuspend \subseteq off
             /\ \A l \in UserLocks \cup {MainLock, UnknownLock} : ~ Held(locks, l)
  <2>1. \A l \in UserLocks \cup {MainLock, UnknownLock} : locks.st[l] # "active"
    <3>1. \A l \in UserLocks \cup {MainLock, UnknownLock} :
            l \in Locks \ IdleLocks /\ l \notin KernelLocks
      BY LocksAssumption DEF Locks
    <3> QED BY <1>1, <3>1 DEF SysInv, AfterLate
  <2>2. state = REQUESTED_AND_SUSPENDED /\ walk.at # "call"
    BY <1>1, <2>1 DEF ESInv, FlagsAgree
  <2>3. requested_suspend_state = "mem"
    BY <1>1, <2>2 DEF ESInv, FlagsAgree, REQUESTED_AND_SUSPENDED
  <2>4. handlers.reg \ NoSuspend \subseteq off
    BY <1>1, <2>2 DEF ESInv, HooksAgree, REQUESTED_AND_SUSPENDED
  <2> QED BY <2>1, <2>2, <2>3, <2>4 DEF Held
<1>2. SysInv /\ ESInv => SleepAsRequested
  BY <1>1 DEF SleepAsRequested
<1> QED BY <1>2, SysInvariant, PTL

\* A lock that is held while the device sleeps was taken after the last check.
THEOREM SleepsAlwaysOverLateLocks == SysSafety => []SleepsOnlyOverLateLocks
<1>1. SysInv => SleepsOnlyOverLateLocks
  BY DEF SysInv, AfterLate, SleepsOnlyOverLateLocks, Held
<1> QED BY <1>1, SysInvariant, PTL

\* In the whole system too, with the real order of requests, handlers and
\* phases of pm_suspend, a suspend that no lock forbids is never forgotten.
THEOREM SystemNeverForgetsSuspend ==
  ~ DestroyActive => (SysSafety => [](TimerCoversTimedLocks /\ SuspendNotForgotten))
<1> SUFFICES ASSUME ~ DestroyActive
             PROVE  SysSafety => [](TimerCoversTimedLocks /\ SuspendNotForgotten)
  OBVIOUS
<1>1. WLSafety => []TimerCoversTimedLocks
  BY TimerAlwaysCovers
<1>2. WLSafety => []SuspendNotForgotten
  BY SuspendNeverForgotten
<1> QED BY <1>1, <1>2, SysImplementsES, ESImplementsWL, PTL

=============================================================================
