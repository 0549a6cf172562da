---------------------------- MODULE EarlySuspend ----------------------------
(***************************************************************************)
(* Early suspend: kernel/power/earlysuspend.c on top of the wake locks.    *)
(* Writes to /sys/power/state (main.c, state_store) only set flags and     *)
(* queue work; the two work items early_suspend and late_resume, run one   *)
(* at a time by the worker of suspend_work_queue, call the handlers that   *)
(* drivers registered and release main_wake_lock.                          *)
(*                                                                         *)
(* request_suspend_state runs under state_lock with interrupts off: one    *)
(* step.  The work items hold the mutex early_suspend_lock while they call *)
(* handlers but take state_lock only for their first and their last step,  *)
(* so requests may come between any two handler calls.                     *)
(***************************************************************************)
EXTENDS WakeLock

CONSTANTS
  Handlers,    \* the struct early_suspends of drivers
  Level,       \* handler->level
  NoSuspend,   \* handlers with a NULL suspend hook
  NoResume     \* handlers with a NULL resume hook

ASSUME HandlersAssumption ==
  /\ Level \in [Handlers -> Int]
  /\ NoSuspend \subseteq Handlers
  /\ NoResume \subseteq Handlers

ASSUME ESWorksAssumption == OtherWorks = {"early_suspend", "late_resume"}

VARIABLES
  state,                    \* the flags SUSPEND_REQUESTED and SUSPENDED that are set
  requested_suspend_state,  \* PM_SUSPEND_ON or PM_SUSPEND_MEM
  handlers,                 \* early_suspend_handlers: its members and their order
  walk,                     \* progress of the running early_suspend or late_resume
  off                       \* history: whose suspend hook was called last

esOnly == <<state, requested_suspend_state, handlers, walk, off>>
esVars == <<wlVars, esOnly>>

REQUESTED_AND_SUSPENDED == {"REQUESTED", "SUSPENDED"}

\* early_suspend_lock is held by a work item that calls handlers.
MutexHeld == walk.at = "call"

-----------------------------------------------------------------------------
(***************************************************************************)
(* register_early_suspend inserts the handler before the first one with a  *)
(* greater level, and calls its suspend hook itself when the system is     *)
(* already suspended.                                                      *)
(***************************************************************************)
Passed(h) ==
  {e \in handlers.reg :
     \A f \in handlers.reg :
       Level[f] > Level[h] => f # e /\ <<f, e>> \notin handlers.before}

\* Mutant of register_early_suspend: a late handler is not called.
register_early_suspend_no_call(h) ==
  /\ ~ MutexHeld
  /\ h \notin handlers.reg
  /\ handlers' = [reg |-> handlers.reg \cup {h},
                  before |-> handlers.before
                               \cup (Passed(h) \X {h})
                               \cup ({h} \X (handlers.reg \ Passed(h)))]
  /\ off' = off \ {h}
  /\ UNCHANGED <<wlVars, state, requested_suspend_state, walk>>

register_early_suspend(h) ==
  /\ ~ MutexHeld
  /\ h \notin handlers.reg
  /\ handlers' = [reg |-> handlers.reg \cup {h},
                  before |-> handlers.before
                               \cup (Passed(h) \X {h})
                               \cup ({h} \X (handlers.reg \ Passed(h)))]
  /\ off' = IF "SUSPENDED" \in state /\ h \notin NoSuspend THEN off \cup {h} ELSE off \ {h}
  /\ UNCHANGED <<wlVars, state, requested_suspend_state, walk>>

unregister_early_suspend(h) ==
  /\ ~ MutexHeld
  /\ h \in handlers.reg
  /\ handlers' = [reg |-> handlers.reg \ {h}, before |-> list_del(handlers.before, h)]
  /\ UNCHANGED <<wlVars, state, requested_suspend_state, walk, off>>

-----------------------------------------------------------------------------
(***************************************************************************)
(* request_suspend_state                                                   *)
(***************************************************************************)
\* Mutant of request_suspend_state: early_suspend is not queued while the
\* handlers are still suspended.
request_suspend_state_if_awake(new_state) ==
  /\ requested_suspend_state' = new_state
  /\ \/ /\ "REQUESTED" \notin state /\ new_state # "on"
        /\ state' = state \cup {"REQUESTED"}
        /\ worklist' = IF "SUSPENDED" \in state THEN worklist
                                               ELSE queue_work(worklist, "early_suspend")
        /\ UNCHANGED <<locks, expire_timer, new_event>>
     \/ /\ "REQUESTED" \in state /\ new_state = "on"
        /\ state' = state \ {"REQUESTED"}
        /\ wake_lock(MainLock)
        /\ worklist' = queue_work(worklist, "late_resume")
     \/ /\ ("REQUESTED" \in state) = (new_state # "on")
        /\ UNCHANGED <<locks, expire_timer, worklist, new_event, state>>
  /\ UNCHANGED <<pc, handlers, walk, off>>

request_suspend_state(new_state) ==
  /\ requested_suspend_state' = new_state
  /\ \/ /\ "REQUESTED" \notin state /\ new_state # "on"
        /\ state' = state \cup {"REQUESTED"}
        /\ worklist' = queue_work(worklist, "early_suspend")
        /\ UNCHANGED <<locks, expire_timer, new_event>>
     \/ /\ "REQUESTED" \in state /\ new_state = "on"
        /\ state' = state \ {"REQUESTED"}
        /\ wake_lock(MainLock)
        /\ worklist' = queue_work(worklist, "late_resume")
     \/ /\ ("REQUESTED" \in state) = (new_state # "on")
        /\ UNCHANGED <<locks, expire_timer, worklist, new_event, state>>
  /\ UNCHANGED <<pc, handlers, walk, off>>

\* A write of "on" or "mem" to /sys/power/state; valid_state refuses others.
state_store == \E new_state \in {"on", "mem"} : request_suspend_state(new_state)

-----------------------------------------------------------------------------
(***************************************************************************)
(* The work items.  walk.done is the set of handlers the loop has passed.  *)
(***************************************************************************)
WalkStart == [at |-> "start", done |-> {}]

WalkDone == handlers.reg \subseteq walk.done

\* Mutant of early_suspend_check: only SUSPEND_REQUESTED is looked at.
early_suspend_check_requested ==
  /\ pc = "early_suspend" /\ walk.at = "start"
  /\ IF "REQUESTED" \in state
       THEN /\ state' = REQUESTED_AND_SUSPENDED
            /\ walk' = [at |-> "call", done |-> {}]
       ELSE /\ walk' = [at |-> "finish", done |-> {}]
            /\ UNCHANGED state
  /\ UNCHANGED <<wlVars, requested_suspend_state, handlers, off>>

early_suspend_check ==
  /\ pc = "early_suspend" /\ walk.at = "start"
  /\ IF state = {"REQUESTED"}
       THEN /\ state' = REQUESTED_AND_SUSPENDED
            /\ walk' = [at |-> "call", done |-> {}]
       ELSE /\ walk' = [at |-> "finish", done |-> {}]
            /\ UNCHANGED state
  /\ UNCHANGED <<wlVars, requested_suspend_state, handlers, off>>

\* list_for_each_entry: h is next when everything before it has been called.
early_suspend_call(h) ==
  /\ pc = "early_suspend" /\ walk.at = "call"
  /\ h \in handlers.reg \ walk.done
  /\ \A e \in handlers.reg : <<e, h>> \in handlers.before => e \in walk.done
  /\ off' = IF h \notin NoSuspend THEN off \cup {h} ELSE off
  /\ walk' = [walk EXCEPT !.done = @ \cup {h}]
  /\ UNCHANGED <<wlVars, state, requested_suspend_state, handlers>>

\* Mutant of early_suspend_unlock: the lock is released before sys_sync.
early_suspend_unlock_main ==
  /\ pc = "early_suspend" /\ walk.at = "call"
  /\ WalkDone
  /\ walk' = [at |-> "finish", done |-> {}]
  /\ wake_unlock(MainLock)
  /\ UNCHANGED <<pc, state, requested_suspend_state, handlers, off>>

\* mutex_unlock(&early_suspend_lock); sys_sync()
early_suspend_unlock ==
  /\ pc = "early_suspend" /\ walk.at = "call"
  /\ WalkDone
  /\ walk' = [at |-> "finish", done |-> {}]
  /\ UNCHANGED <<wlVars, state, requested_suspend_state, handlers, off>>

\* Mutant of early_suspend_finish: the state is not looked at again.
early_suspend_finish_unchecked ==
  /\ pc = "early_suspend" /\ walk.at = "finish"
  /\ wake_unlock(MainLock)
  /\ pc' = "idle"
  /\ walk' = WalkStart
  /\ UNCHANGED <<state, requested_suspend_state, handlers, off>>

early_suspend_finish ==
  /\ pc = "early_suspend" /\ walk.at = "finish"
  /\ IF state = REQUESTED_AND_SUSPENDED
       THEN wake_unlock(MainLock)
       ELSE UNCHANGED <<locks, expire_timer, worklist, new_event>>
  /\ pc' = "idle"
  /\ walk' = WalkStart
  /\ UNCHANGED <<state, requested_suspend_state, handlers, off>>

\* An abort goes straight to the final mutex_unlock.
late_resume_check ==
  /\ pc = "late_resume" /\ walk.at = "start"
  /\ IF state = {"SUSPENDED"}
       THEN /\ state' = {}
            /\ walk' = [at |-> "call", done |-> {}]
            /\ UNCHANGED pc
       ELSE /\ pc' = "idle"
            /\ UNCHANGED <<state, walk>>
  /\ UNCHANGED <<locks, expire_timer, worklist, new_event>>
  /\ UNCHANGED <<requested_suspend_state, handlers, off>>

\* Mutant of late_resume_call: list_for_each_entry.
late_resume_call_forward(h) ==
  /\ pc = "late_resume" /\ walk.at = "call"
  /\ h \in handlers.reg \ walk.done
  /\ \A e \in handlers.reg : <<e, h>> \in handlers.before => e \in walk.done
  /\ off' = IF h \notin NoResume THEN off \ {h} ELSE off
  /\ walk' = [walk EXCEPT !.done = @ \cup {h}]
  /\ UNCHANGED <<wlVars, state, requested_suspend_state, handlers>>

\* list_for_each_entry_reverse
late_resume_call(h) ==
  /\ pc = "late_resume" /\ walk.at = "call"
  /\ h \in handlers.reg \ walk.done
  /\ \A e \in handlers.reg : <<h, e>> \in handlers.before => e \in walk.done
  /\ off' = IF h \notin NoResume THEN off \ {h} ELSE off
  /\ walk' = [walk EXCEPT !.done = @ \cup {h}]
  /\ UNCHANGED <<wlVars, state, requested_suspend_state, handlers>>

late_resume_finish ==
  /\ pc = "late_resume" /\ walk.at = "call"
  /\ WalkDone
  /\ pc' = "idle"
  /\ walk' = WalkStart
  /\ UNCHANGED <<locks, expire_timer, worklist, new_event>>
  /\ UNCHANGED <<state, requested_suspend_state, handlers, off>>

-----------------------------------------------------------------------------
ESInit ==
  /\ WLInit
  /\ state = {}
  /\ requested_suspend_state = "mem"
  /\ handlers = [reg |-> {}, before |-> {}]
  /\ walk = WalkStart
  /\ off = {}

HandlerWork ==
  \/ early_suspend_check
  \/ early_suspend_unlock
  \/ early_suspend_finish
  \/ late_resume_check
  \/ late_resume_finish
  \/ \E h \in Handlers : early_suspend_call(h) \/ late_resume_call(h)

DriverStep ==
  \/ \E h \in Handlers : register_early_suspend(h) \/ unregister_early_suspend(h)
  \/ (\E l \in KernelLocks \cup IdleLocks : DriverCall(l)) /\ UNCHANGED esOnly

UserStep ==
  \/ state_store
  \/ (\E l \in UserLocks : wake_lock_store(l) \/ wake_unlock_store(l)) /\ UNCHANGED esOnly

CpuStep == (arch_idle \/ expire_wake_locks \/ Tick) /\ UNCHANGED esOnly

WorkerStep == (run_workqueue \/ SuspendWork) /\ UNCHANGED esOnly

ESNext ==
  \/ UserStep
  \/ DriverStep
  \/ CpuStep
  \/ WorkerStep
  \/ HandlerWork
  \/ (pm_suspend_poll \/ pm_suspend_return) /\ UNCHANGED esOnly

ESSafety == ESInit /\ [][ESNext]_esVars

\* As WLFairness; handlers return, and pm_suspend returns while main_wake_lock
\* is held (SystemSuspend shows why: it cannot get as far as sleeping).
ESFairness ==
  /\ WF_esVars(WorkerStep \/ HandlerWork)
  /\ WF_esVars(expire_wake_locks /\ UNCHANGED esOnly)
  /\ WF_esVars(Tick /\ UNCHANGED esOnly)
  /\ WF_esVars(locks.st[MainLock] = "active" /\ pm_suspend_return /\ UNCHANGED esOnly)

ESSpec == ESSafety /\ ESFairness

-----------------------------------------------------------------------------
\* The types of the variables of earlysuspend.c.
ESTypeOK ==
  /\ state \subseteq REQUESTED_AND_SUSPENDED
  /\ requested_suspend_state \in {"on", "mem"}
  /\ handlers \in [reg : SUBSET Handlers, before : SUBSET (Handlers \X Handlers)]
  /\ walk \in [at : {"start", "call", "finish"}, done : SUBSET Handlers]
  /\ off \subseteq Handlers

Hooked == Handlers \ (NoSuspend \cup NoResume)

(***************************************************************************)
(* main_wake_lock is released only when sleep is requested and every       *)
(* suspend hook has been called: whatever the order of the requests and of *)
(* the work items, the lock is held again before a wakeup is acted on.     *)
(***************************************************************************)
MainLockReleasedLast ==
  locks.st[MainLock] # "active"
  => /\ state = REQUESTED_AND_SUSPENDED
     /\ ~ MutexHeld
     /\ handlers.reg \ NoSuspend \subseteq off

(***************************************************************************)
(* Outside a walk the hooks agree with the SUSPENDED flag, also for a      *)
(* handler registered while the system is suspended: no handler is missed, *)
(* none is left suspended after late_resume.                               *)
(***************************************************************************)
HandlersFollowState ==
  ~ MutexHeld
  => handlers.reg \cap Hooked \cap off
       = IF "SUSPENDED" \in state THEN handlers.reg \cap Hooked ELSE {}

(***************************************************************************)
(* Suspend hooks run from low to high level and resume hooks in the        *)
(* opposite order (earlysuspend.h): at no time, in the middle of a walk    *)
(* either, is a handler suspended and one of a lower level not.            *)
(***************************************************************************)
LevelOrder ==
  \A g, h \in handlers.reg \cap Hooked :
    Level[g] < Level[h] /\ h \in off => g \in off

(***************************************************************************)
(* No suspend hook is called twice without a resume in between and no      *)
(* resume hook of a device that is not suspended, however requests race    *)
(* with the walks: a work item calls only hooks that change the state.     *)
(***************************************************************************)
HooksAlternate ==
  [][\A h \in Hooked :
       /\ early_suspend_call(h) => h \notin off
       /\ late_resume_call(h) => h \in off]_esVars

(***************************************************************************)
(* A sleep request ends with main_wake_lock released, and a wakeup request *)
(* with the handlers resumed, unless the opposite is requested meanwhile.  *)
(***************************************************************************)
SleepRequestServed ==
  "REQUESTED" \in state
  ~> locks.st[MainLock] # "active" \/ "REQUESTED" \notin state

WakeupRequestServed ==
  "REQUESTED" \notin state
  ~> (state = {} /\ ~ MutexHeld) \/ "REQUESTED" \in state

=============================================================================
