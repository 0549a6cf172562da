---------------------------- MODULE DriverProofs -----------------------------
(***************************************************************************)
(* Safety of the parts that user space meets, for any number of writers,   *)
(* consoles, threads, alarms, processes and names: the vibrator, the       *)
(* early-suspend handler of the console, the alarm device, the low memory  *)
(* killer, and the tree of user-space wake locks.  They share nothing;     *)
(* each section is about one of the modules.                               *)
(***************************************************************************)
EXTENDS Vibrator, ConsoleEarlySuspend, AlarmDev, LowMemoryKiller, UserWakeLock,
        LoopLemmas, TLAPS

-----------------------------------------------------------------------------
(***************************************************************************)
(* The vibrator.                                                           *)
(***************************************************************************)

\* At rest no call is under way.
LEMMA VibInitInv == VibInit => VibInv
<1> SUFFICES ASSUME VibInit PROVE VibInv
  OBVIOUS
<1>1. vibrator_lock \in BOOLEAN /\ motor \in BOOLEAN /\ ~ motor
  BY DEF VibInit
<1>2. prev_time_val \in Int /\ timeout \in [Callers -> Int] /\ timeout[Hook] = 0
  BY DEF VibInit, Callers
<1>3. /\ call \in [Callers -> {"none", "sent", "answered"}]
      /\ \A w \in Writers : call[w] = "none"
  BY DEF VibInit, Callers
<1> QED BY <1>1, <1>2, <1>3 DEF VibInv

\* A write gets in only when no other is in its call.
LEMMA VibWriteInv ==
  ASSUME VibratorAssumption, VibInv,
         NEW w \in Writers, NEW t \in Durations, proc_vibrator_enable_write(w, t)
  PROVE  VibInv'
BY DEF VibratorAssumption, VibInv, proc_vibrator_enable_write, Callers

\* The hook's call is a stop and no writer's.
LEMMA VibHookInv ==
  ASSUME VibratorAssumption, VibInv, vibrator_early_suspend
  PROVE  VibInv'
BY DEF VibratorAssumption, VibInv, vibrator_early_suspend, Callers, Hook

\* The modem executes what was written last, or stops the motor for the hook.
LEMMA VibRpcInv ==
  ASSUME VibratorAssumption, VibInv, NEW c \in Callers, call_vibrator_rpc(c)
  PROVE  VibInv'
BY DEF VibratorAssumption, VibInv, call_vibrator_rpc, Callers

\* A call that returns was executed, for calls do not fail here.
LEMMA VibReturnInv ==
  ASSUME VibratorAssumption, VibInv, ~ RpcFails, NEW c \in Callers, ReturnStep(c)
  PROVE  VibInv'
<1>1. call_vibrator_rpc_return(c, FALSE)
  BY DEF ReturnStep, VibratorAssumption
<1> QED BY <1>1 DEF VibratorAssumption, VibInv, call_vibrator_rpc_return, Callers

\* Every step of the driver and of the modem keeps the invariant.
LEMMA VibNextInv ==
  ASSUME VibratorAssumption, ~ RpcFails
  PROVE  VibInv /\ [VibNext]_vibVars => VibInv'
<1> SUFFICES ASSUME VibInv, [VibNext]_vibVars PROVE VibInv'
  OBVIOUS
<1>1. CASE UNCHANGED vibVars
  BY <1>1 DEF vibVars, VibInv
<1>2. ASSUME NEW w \in Writers, NEW t \in Durations, proc_vibrator_enable_write(w, t)
      PROVE  VibInv'
  BY <1>2, VibWriteInv
<1>3. CASE vibrator_early_suspend
  BY <1>3, VibHookInv
<1>4. ASSUME NEW c \in Callers, call_vibrator_rpc(c) \/ ReturnStep(c)
      PROVE  VibInv'
  BY <1>4, VibRpcInv, VibReturnInv
<1>5. CASE motor_stops
  BY <1>5 DEF motor_stops, VibInv
<1> QED BY <1>1, <1>2, <1>3, <1>4, <1>5 DEF VibNext

\* proc_vibrator_enable_write may leave out a stop that follows a stop: with
\* any number of writers, and the early-suspend hook stopping the motor at any
\* moment without the mutex, the motor rests when a stop was written last and
\* no write is in its call.  The remote calls must not fail.
THEOREM StopAlwaysRemembered ==
  ASSUME VibratorAssumption, ~ RpcFails
  PROVE  VibSpec => []StopRemembered
<1>1. VibInv => StopRemembered
  BY DEF VibInv, StopRemembered
<1> QED BY <1>1, VibInitInv, VibNextInv, PTL DEF VibSpec

-----------------------------------------------------------------------------
(***************************************************************************)
(* The console's early-suspend handler.                                    *)
(***************************************************************************)

\* At first nobody was asked.
LEMMA ConsoleInitInv ==
  ASSUME ConsoleAssumption
  PROVE  ConsoleInit => ConsoleInv
BY DEF ConsoleAssumption, ConsoleInit, ConsoleInv, ConsoleTypeOK, AskedAtForeground,
   AskedInProcessMode, Consoles

\* A switch asks only the process of the console it leaves, and leaves behind
\* no question.
LEMMA CallbackInv ==
  ASSUME ConsoleAssumption, ConsoleInv, console_callback
  PROVE  ConsoleInv'
<1> DEFINE new == want_console
<1> USE DEF ConsoleAssumption, ConsoleInv, ConsoleTypeOK, AskedAtForeground, AskedInProcessMode
<1>1. new \in Consoles
  BY DEF console_callback
<1>2. CASE new = fg_console \/ vt_dont_switch
  BY <1>2 DEF console_callback, change_console
<1>3. CASE ~ (new = fg_console \/ vt_dont_switch)
  <2> USE <1>1, <1>3 DEF console_callback, change_console
  <2>1. CASE owner[fg_console] = "live"
    BY <2>1
  <2>2. CASE owner[fg_console] = "dead"
    BY <2>2 DEF Arrive, vt_event_post
  <2>3. CASE owner[fg_console] \in {"none", "odd"} /\ fg_console \in graphics
    BY <2>3
  <2>4. CASE owner[fg_console] \in {"none", "odd"} /\ fg_console \notin graphics
    BY <2>4 DEF Arrive, vt_event_post, reset_vc
  <2> QED BY <2>1, <2>2, <2>3, <2>4
<1> QED BY <1>2, <1>3

\* The hooks ask nobody themselves.
LEMMA HookInv ==
  ASSUME ConsoleAssumption, ConsoleInv,
         \/ \E fails \in BOOLEAN : console_early_suspend(fails)
         \/ console_late_resume \/ vt_waitactive \/ vt_event_wait \/ vt_event_woken
  PROVE  ConsoleInv'
<1> USE DEF ConsoleAssumption, ConsoleInv, ConsoleTypeOK, AskedAtForeground, AskedInProcessMode,
        vtVars, Consoles
<1>1. ASSUME NEW fails \in BOOLEAN, console_early_suspend(fails)
      PROVE  ConsoleInv'
  BY <1>1 DEF console_early_suspend
<1>2. CASE console_late_resume
  BY <1>2 DEF console_late_resume
<1>3. CASE vt_waitactive
  <2>1. /\ UNCHANGED <<vtVars, orig_fgconsole, target, event, disturbed, stale>>
        /\ hook' \in {"on", "off", "suspend_add", "resume_add"}
        /\ switched' \in BOOLEAN
    BY <1>3 DEF vt_waitactive, HookDone
  <2> QED BY <2>1
<1>4. CASE vt_event_wait
  BY <1>4 DEF vt_event_wait
<1>5. CASE vt_event_woken
  <2>1. /\ UNCHANGED <<vtVars, orig_fgconsole, target, event, disturbed, stale>>
        /\ hook' \in {"on", "off", "suspend_check", "resume_check"}
        /\ switched' \in BOOLEAN
    BY <1>5 DEF vt_event_woken, HookDone
  <2> QED BY <2>1
<1> QED BY <1>1, <1>2, <1>3, <1>4, <1>5

\* Who lets go is in the foreground; VT_SETMODE takes the question back, and
\* VT_SETACTIVATE leaves none open or is noted.
LEMMA UserInv ==
  ASSUME ConsoleAssumption, ConsoleInv, NEW c \in UserConsoles, UserStep(c)
  PROVE  ConsoleInv'
<1> USE DEF ConsoleAssumption, ConsoleInv, ConsoleTypeOK, AskedAtForeground, AskedInProcessMode,
        hookVars, Consoles
<1>1. ASSUME NEW lets_go \in BOOLEAN, VT_RELDISP(c, lets_go)
      PROVE  ConsoleInv'
  <2>1. CASE lets_go
    BY <1>1, <2>1 DEF VT_RELDISP, Arrive, vt_event_post
  <2>2. CASE ~ lets_go
    BY <1>1, <2>2 DEF VT_RELDISP
  <2> QED BY <2>1, <2>2
<1>2. ASSUME NEW mode \in {"none", "live"}, VT_SETMODE(c, mode)
      PROVE  ConsoleInv'
  BY <1>2 DEF VT_SETMODE
<1>3. CASE KDSETMODE(c)
  BY <1>3 DEF KDSETMODE
<1>4. CASE process_dies(c)
  BY <1>4 DEF process_dies
<1>5. CASE VT_ACTIVATE(c)
  BY <1>5 DEF VT_ACTIVATE
<1>6. ASSUME NEW mode \in {"none", "live", "odd"}, VT_SETACTIVATE(c, mode)
      PROVE  ConsoleInv'
  <2>1. stale' \in BOOLEAN /\ (~ stale' => ~ stale /\ vt_newvt[c] = NoConsole)
    BY <1>6 DEF VT_SETACTIVATE
  <2>2. /\ owner' \in [Consoles -> {"none", "live", "dead", "odd"}]
        /\ \A d \in Consoles : d # c => owner'[d] = owner[d]
        /\ UNCHANGED <<fg_console, want_console, vt_dont_switch, graphics, vt_newvt,
                       orig_fgconsole, hook, target, event, switched, disturbed>>
    BY <1>6 DEF VT_SETACTIVATE
  <2> QED BY <2>1, <2>2
<1> QED BY <1>1, <1>2, <1>3, <1>4, <1>5, <1>6 DEF UserStep

\* Every step keeps the invariant, for any user space.
LEMMA ConsoleNextInv ==
  ASSUME ConsoleAssumption
  PROVE  ConsoleInv /\ [ConsoleNext]_consoleVars => ConsoleInv'
<1> SUFFICES ASSUME ConsoleInv, [ConsoleNext]_consoleVars PROVE ConsoleInv'
  OBVIOUS
<1>1. CASE UNCHANGED consoleVars
  BY <1>1 DEF consoleVars, vtVars, hookVars, ConsoleInv, ConsoleTypeOK, AskedAtForeground,
     AskedInProcessMode
<1>2. CASE VT_LOCKSWITCH
  BY <1>2 DEF VT_LOCKSWITCH, hookVars, ConsoleInv, ConsoleTypeOK, AskedAtForeground,
     AskedInProcessMode
<1> QED BY <1>1, <1>2, CallbackInv, HookInv, UserInv DEF ConsoleNext

\* A step away from a console whose process lives is the answer of a process, and
\* of its own if no question was left open.
LEMMA HandshakeStep ==
  ASSUME ConsoleAssumption, ConsoleInv, ConsoleNext,
         owner[fg_console] = "live", fg_console' # fg_console
  PROVE  \E c \in Consoles : /\ owner[c] = "live" /\ vt_newvt[c] = fg_console'
                             /\ stale \/ c = fg_console
<1> USE DEF ConsoleAssumption, ConsoleInv, ConsoleTypeOK, hookVars, vtVars
<1>1. ~ console_callback
  BY DEF console_callback, change_console
<1>2. PICK c \in UserConsoles : UserStep(c)
  BY <1>1 DEF ConsoleNext, console_early_suspend, console_late_resume,
     vt_waitactive, vt_event_wait, vt_event_woken, VT_LOCKSWITCH
<1>3. PICK lets_go \in BOOLEAN : VT_RELDISP(c, lets_go)
  BY <1>2 DEF UserStep, VT_SETMODE, VT_SETACTIVATE, KDSETMODE, process_dies, VT_ACTIVATE
<1>4. c \in Consoles /\ (stale \/ c = fg_console)
  BY <1>3 DEF VT_RELDISP, AskedAtForeground, Consoles
<1>5. owner[c] = "live" /\ vt_newvt[c] = fg_console'
  BY <1>3 DEF VT_RELDISP, Arrive
<1> QED BY <1>4, <1>5

\* change_console and VT_RELDISP: a console in process mode whose process lives
\* is left by its handshake only, for any consoles and whatever user space and
\* the hooks do in between; after VT_SETACTIVATE over an open question, by the
\* answer of some process in process mode.
THEOREM HandshakeAlwaysFirst ==
  ASSUME ConsoleAssumption
  PROVE  ConsoleSpec => HandshakeFirst
<1>1. ConsoleInv /\ [ConsoleNext]_consoleVars
        => [owner[fg_console] = "live" /\ fg_console' # fg_console
              => \E c \in Consoles : /\ owner[c] = "live" /\ vt_newvt[c] = fg_console'
                                     /\ stale \/ c = fg_console]_consoleVars
  BY HandshakeStep
<1> QED BY <1>1, ConsoleInitInv, ConsoleNextInv, PTL DEF ConsoleSpec, HandshakeFirst

\* Before the first suspend the screen is user space's.
LEMMA QuietInitInv ==
  ASSUME ConsoleAssumption
  PROVE  ConsoleInit => QuietInv
BY DEF ConsoleAssumption, ConsoleInit, QuietInv, NoneAsked, AskedAtForeground, Consoles

\* The switch the hooks asked for, wherever they are by then.
LEMMA CallbackQuiet ==
  ASSUME ConsoleAssumption, ConsoleInv, QuietInv, console_callback
  PROVE  QuietInv'
<1> DEFINE new == want_console
<1> USE DEF ConsoleAssumption, ConsoleInv, ConsoleTypeOK, QuietInv, NoneAsked, AskedAtForeground, Consoles
<1>1. new \in Consoles /\ new \in {EARLY_SUSPEND_CONSOLE, orig_fgconsole, fg_console}
  BY DEF console_callback
<1>2. CASE new = fg_console
  BY <1>2 DEF console_callback, change_console
<1>3. CASE new # fg_console
  <2> USE <1>1, <1>3 DEF console_callback, change_console
  <2>1. CASE owner[fg_console] = "live"
    BY <2>1
  <2>2. CASE owner[fg_console] = "dead"
    BY <2>2 DEF Arrive, vt_event_post
  <2>3. CASE owner[fg_console] \in {"none", "odd"} /\ fg_console \in graphics
    BY <2>3
  <2>4. CASE owner[fg_console] \in {"none", "odd"} /\ fg_console \notin graphics
    BY <2>4 DEF Arrive, vt_event_post, reset_vc
  <2> QED BY <2>1, <2>2, <2>3, <2>4
<1> QED BY <1>2, <1>3

\* The steps of the hooks.
LEMMA HookQuiet ==
  ASSUME ConsoleAssumption, ConsoleInv, QuietInv,
         \/ \E fails \in BOOLEAN : console_early_suspend(fails)
         \/ console_late_resume \/ vt_waitactive \/ vt_event_wait \/ vt_event_woken
  PROVE  QuietInv'
<1> USE DEF ConsoleAssumption, ConsoleInv, ConsoleTypeOK, QuietInv, NoneAsked, AskedAtForeground, Consoles, vtVars
<1>1. ASSUME NEW fails \in BOOLEAN, console_early_suspend(fails)
      PROVE  QuietInv'
  BY <1>1 DEF console_early_suspend
<1>2. CASE console_late_resume
  BY <1>2 DEF console_late_resume, MaySetConsole
<1>3. CASE vt_waitactive
  BY <1>3 DEF vt_waitactive, HookDone
<1>4. CASE vt_event_wait
  BY <1>4 DEF vt_event_wait
<1>5. CASE vt_event_woken
  BY <1>5 DEF vt_event_woken, HookDone
<1> QED BY <1>1, <1>2, <1>3, <1>4, <1>5

\* A process that lets go was asked to by the suspend hook.
LEMMA UserQuiet ==
  ASSUME ConsoleAssumption, ConsoleInv, QuietInv, ~ disturbed',
         NEW c \in UserConsoles, UserStep(c)
  PROVE  QuietInv'
<1> USE DEF ConsoleAssumption, ConsoleInv, ConsoleTypeOK, QuietInv, NoneAsked, AskedAtForeground, Consoles, hookVars
<1>1. ASSUME NEW lets_go \in BOOLEAN, VT_RELDISP(c, lets_go)
      PROVE  QuietInv'
  <2>0. c = fg_console
    BY <1>1 DEF VT_RELDISP
  <2>1. CASE lets_go
    BY <1>1, <2>0, <2>1 DEF VT_RELDISP, Arrive, vt_event_post
  <2>2. CASE ~ lets_go
    BY <1>1, <2>2 DEF VT_RELDISP
  <2> QED BY <2>1, <2>2
<1>2. ASSUME NEW mode \in {"none", "live"}, VT_SETMODE(c, mode)
      PROVE  QuietInv'
  BY <1>2 DEF VT_SETMODE
<1>3. CASE KDSETMODE(c)
  BY <1>3 DEF KDSETMODE
<1>4. CASE process_dies(c)
  BY <1>4 DEF process_dies
<1>5. ~ VT_ACTIVATE(c)
  BY DEF VT_ACTIVATE
<1>6. ASSUME NEW mode \in {"none", "live", "odd"}, VT_SETACTIVATE(c, mode)
      PROVE  QuietInv'
  BY <1>6 DEF VT_SETACTIVATE
<1> QED BY <1>1, <1>2, <1>3, <1>4, <1>5, <1>6 DEF UserStep

\* Every step by which user space neither switches nor locks; and there is no
\* way back from one by which it does.
LEMMA QuietNextInv ==
  ASSUME ConsoleAssumption, ConsoleInv, [ConsoleNext]_consoleVars, ~ disturbed'
  PROVE  ~ disturbed /\ (QuietInv => QuietInv')
<1>1. ~ disturbed
  BY DEF ConsoleNext, UserStep, consoleVars, vtVars, hookVars, console_callback,
     console_early_suspend, console_late_resume, vt_waitactive, vt_event_wait, vt_event_woken,
     VT_RELDISP, VT_SETMODE, VT_SETACTIVATE, KDSETMODE, process_dies, VT_ACTIVATE, VT_LOCKSWITCH
<1>2. ASSUME QuietInv PROVE QuietInv'
  <2>1. CASE UNCHANGED consoleVars
    BY <1>2, <2>1 DEF consoleVars, vtVars, hookVars, QuietInv, NoneAsked,
       AskedAtForeground
  <2>2. ~ VT_LOCKSWITCH
    BY DEF VT_LOCKSWITCH
  <2> QED BY <1>2, <2>1, <2>2, CallbackQuiet, HookQuiet, UserQuiet DEF ConsoleNext
<1> QED BY <1>1, <1>2

\* Nobody but the process of the foreground console is asked to let go, unless
\* VT_SETACTIVATE has left a question open; and, with it or without, as long as
\* only the hooks switch, console_early_suspend that returns without its warning
\* has the screen until console_late_resume, and has saved a console of user
\* space to return to.
THEOREM ScreenAlwaysTaken ==
  ASSUME ConsoleAssumption
  PROVE  ConsoleSpec => []ScreenTaken
<1>1. ConsoleInv /\ ~ stale => AskedAtForeground
  BY DEF ConsoleInv
<1>2. ConsoleAssumption /\ QuietInv => HookHasScreen
  BY DEF ConsoleAssumption, QuietInv, HookHasScreen
<1> DEFINE Inv == ConsoleInv /\ (~ disturbed => QuietInv)
<1>3. ConsoleInit => Inv
  BY ConsoleInitInv, QuietInitInv
<1>4. Inv /\ [ConsoleNext]_consoleVars => Inv'
  BY ConsoleNextInv, QuietNextInv
<1>5. Inv => ScreenTaken
  BY <1>1, <1>2 DEF ScreenTaken
<1> HIDE DEF Inv
<1> QED BY <1>3, <1>4, <1>5, PTL DEF ConsoleSpec

-----------------------------------------------------------------------------
(***************************************************************************)
(* The alarm device.                                                       *)
(***************************************************************************)

\* Nobody has opened the device yet.
LEMMA DevInitInv ==
  ASSUME AlarmDevAssumption
  PROVE  DevInit => OneThreadInv
<1> SUFFICES ASSUME DevInit PROVE OneThreadInv
  OBVIOUS
<1>1. alarm_opened \in BOOLEAN /\ wait_pending \in BOOLEAN /\ ~ wait_pending
  BY DEF DevInit
<1>2. DevTypeOK
  BY <1>1 DEF AlarmDevAssumption, DevInit, DevTypeOK
<1>3. NobodyCalls /\ Released /\ LockHasReason /\ CleanRelease
  BY <1>1 DEF DevInit, NobodyCalls, Released, LockHasReason, CleanRelease
<1>4. HandledUnacknowledged /\ AlarmHeldAwake
  BY DEF DevInit, HandledUnacknowledged, AlarmHeldAwake
<1> QED BY <1>2, <1>3, <1>4 DEF OneThreadInv, DevInv

\* The calls of the owner's threads.
LEMMA CallDevInv ==
  ASSUME AlarmDevAssumption, DevInv, NEW t \in Threads,
         \/ \E type \in DevTypes : ANDROID_ALARM_SET(t, type) \/ ANDROID_ALARM_CLEAR(t, type)
         \/ ANDROID_ALARM_WAIT(t) \/ WaitStep(t) \/ wait_signal(t)
  PROVE  DevInv'
<1> USE DEF AlarmDevAssumption, DevInv, DevTypeOK, NobodyCalls, Released, LockHasReason,
        CleanRelease, MayCall
<1>1. ASSUME NEW type \in DevTypes, ANDROID_ALARM_SET(t, type)
      PROVE  DevInv'
  BY <1>1 DEF ANDROID_ALARM_SET
<1>2. ASSUME NEW type \in DevTypes, ANDROID_ALARM_CLEAR(t, type)
      PROVE  DevInv'
  BY <1>2 DEF ANDROID_ALARM_CLEAR
<1>3. CASE ANDROID_ALARM_WAIT(t)
  BY <1>3 DEF ANDROID_ALARM_WAIT, Acknowledge
<1>4. CASE wait_check(t)
  BY <1>4 DEF wait_check
<1>5. CASE wait_take(t)
  BY <1>5 DEF wait_take
<1>6. CASE wait_signal(t)
  BY <1>6 DEF wait_signal
<1> QED BY <1>1, <1>2, <1>3, <1>4, <1>5, <1>6 DEF WaitStep

\* The setting of the time, the alarms and the timeout of the wake lock.
LEMMA EventDevInv ==
  ASSUME AlarmDevAssumption, DevInv,
         \/ alarm_ioctl_open \/ ANDROID_ALARM_SET_RTC \/ wake_lock_expires
         \/ \E type \in DevTypes : alarm_triggered(type)
  PROVE  DevInv'
<1> USE DEF AlarmDevAssumption, DevInv, DevTypeOK, NobodyCalls, Released, LockHasReason,
        CleanRelease, WakeWaiters
<1>1. CASE alarm_ioctl_open
  BY <1>1 DEF alarm_ioctl_open
<1>2. CASE ANDROID_ALARM_SET_RTC
  BY <1>2 DEF ANDROID_ALARM_SET_RTC
<1>3. CASE wake_lock_expires
  BY <1>3 DEF wake_lock_expires
<1>4. ASSUME NEW type \in DevTypes, alarm_triggered(type)
      PROVE  DevInv'
  <2>1. CASE type \in alarm_enabled
    BY <1>4, <2>1 DEF alarm_triggered
  <2>2. CASE type \notin alarm_enabled
    BY <1>4, <2>2 DEF alarm_triggered
  <2> QED BY <2>1, <2>2
<1> QED BY <1>1, <1>2, <1>3, <1>4

\* The loop of alarm_release, between whose rounds alarms go off.
LEMMA ReleaseDevInv ==
  ASSUME AlarmDevAssumption, DevInv,
         alarm_release \/ alarm_release_clear \/ alarm_release_cancel \/ alarm_release_end
  PROVE  DevInv'
<1> USE DEF AlarmDevAssumption, DevInv, DevTypeOK, NobodyCalls, Released, LockHasReason,
        CleanRelease
<1>1. CASE alarm_release
  BY <1>1 DEF alarm_release
<1>2. CASE alarm_release_clear
  BY <1>2 DEF alarm_release_clear
<1>3. CASE alarm_release_cancel
  BY <1>3 DEF alarm_release_cancel
<1>4. CASE alarm_release_end
  <2>1. alarm_enabled = {} /\ queued = {}
    BY <1>4 DEF alarm_release_end, DevTypes
  <2>2. alarm_wake_lock' # "timed"
    BY <1>4 DEF alarm_release_end
  <2>3. alarm_opened' \in BOOLEAN /\ wait_pending' \in BOOLEAN /\ ~ wait_pending'
    BY <1>4 DEF alarm_release_end
  <2>4. \A t \in Threads : pc[t] = "idle"
    BY <1>4 DEF alarm_release_end
  <2>5. DevTypeOK'
    BY <1>4, <2>3 DEF alarm_release_end
  <2>6. (NobodyCalls /\ Released)'
    BY <1>4, <2>4 DEF alarm_release_end
  <2>7. (LockHasReason /\ CleanRelease)'
    BY <1>4, <2>1, <2>2, <2>3 DEF alarm_release_end
  <2> QED BY <2>5, <2>6, <2>7
<1> QED BY <1>1, <1>2, <1>3, <1>4

\* Every step keeps the device's invariant, for any threads.
LEMMA DevNextInv ==
  ASSUME AlarmDevAssumption
  PROVE  DevInv /\ [DevNext]_devVars => DevInv'
<1> SUFFICES ASSUME DevInv, [DevNext]_devVars PROVE DevInv'
  OBVIOUS
<1>1. CASE UNCHANGED devVars
  BY <1>1 DEF devVars, DevInv, DevTypeOK, NobodyCalls, Released, LockHasReason, CleanRelease
<1> QED BY <1>1, CallDevInv, EventDevInv, ReleaseDevInv DEF DevNext

\* alarm_release: a device nobody owns has no alarm set or waiting and does not
\* keep the system awake, for any threads and alarms, though the lock is
\* dropped between the alarms that are cancelled.
THEOREM ReleaseAlwaysClean ==
  ASSUME AlarmDevAssumption
  PROVE  DevSpec => []CleanRelease
<1>1. DevInit => DevInv
  BY DevInitInv DEF OneThreadInv
<1>2. DevInv => CleanRelease
  BY DEF DevInv
<1> QED BY <1>1, <1>2, DevNextInv, PTL DEF DevSpec

\* With one thread that waits, what it handles is unacknowledged and keeps the
\* wake lock from being given up.
LEMMA OneThreadStep ==
  ASSUME AlarmDevAssumption, OneThread, OneThreadInv, DevNext
  PROVE  HandledUnacknowledged' /\ AlarmHeldAwake'
<1> USE DEF AlarmDevAssumption, OneThread, OneThreadInv, DevInv, DevTypeOK,
        HandledUnacknowledged, AlarmHeldAwake
<1>1. CASE alarm_ioctl_open
  BY <1>1 DEF alarm_ioctl_open
<1>2. CASE ANDROID_ALARM_SET_RTC
  BY <1>2 DEF ANDROID_ALARM_SET_RTC, WakeWaiters, DevTypes, TIME_CHANGE
<1>3. CASE wake_lock_expires
  BY <1>3 DEF wake_lock_expires
<1>4. ASSUME NEW t \in Threads, NEW type \in DevTypes, ANDROID_ALARM_SET(t, type)
      PROVE  HandledUnacknowledged' /\ AlarmHeldAwake'
  BY <1>4 DEF ANDROID_ALARM_SET
<1>5. ASSUME NEW t \in Threads, NEW type \in DevTypes, ANDROID_ALARM_CLEAR(t, type)
      PROVE  HandledUnacknowledged' /\ AlarmHeldAwake'
  BY <1>5 DEF ANDROID_ALARM_CLEAR
<1>6. ASSUME NEW t \in Threads, ANDROID_ALARM_WAIT(t)
      PROVE  HandledUnacknowledged' /\ AlarmHeldAwake'
  BY <1>6 DEF ANDROID_ALARM_WAIT, Acknowledge
<1>7. ASSUME NEW t \in Threads, WaitStep(t) \/ wait_signal(t)
      PROVE  HandledUnacknowledged' /\ AlarmHeldAwake'
  BY <1>7 DEF WaitStep, wait_check, wait_take, wait_signal
<1>8. ASSUME NEW type \in DevTypes, alarm_triggered(type)
      PROVE  HandledUnacknowledged' /\ AlarmHeldAwake'
  BY <1>8 DEF alarm_triggered, WakeWaiters
<1>9. CASE alarm_release
  BY <1>9 DEF alarm_release
<1>10. CASE alarm_release_clear \/ alarm_release_cancel
  BY <1>10 DEF alarm_release_clear, alarm_release_cancel
<1>11. CASE alarm_release_end
  BY <1>11 DEF alarm_release_end, NobodyCalls
<1> QED BY <1>1, <1>2, <1>3, <1>4, <1>5, <1>6, <1>7, <1>8, <1>9, <1>10, <1>11 DEF DevNext

\* alarm_triggered to the next ANDROID_ALARM_WAIT: for any number of alarms an
\* alarm that went off and was not yet handled keeps the system awake for its
\* five seconds, whatever is cleared, set or triggered meanwhile, and a release
\* of the device leaves nothing behind.  One thread waits, as in Android: the
\* wait of a second one acknowledges for the first.
THEOREM DeviceAlwaysKeepsAwake ==
  ASSUME AlarmDevAssumption, OneThread
  PROVE  DevSpec => []DeviceKeepsAwake
<1>1. OneThreadInv /\ [DevNext]_devVars => OneThreadInv'
  <2> SUFFICES ASSUME OneThreadInv, [DevNext]_devVars PROVE OneThreadInv'
    OBVIOUS
  <2>1. DevInv'
    BY DevNextInv DEF OneThreadInv
  <2>2. CASE UNCHANGED devVars
    BY <2>1, <2>2 DEF devVars, OneThreadInv, HandledUnacknowledged, AlarmHeldAwake
  <2>3. CASE DevNext
    BY <2>1, <2>3, OneThreadStep DEF OneThreadInv
  <2> QED BY <2>2, <2>3
<1>2. OneThreadInv => DeviceKeepsAwake
  BY DEF OneThreadInv, DevInv, DeviceKeepsAwake
<1> QED BY <1>1, <1>2, DevInitInv, PTL DEF DevSpec

-----------------------------------------------------------------------------
(***************************************************************************)
(* The low memory killer.                                                  *)
(***************************************************************************)

\* p has at least the claim of q to be killed.
AsGood(p, q) ==
  \/ oom_adj[q] < oom_adj[p]
  \/ oom_adj[q] = oom_adj[p] /\ rss[q] <= rss[p]

\* v is the choice among the first k processes: none if none may be killed.
Best(k, v) ==
  \/ v = NoTask /\ \A j \in 1 .. k : ~ Eligible(Tasks[j])
  \/ v \in Procs /\ Eligible(v) /\ \A j \in 1 .. k : Eligible(Tasks[j]) => AsGood(v, Tasks[j])

\* The types of the variables hold always.
LEMMA LowTypes ==
  ASSUME LowMemAssumption
  PROVE  LowSafety => []LowTypeOK
<1>1. LowInit => LowTypeOK
  BY DEF LowMemAssumption, LowInit, LowTypeOK
<1>2. ASSUME LowTypeOK, [LowNext]_lowVars PROVE LowTypeOK'
  <2> USE DEF LowTypeOK
  <2>1. CASE lowmem_shrink
    BY <1>2, <2>1 DEF lowmem_shrink
  <2>2. ASSUME NEW p \in Procs, exit_mm(p) PROVE LowTypeOK'
    BY <1>2, <2>2 DEF exit_mm
  <2>3. CASE MemoryStep
    BY <1>2, <2>3 DEF MemoryStep, read_file, drop_cache, page_fault
  <2>4. CASE ParameterStep
    BY <1>2, <2>4 DEF ParameterStep, write_oom_adj, write_adj, write_minfree
  <2>5. CASE UNCHANGED lowVars
    BY <1>2, <2>5 DEF lowVars
  <2> QED BY <1>2, <2>1, <2>2, <2>3, <2>4, <2>5 DEF LowNext
<1> QED BY <1>1, <1>2, PTL DEF LowSafety

\* The threshold is a number.
LEMMA MinAdjNumber ==
  ASSUME LowMemAssumption, LowTypeOK
  PROVE  min_adj \in Int
<1>1. lowmem_adj \in Seq(Int)
  BY DEF LowMemAssumption, LowTypeOK
<1>2. CASE Thresholds = {}
  BY <1>2 DEF min_adj, OOM_ADJUST_MAX
<1>3. CASE Thresholds # {}
  <2>1. Thresholds \subseteq DOMAIN lowmem_adj /\ DOMAIN lowmem_adj \subseteq Nat
    BY <1>1 DEF Thresholds
  <2>2. \E k \in Thresholds : \A j \in Thresholds : k <= j
    BY <1>3, <2>1, LeastElement
  <2> DEFINE first == CHOOSE k \in Thresholds : \A j \in Thresholds : k <= j
  <2>3. first \in Thresholds
    BY <2>2
  <2>4. min_adj = lowmem_adj[first]
    BY <1>3 DEF min_adj
  <2> HIDE DEF first
  <2> QED BY <1>1, <2>1, <2>3, <2>4
<1> QED BY <1>2, <1>3

\* One round of for_each_process keeps the best choice.
LEMMA ConsiderBest ==
  ASSUME LowMemAssumption, LowTypeOK, NEW k \in 1 .. Len(Tasks), NEW v, Best(k - 1, v)
  PROVE  Best(k, Consider(v, Tasks[k]))
<1> DEFINE p == Tasks[k]
<1>1. p \in Procs /\ k \in Nat /\ NoTask \notin Procs
  BY DEF LowMemAssumption, Procs
<1>2. ASSUME NEW q \in Procs PROVE oom_adj[q] \in Int /\ rss[q] \in Int
  <2>1. oom_adj[q] \in OomAdj /\ rss[q] \in Nat
    BY DEF LowTypeOK
  <2>2. OomAdj \subseteq Int /\ \A n \in Nat : n \in Int
    BY DEF LowMemAssumption
  <2> QED BY <2>1, <2>2
<1>3. min_adj \in Int
  BY MinAdjNumber
<1>4. \A j \in 1 .. k : j \in 1 .. k - 1 \/ j = k
  BY <1>1
<1>5. \A j \in 1 .. k : Tasks[j] \in Procs
  BY DEF LowMemAssumption, Procs
<1>6. Eligible(p) <=> ~ (status[p] = "gone" \/ oom_adj[p] < min_adj \/ rss[p] <= 0)
  BY <1>1, <1>2, <1>3 DEF Eligible
<1> HIDE DEF p
<1>7. CASE ~ Eligible(p)
  <2>1. Consider(v, p) = v
    BY <1>6, <1>7 DEF Consider
  <2> QED BY <1>4, <1>7, <2>1 DEF Best, p
<1>8. CASE Eligible(p) /\ v = NoTask
  <2>1. Consider(v, p) = p
    BY <1>6, <1>8 DEF Consider
  <2>2. \A j \in 1 .. k - 1 : ~ Eligible(Tasks[j])
    BY <1>1, <1>8 DEF Best
  <2>3. AsGood(p, p)
    BY <1>1, <1>2 DEF AsGood
  <2> QED BY <1>1, <1>4, <1>8, <2>1, <2>2, <2>3 DEF Best, p
<1>9. CASE Eligible(p) /\ v # NoTask
  <2>1. v \in Procs /\ Eligible(v) /\ \A j \in 1 .. k - 1 : Eligible(Tasks[j]) => AsGood(v, Tasks[j])
    BY <1>9 DEF Best
  <2>2. CASE AsGood(v, p)
    <3>1. Consider(v, p) = v
      BY <1>6, <1>9, <2>2 DEF Consider, AsGood
    <3> QED BY <1>4, <2>1, <2>2, <3>1 DEF Best, p
  <2>3. CASE ~ AsGood(v, p)
    <3>1. Consider(v, p) = p
      BY <1>1, <1>2, <1>6, <1>9, <2>1, <2>3 DEF Consider, AsGood
    <3>2. ASSUME NEW j \in 1 .. k, Eligible(Tasks[j]) PROVE AsGood(p, Tasks[j])
      <4> DEFINE q == Tasks[j]
      <4>1. q \in Procs
        BY <1>5
      <4>2. q = p \/ AsGood(v, q)
        BY <1>4, <2>1, <3>2 DEF p
      <4> HIDE DEF q
      <4>3. /\ oom_adj[q] \in Int /\ rss[q] \in Int /\ oom_adj[p] \in Int /\ rss[p] \in Int
            /\ oom_adj[v] \in Int /\ rss[v] \in Int
        BY <1>1, <1>2, <2>1, <4>1
      <4>4. /\ oom_adj[v] <= oom_adj[p]
            /\ oom_adj[v] = oom_adj[p] => rss[v] <= rss[p]
        BY <2>3, <4>3 DEF AsGood
      <4>5. AsGood(p, q)
        BY <4>2, <4>3, <4>4 DEF AsGood
      <4> QED BY <4>5 DEF q
    <3> QED BY <1>1, <1>9, <3>1, <3>2 DEF Best, p
  <2> QED BY <2>2, <2>3
<1> QED BY <1>7, <1>8, <1>9

\* The single pass of lowmem_shrink finds the best process.
LEMMA SelectedBest ==
  ASSUME LowMemAssumption, LowTypeOK
  PROVE  Best(Len(Tasks), Selected)
<1> DEFINE N == Len(Tasks)
           V == Procs \cup {NoTask}
           c == [x \in (1 .. N) \X V |-> Consider(x[2], Tasks[x[1]])]
           IsAfter(g) == g = [k \in 0 .. N |-> IF k = 0 THEN NoTask ELSE Consider(g[k - 1], Tasks[k])]
           after == CHOOSE g : IsAfter(g)
<1>1. N \in Nat /\ \A k \in 1 .. N : Tasks[k] \in Procs
  BY DEF LowMemAssumption, Procs
<1>2. \A k \in 1 .. N : \A v \in V : c[<<k, v>>] = Consider(v, Tasks[k]) /\ Consider(v, Tasks[k]) \in V
  BY <1>1 DEF Consider
<1>3. c \in [(1 .. N) \X V -> V]
  <2>1. \A x \in (1 .. N) \X V : Consider(x[2], Tasks[x[1]]) \in V
    BY <1>1 DEF Consider
  <2> QED BY <2>1
<1> HIDE DEF c
<1>4. PICK f : f \in [0 .. N -> V] /\ Loop(f, N, NoTask, c)
  BY <1>1, <1>3, LoopExists
<1>5. IsAfter(f)
  <2>1. \A k \in 0 .. N : k # 0 => k \in 1 .. N /\ f[k - 1] \in V
    BY <1>1, <1>4
  <2>2. \A k \in 0 .. N : k # 0 => c[<<k, f[k - 1]>>] = Consider(f[k - 1], Tasks[k])
    BY <1>2, <2>1
  <2> HIDE DEF N
  <2> QED BY <1>4, <2>2 DEF Loop
<1>6. Selected = after[N]
  BY Zenon DEF Selected
<1>7. IsAfter(after)
  <2> HIDE DEF IsAfter
  <2> QED BY <1>5, Zenon
<1> HIDE DEF after
<1> DEFINE S == {k \in Nat : k <= N => Best(k, after[k])}
<1>8. 0 \in S
  <2>1. after[0] = NoTask
    BY <1>1, <1>7
  <2> QED BY <2>1 DEF Best
<1>9. ASSUME NEW n \in Nat, n \in S PROVE n + 1 \in S
  <2> SUFFICES ASSUME n + 1 <= N PROVE Best(n + 1, after[n + 1])
    OBVIOUS
  <2>1. Best(n, after[n]) /\ n + 1 \in 1 .. N /\ n + 1 \in 0 .. N /\ (n + 1) - 1 = n
    BY <1>1, <1>9
  <2>2. after[n + 1] = Consider(after[n], Tasks[n + 1])
    BY <1>7, <2>1
  <2> QED BY <2>1, <2>2, ConsiderBest
<1> HIDE DEF S, IsAfter
<1>10. \A n \in Nat : n \in S
  BY <1>8, <1>9, SetInduction
<1> QED BY <1>1, <1>6, <1>10 DEF S

\* Whatever user space writes and whoever dies meanwhile, a process is killed only
\* if it may be, no other that may be has a higher oom_adj, and none with the same
\* oom_adj is larger: for any list of processes and any thresholds.
THEOREM AlwaysKillsTheBest ==
  ASSUME LowMemAssumption
  PROVE  LowSafety => KillsTheBest
<1> DEFINE Rule == \A p \in Procs : Killed(p) =>
                     /\ Eligible(p)
                     /\ \A q \in Procs \ {p} : Eligible(q) =>
                          \/ oom_adj[q] < oom_adj[p]
                          \/ oom_adj[q] = oom_adj[p] /\ rss[q] <= rss[p]
<1>1. ASSUME LowTypeOK, [LowNext]_lowVars PROVE [Rule]_lowVars
  <2>1. CASE lowmem_shrink
    <3>1. Best(Len(Tasks), Selected) /\ Selected # NoTask
      BY <1>1, <2>1, SelectedBest DEF lowmem_shrink
    <3> HIDE DEF Selected
    <3>2. /\ Selected \in Procs /\ Eligible(Selected)
          /\ \A j \in 1 .. Len(Tasks) : Eligible(Tasks[j]) => AsGood(Selected, Tasks[j])
      BY <3>1 DEF Best
    <3>3. \A p \in Procs : Killed(p) => p = Selected
      BY <1>1, <2>1 DEF Killed, lowmem_shrink, LowTypeOK
    <3>4. \A q \in Procs : \E j \in 1 .. Len(Tasks) : q = Tasks[j]
      BY DEF Procs, LowMemAssumption
    <3>5. \A q \in Procs : Eligible(q) => AsGood(Selected, q)
      BY <3>2, <3>4
    <3>6. Rule
      BY <3>2, <3>3, <3>5 DEF AsGood
    <3> QED BY <3>6
  <2>2. ASSUME \A p \in Procs : ~ Killed(p) PROVE [Rule]_lowVars
    BY <2>2
  <2>3. ASSUME NEW p \in Procs, exit_mm(p) PROVE \A q \in Procs : ~ Killed(q)
    BY <1>1, <2>3 DEF exit_mm, Killed, LowTypeOK
  <2>4. ASSUME MemoryStep \/ ParameterStep \/ UNCHANGED lowVars PROVE \A q \in Procs : ~ Killed(q)
    BY <2>4 DEF MemoryStep, ParameterStep, read_file, drop_cache, page_fault, write_oom_adj,
       write_adj, write_minfree, lowVars, Killed
  <2> QED BY <1>1, <2>1, <2>2, <2>3, <2>4 DEF LowNext
<1> QED BY <1>1, LowTypes, PTL DEF LowSafety, KillsTheBest

-----------------------------------------------------------------------------
(***************************************************************************)
(* User-space wake locks: the order of names.                              *)
(***************************************************************************)
Strings == Seq(Nat \ {0})

\* The first character that differs decides, the end of a string being the
\* smallest one.
DiffersAt(a, b, n) ==
  /\ n \in Nat \ {0} /\ CharAt(a, n) # CharAt(b, n)
  /\ \A m \in 1 .. n - 1 : CharAt(a, m) = CharAt(b, m)

Before(a, b) == \E n \in Nat \ {0} : DiffersAt(a, b, n) /\ CharAt(a, n) < CharAt(b, n)

\* A character is a number, and NUL behind the end only.
LEMMA Characters ==
  ASSUME NEW a \in Strings, NEW n \in Nat \ {0}
  PROVE  CharAt(a, n) \in Nat /\ (CharAt(a, n) = 0 <=> n > Len(a))
<1>1. Len(a) \in Nat
  BY DEF Strings
<1>2. CASE n <= Len(a)
  <2>1. n \in 1 .. Len(a)
    BY <1>1, <1>2
  <2>2. a[n] \in Nat \ {0}
    BY <2>1 DEF Strings
  <2> QED BY <1>1, <1>2, <2>2 DEF CharAt
<1>3. CASE n > Len(a)
  BY <1>1, <1>3 DEF CharAt
<1> QED BY <1>1, <1>2, <1>3

\* Strings with the same characters are the same.
LEMMA SameString ==
  ASSUME NEW a \in Strings, NEW b \in Strings,
         \A n \in Nat \ {0} : CharAt(a, n) = CharAt(b, n)
  PROVE  a = b
<1>1. Len(a) \in Nat /\ Len(b) \in Nat
  BY DEF Strings
<1>2. ~ (Len(a) < Len(b))
  <2> SUFFICES ASSUME Len(a) < Len(b) PROVE FALSE
    OBVIOUS
  <2>1. Len(b) \in Nat \ {0} /\ Len(b) > Len(a) /\ ~ (Len(b) > Len(b))
    BY <1>1
  <2> QED BY <2>1, Characters
<1>3. ~ (Len(b) < Len(a))
  <2> SUFFICES ASSUME Len(b) < Len(a) PROVE FALSE
    OBVIOUS
  <2>1. Len(a) \in Nat \ {0} /\ Len(a) > Len(b) /\ ~ (Len(a) > Len(a))
    BY <1>1
  <2> QED BY <2>1, Characters
<1>4. Len(a) = Len(b)
  BY <1>1, <1>2, <1>3
<1>5. ASSUME NEW n \in 1 .. Len(a) PROVE a[n] = b[n]
  <2>1. n \in Nat \ {0} /\ n <= Len(a) /\ n <= Len(b)
    BY <1>1, <1>4
  <2>2. CharAt(a, n) = CharAt(b, n)
    BY <2>1
  <2> QED BY <2>1, <2>2 DEF CharAt
<1> QED BY <1>4, <1>5 DEF Strings

\* Two strings that differ do so first at some character.
LEMMA FirstDifference ==
  ASSUME NEW a \in Strings, NEW b \in Strings, a # b
  PROVE  \E n \in Nat \ {0} : DiffersAt(a, b, n)
<1> DEFINE T == {n \in Nat \ {0} : CharAt(a, n) # CharAt(b, n)}
<1>1. T # {} /\ T \in SUBSET Nat
  BY SameString
<1>2. PICK n \in T : \A m \in T : n <= m
  BY <1>1, LeastElement
<1>3. n \in Nat \ {0} /\ CharAt(a, n) # CharAt(b, n)
  OBVIOUS
<1>4. ASSUME NEW m \in 1 .. n - 1 PROVE CharAt(a, m) = CharAt(b, m)
  <2>1. m \in Nat \ {0} /\ ~ (n <= m)
    BY <1>3
  <2> QED BY <1>2, <2>1
<1> QED BY <1>3, <1>4 DEF DiffersAt

\* compare decides by the first difference.
LEMMA CompareDiffers ==
  ASSUME NEW a \in Strings, NEW b \in Strings, NEW n, DiffersAt(a, b, n)
  PROVE  /\ compare(a, b) \in Int
         /\ compare(a, b) < 0 <=> CharAt(a, n) < CharAt(b, n)
         /\ compare(a, b) > 0 <=> CharAt(a, n) > CharAt(b, n)
<1> DEFINE differ == {m \in 1 .. Len(a) : CharAt(a, m) # CharAt(b, m)}
<1>1. Len(a) \in Nat /\ n \in Nat \ {0} /\ CharAt(a, n) \in Nat /\ CharAt(b, n) \in Nat
  BY Characters DEF Strings, DiffersAt
<1>2. CASE n <= Len(a)
  <2>1. n \in differ
    BY <1>1, <1>2 DEF DiffersAt
  <2>2. \A m \in differ : n <= m
    BY <1>1 DEF DiffersAt
  <2> DEFINE first == CHOOSE m \in differ : \A j \in differ : m <= j
  <2>3. first \in differ /\ \A j \in differ : first <= j
    BY <2>1, <2>2
  <2>4. first = n
    <3>1. first <= n /\ n <= first
      BY <2>1, <2>2, <2>3
    <3>2. first \in Int
      BY <1>1, <2>3
    <3> QED BY <1>1, <3>1, <3>2
  <2>5. strncmp(a, b, Len(a)) = CharAt(a, n) - CharAt(b, n)
    <3>1. strncmp(a, b, Len(a)) = CharAt(a, first) - CharAt(b, first)
      BY <2>1 DEF strncmp
    <3> HIDE DEF first
    <3> QED BY <2>4, <3>1
  <2>6. CharAt(a, n) # CharAt(b, n)
    BY DEF DiffersAt
  <2>7. compare(a, b) = CharAt(a, n) - CharAt(b, n)
    BY <1>1, <2>5, <2>6 DEF compare
  <2> QED BY <1>1, <2>7
<1>3. CASE n > Len(a)
  <2>1. differ = {}
    BY <1>1, <1>3 DEF DiffersAt
  <2>2. strncmp(a, b, Len(a)) = 0
    BY <2>1 DEF strncmp
  <2>3. CharAt(a, n) = 0 /\ CharAt(b, n) # 0
    BY <1>1, <1>3, Characters DEF DiffersAt
  <2>4. CharAt(b, Len(a) + 1) # 0
    <3>1. Len(a) + 1 \in Nat \ {0} /\ Len(b) \in Nat
      BY <1>1 DEF Strings
    <3>2. ~ (n > Len(b))
      BY <1>1, <2>3, Characters
    <3>3. ~ (Len(a) + 1 > Len(b))
      BY <1>1, <1>3, <3>1, <3>2
    <3> QED BY <3>1, <3>3, Characters
  <2>5. compare(a, b) = -1
    BY <2>2, <2>4 DEF compare
  <2> QED BY <1>1, <2>3, <2>5
<1> QED BY <1>1, <1>2, <1>3

\* compare is the order of the names, and 0 for a name and itself only.
LEMMA CompareOrders ==
  ASSUME NEW a \in Strings, NEW b \in Strings
  PROVE  /\ compare(a, b) \in Int
         /\ compare(a, b) = 0 <=> a = b
         /\ compare(a, b) < 0 <=> Before(a, b)
         /\ compare(a, b) > 0 <=> Before(b, a)
<1>1. CASE a = b
  <2>1. {m \in 1 .. Len(a) : CharAt(a, m) # CharAt(b, m)} = {}
    BY <1>1
  <2>2. CharAt(b, Len(a) + 1) = 0
    <3>1. Len(a) + 1 \in Nat \ {0} /\ Len(a) + 1 > Len(b)
      BY <1>1 DEF Strings
    <3> QED BY <3>1, Characters
  <2>3. strncmp(a, b, Len(a)) = 0
    BY <2>1 DEF strncmp
  <2>4. compare(a, b) = 0
    BY <2>2, <2>3 DEF compare
  <2>5. ~ Before(a, b) /\ ~ Before(b, a)
    BY <1>1 DEF Before, DiffersAt
  <2> QED BY <1>1, <2>4, <2>5
<1>2. CASE a # b
  <2>1. PICK n \in Nat \ {0} : DiffersAt(a, b, n)
    BY <1>2, FirstDifference
  <2>2. CharAt(a, n) \in Nat /\ CharAt(b, n) \in Nat /\ CharAt(a, n) # CharAt(b, n)
    BY <2>1, Characters DEF DiffersAt
  <2>3. ASSUME NEW m \in Nat \ {0}, DiffersAt(a, b, m) \/ DiffersAt(b, a, m) PROVE m = n
    <3>1. ~ (m < n)
      BY <2>1, <2>3 DEF DiffersAt
    <3>2. ~ (n < m)
      BY <2>1, <2>3 DEF DiffersAt
    <3> QED BY <3>1, <3>2
  <2>4. Before(a, b) <=> CharAt(a, n) < CharAt(b, n)
    BY <2>1, <2>3 DEF Before
  <2>5. DiffersAt(b, a, n)
    BY <2>1 DEF DiffersAt
  <2>6. Before(b, a) <=> CharAt(b, n) < CharAt(a, n)
    BY <2>3, <2>5 DEF Before
  <2>7. /\ compare(a, b) \in Int
        /\ compare(a, b) < 0 <=> CharAt(a, n) < CharAt(b, n)
        /\ compare(a, b) > 0 <=> CharAt(a, n) > CharAt(b, n)
    BY <2>1, CompareDiffers
  <2> QED BY <1>2, <2>2, <2>4, <2>6, <2>7
<1> QED BY <1>1, <1>2

\* The order is transitive and strict.
LEMMA BeforeTransitive ==
  ASSUME NEW a \in Strings, NEW b \in Strings, NEW c \in Strings, Before(a, b), Before(b, c)
  PROVE  Before(a, c)
<1>1. PICK n \in Nat \ {0} : DiffersAt(a, b, n) /\ CharAt(a, n) < CharAt(b, n)
  BY DEF Before
<1>2. PICK m \in Nat \ {0} : DiffersAt(b, c, m) /\ CharAt(b, m) < CharAt(c, m)
  BY DEF Before
<1>3. \A k \in Nat \ {0} : CharAt(a, k) \in Nat /\ CharAt(b, k) \in Nat /\ CharAt(c, k) \in Nat
  BY Characters
<1> DEFINE k == IF n <= m THEN n ELSE m
<1>4. k \in Nat \ {0} /\ k <= n /\ k <= m
  OBVIOUS
<1>5. CharAt(a, k) < CharAt(c, k)
  <2>1. CASE n < m
    <3>1. CharAt(b, n) = CharAt(c, n)
      BY <1>2, <2>1 DEF DiffersAt
    <3> QED BY <1>1, <2>1, <3>1
  <2>2. CASE n = m
    BY <1>1, <1>2, <1>3, <2>2
  <2>3. CASE m < n
    <3>1. CharAt(a, m) = CharAt(b, m)
      BY <1>1, <2>3 DEF DiffersAt
    <3> QED BY <1>2, <2>3, <3>1
  <2> QED BY <2>1, <2>2, <2>3
<1>6. ASSUME NEW j \in 1 .. k - 1 PROVE CharAt(a, j) = CharAt(c, j)
  <2>1. j \in 1 .. n - 1 /\ j \in 1 .. m - 1
    BY <1>4
  <2> QED BY <1>1, <1>2, <2>1 DEF DiffersAt
<1> HIDE DEF k
<1>7. CharAt(a, k) # CharAt(c, k)
  BY <1>3, <1>4, <1>5
<1>8. DiffersAt(a, c, k)
  BY <1>4, <1>6, <1>7 DEF DiffersAt
<1> QED BY <1>4, <1>5, <1>8 DEF Before

\* No name is before itself.
LEMMA BeforeStrict ==
  ASSUME NEW a \in Strings
  PROVE  ~ Before(a, a)
BY DEF Before, DiffersAt

-----------------------------------------------------------------------------
(***************************************************************************)
(* The search through the tree.                                            *)
(***************************************************************************)
Nodes == [name : Names, active : BOOLEAN, timeout : Int]

\* The names of the tree t are in order.
Ordered(t) ==
  /\ t \in Seq(Nodes)
  /\ \A j, k \in 1 .. Len(t) : j < k => Before(t[j].name, t[k].name)

\* s is where buf is in t, or where it belongs.
Place(t, buf, s) ==
  \/ s.found = TRUE /\ s.pos \in 1 .. Len(t) /\ t[s.pos].name = buf
  \/ /\ s.found = FALSE /\ s.pos \in 1 .. Len(t) + 1
     /\ \A k \in 1 .. s.pos - 1 : Before(t[k].name, buf)
     /\ \A k \in s.pos .. Len(t) : Before(buf, t[k].name)

Subtrees(t) == (1 .. Len(t) + 1) \X (0 .. Len(t))

Places == SUBSET [found : BOOLEAN, pos : Nat]

\* One turn of the loop of lookup_wake_lock_name at node k of a subtree.
Turn(t, buf, f, sub, k) ==
  LET diff == compare(buf, t[k].name)
  IN  CASE diff < 0 -> f[<<sub[1], k - 1>>]
        [] diff > 0 -> f[<<k + 1, sub[2]>>]
        [] OTHER -> {[found |-> TRUE, pos |-> k]}

Turns(t, buf, f, sub) ==
  IF sub[1] > sub[2] THEN {[found |-> FALSE, pos |-> sub[1]]}
  ELSE UNION {Turn(t, buf, f, sub, k) : k \in sub[1] .. sub[2]}

\* Names are strings, and so are the names in the tree.
LEMMA NamesAreStrings ==
  ASSUME NamesAssumption
  PROVE  Names \subseteq Strings
BY DEF NamesAssumption, Strings

\* The nodes of a subtree at the sides of its node k are subtrees, and smaller.
LEMMA Sides ==
  ASSUME NEW t \in Seq(Nodes), NEW sub \in Subtrees(t), NEW k \in sub[1] .. sub[2]
  PROVE  /\ sub[1] \in 1 .. Len(t) + 1 /\ sub[2] \in 0 .. Len(t) /\ k \in 1 .. Len(t)
         /\ <<sub[1], k - 1>> \in Subtrees(t) /\ <<k + 1, sub[2]>> \in Subtrees(t)
<1>1. Len(t) \in Nat /\ sub[1] \in 1 .. Len(t) + 1 /\ sub[2] \in 0 .. Len(t)
  BY DEF Subtrees
<1>2. k \in 1 .. Len(t) /\ k - 1 \in 0 .. Len(t) /\ k + 1 \in 1 .. Len(t) + 1
  BY <1>1
<1> QED BY <1>1, <1>2 DEF Subtrees

\* The recursive function of Search, and where the search ends.
LEMMA SearchFunction ==
  ASSUME NamesAssumption, user_wake_locks \in Seq(Nodes), NEW buf \in Names
  PROVE  \E f :
           /\ \A sub \in Subtrees(user_wake_locks) : f[sub] = Turns(user_wake_locks, buf, f, sub)
           /\ Search(buf) = f[<<1, Len(user_wake_locks)>>]
<1> DEFINE t == user_wake_locks
           D == Subtrees(t)
           V == Places
           rk == [sub \in D |-> IF sub[1] > sub[2] THEN 0 ELSE (sub[2] - sub[1]) + 1]
           c == [x \in D \X [D -> V] |-> Turns(t, buf, x[2], x[1])]
           IsWithin(g) == g = [sub \in (1 .. Len(t) + 1) \X (0 .. Len(t)) |->
             IF sub[1] > sub[2] THEN {[found |-> FALSE, pos |-> sub[1]]}
             ELSE UNION {LET diff == compare(buf, t[k].name)
                         IN  CASE diff < 0 -> g[<<sub[1], k - 1>>]
                               [] diff > 0 -> g[<<k + 1, sub[2]>>]
                               [] OTHER -> {[found |-> TRUE, pos |-> k]} : k \in sub[1] .. sub[2]}]
           within == CHOOSE g : IsWithin(g)
<1>1. Search(buf) = within[<<1, Len(t)>>]
  BY Zenon DEF Search
<1>2. Len(t) \in Nat /\ t \in Seq(Nodes)
  OBVIOUS
<1> HIDE DEF t
<1>3. \A sub \in D : sub[1] \in 1 .. Len(t) + 1 /\ sub[2] \in 0 .. Len(t)
  BY DEF Subtrees
<1>4. \A sub \in D : rk[sub] \in 0 .. Len(t)
  <2> SUFFICES ASSUME NEW sub \in D PROVE rk[sub] \in 0 .. Len(t)
    OBVIOUS
  <2>1. sub[1] \in 1 .. Len(t) + 1 /\ sub[2] \in 0 .. Len(t)
    BY <1>3
  <2> QED BY <1>2, <2>1
<1>5. ASSUME NEW sub \in D, NEW f \in [D -> V] PROVE Turns(t, buf, f, sub) \in V
  <2>1. sub[1] \in Nat
    BY <1>2, <1>3
  <2>2. ASSUME NEW k \in sub[1] .. sub[2] PROVE Turn(t, buf, f, sub, k) \in V
    <3>1. k \in Nat /\ <<sub[1], k - 1>> \in D /\ <<k + 1, sub[2]>> \in D
      BY <1>2, Sides
    <3>2. {[found |-> TRUE, pos |-> k]} \in V
      BY <3>1 DEF Places
    <3>3. f[<<sub[1], k - 1>>] \in V /\ f[<<k + 1, sub[2]>>] \in V
      BY <3>1
    <3> HIDE DEF V
    <3> QED BY <3>2, <3>3 DEF Turn
  <2>3. {[found |-> FALSE, pos |-> sub[1]]} \in V
    BY <2>1 DEF Places
  <2> QED BY <2>2, <2>3 DEF Turns, Places
<1>6. ASSUME NEW sub \in D, NEW f \in [D -> V], NEW g \in [D -> V],
             \A y \in D : rk[y] < rk[sub] => f[y] = g[y]
      PROVE  Turns(t, buf, f, sub) = Turns(t, buf, g, sub)
  <2>1. ASSUME NEW k \in sub[1] .. sub[2] PROVE Turn(t, buf, f, sub, k) = Turn(t, buf, g, sub, k)
    <3> DEFINE left == <<sub[1], k - 1>>
               right == <<k + 1, sub[2]>>
    <3>1. left \in D /\ right \in D /\ sub[1] \in Int /\ sub[2] \in Int /\ k \in Int
      BY <1>2, <1>3, Sides
    <3>2. rk[left] < rk[sub] /\ rk[right] < rk[sub]
      BY <3>1, SMTT(40)
    <3>3. f[left] = g[left] /\ f[right] = g[right]
      BY <1>6, <3>1, <3>2
    <3> QED BY <3>3 DEF Turn
  <2> QED BY <2>1 DEF Turns
<1>7. V # {}
  BY DEF Places
<1>8. rk \in [D -> Nat] /\ \E K \in Nat : \A x \in D : rk[x] < K
  <2>1. Len(t) + 1 \in Nat /\ \A x \in D : rk[x] \in Nat /\ rk[x] < Len(t) + 1
    BY <1>2, <1>4
  <2>2. rk = [x \in D |-> rk[x]]
    OBVIOUS
  <2> HIDE DEF rk
  <2> QED BY <2>1, <2>2
<1>9. c \in [D \X [D -> V] -> V]
  <2>1. \A x \in D \X [D -> V] : Turns(t, buf, x[2], x[1]) \in V
    BY <1>5
  <2> HIDE DEF D, V
  <2> QED BY <2>1
<1>10. \A x \in D : \A f \in [D -> V] : c[<<x, f>>] = Turns(t, buf, f, x)
  <2> HIDE DEF D, V
  <2> QED OBVIOUS
<1> HIDE DEF D, V, rk, c
<1>11. Descends(D, V, rk, c)
  <2>1. \A x \in D : \A f, g \in [D -> V] :
          (\A y \in D : rk[y] < rk[x] => f[y] = g[y]) => c[<<x, f>>] = c[<<x, g>>]
    BY <1>6, <1>10
  <2> QED BY <1>7, <1>8, <1>9, <2>1 DEF Descends
<1>12. PICK f \in [D -> V] : \A x \in D : f[x] = c[<<x, f>>]
  BY <1>11, DescentExists
<1>13. \A sub \in D : f[sub] = Turns(t, buf, f, sub)
  BY <1>10, <1>12
<1>14. IsWithin(f)
  <2>1. f = [sub \in D |-> f[sub]]
    OBVIOUS
  <2>2. f = [sub \in D |-> Turns(t, buf, f, sub)]
    BY <1>13, <2>1
  <2> QED BY <2>2, Zenon DEF Turns, Turn, D, Subtrees
<1>15. IsWithin(within)
  <2> HIDE DEF IsWithin
  <2> QED BY <1>14, Zenon
<1> HIDE DEF within
<1>16. \A sub \in D : within[sub] = Turns(t, buf, within, sub)
  <2>1. within = [sub \in D |-> Turns(t, buf, within, sub)]
    BY <1>15, Zenon DEF Turns, Turn, D, Subtrees
  <2> QED BY <2>1
<1> QED BY <1>1, <1>16 DEF D, t

\* The search ends at the name or, if the tree does not have it, where it belongs,
\* whatever shape the tree has.
LEMMA SearchExact ==
  ASSUME NamesAssumption, Ordered(user_wake_locks), NEW buf \in Names, NEW s \in Search(buf)
  PROVE  Place(user_wake_locks, buf, s)
<1> DEFINE t == user_wake_locks
           D == Subtrees(t)
           \* buf is at a node of sub or belongs at one of its ends
           Near(sub) == /\ sub[1] <= sub[2] + 1
                        /\ \A k \in 1 .. sub[1] - 1 : Before(t[k].name, buf)
                        /\ \A k \in sub[2] + 1 .. Len(t) : Before(buf, t[k].name)
<1>1. t \in Seq(Nodes) /\ Len(t) \in Nat
  BY DEF Ordered
<1>2. PICK f : /\ \A sub \in D : f[sub] = Turns(t, buf, f, sub)
               /\ Search(buf) = f[<<1, Len(t)>>]
  BY <1>1, SearchFunction
<1>3. \A sub \in D : sub[1] \in 1 .. Len(t) + 1 /\ sub[2] \in 0 .. Len(t)
  BY DEF Subtrees
<1>4. \A j, k \in 1 .. Len(t) : j < k => Before(t[j].name, t[k].name)
  BY DEF Ordered
<1>5. \A k \in 1 .. Len(t) : t[k].name \in Names
  <2>1. \A k \in 1 .. Len(t) : t[k] \in Nodes
    BY <1>1
  <2> QED BY <2>1 DEF Nodes
<1> HIDE DEF t
<1>6. buf \in Strings /\ \A k \in 1 .. Len(t) : t[k].name \in Strings
  BY <1>5, NamesAreStrings
<1> DEFINE S == {n \in Nat : \A sub \in D : Near(sub) /\ (sub[2] - sub[1]) + 1 = n =>
                              \A p \in f[sub] : Place(t, buf, p)}
<1>7. ASSUME NEW n \in Nat, \A m \in Nat : m < n => m \in S PROVE n \in S
  <2> SUFFICES ASSUME NEW sub \in D, Near(sub), (sub[2] - sub[1]) + 1 = n, NEW p \in f[sub]
               PROVE  Place(t, buf, p)
    OBVIOUS
  <2>1. p \in Turns(t, buf, f, sub)
    BY <1>2
  <2>2. sub[1] \in 1 .. Len(t) + 1 /\ sub[2] \in 0 .. Len(t)
    BY <1>3
  <2>3. CASE sub[1] > sub[2]
    <3>1. p = [found |-> FALSE, pos |-> sub[1]]
      BY <2>1, <2>3 DEF Turns
    <3>2. sub[1] = sub[2] + 1
      BY <1>1, <2>2, <2>3
    <3> QED BY <2>2, <3>1, <3>2 DEF Place
  <2>4. CASE ~ (sub[1] > sub[2])
    <3>1. PICK k \in sub[1] .. sub[2] : p \in Turn(t, buf, f, sub, k)
      BY <2>1, <2>4 DEF Turns
    <3> DEFINE left == <<sub[1], k - 1>>
               right == <<k + 1, sub[2]>>
    <3>2. k \in 1 .. Len(t) /\ left \in D /\ right \in D
      BY <1>1, Sides
    <3>3. /\ compare(buf, t[k].name) \in Int
          /\ compare(buf, t[k].name) = 0 <=> buf = t[k].name
          /\ compare(buf, t[k].name) < 0 <=> Before(buf, t[k].name)
          /\ compare(buf, t[k].name) > 0 <=> Before(t[k].name, buf)
      BY <1>6, <3>2, CompareOrders
    <3>4. CASE compare(buf, t[k].name) < 0
      <4>1. p \in f[left]
        BY <3>1, <3>3, <3>4 DEF Turn
      <4>2. Near(left)
        <5>1. \A j \in k .. Len(t) : Before(buf, t[j].name)
          <6> SUFFICES ASSUME NEW j \in k .. Len(t) PROVE Before(buf, t[j].name)
            OBVIOUS
          <6>1. j = k \/ (k < j /\ j \in 1 .. Len(t))
            BY <1>1, <3>2
          <6> QED BY <1>4, <1>6, <3>2, <3>3, <3>4, <6>1, BeforeTransitive
        <5>2. left[1] = sub[1] /\ left[2] = k - 1 /\ (k - 1) + 1 = k /\ sub[1] <= k
          BY <2>2, <3>1, <3>2
        <5> QED BY <5>1, <5>2
      <4>3. (left[2] - left[1]) + 1 \in Nat /\ (left[2] - left[1]) + 1 < n
        BY <1>1, <2>2, <3>1, <3>2, SMTT(40)
      <4> HIDE DEF left, Near
      <4> QED BY <1>7, <3>2, <4>1, <4>2, <4>3
    <3>5. CASE compare(buf, t[k].name) > 0
      <4>1. p \in f[right]
        BY <3>1, <3>3, <3>5 DEF Turn
      <4>2. Near(right)
        <5>1. \A j \in 1 .. k : Before(t[j].name, buf)
          <6> SUFFICES ASSUME NEW j \in 1 .. k PROVE Before(t[j].name, buf)
            OBVIOUS
          <6>1. j = k \/ (j < k /\ j \in 1 .. Len(t))
            BY <1>1, <3>2
          <6> QED BY <1>4, <1>6, <3>2, <3>3, <3>5, <6>1, BeforeTransitive
        <5>2. right[1] = k + 1 /\ right[2] = sub[2] /\ (k + 1) - 1 = k /\ k + 1 <= sub[2] + 1
          BY <2>2, <3>1, <3>2, SMTT(40)
        <5> QED BY <5>1, <5>2
      <4>3. (right[2] - right[1]) + 1 \in Nat /\ (right[2] - right[1]) + 1 < n
        BY <1>1, <2>2, <3>1, <3>2, SMTT(40)
      <4> HIDE DEF right, Near
      <4> QED BY <1>7, <3>2, <4>1, <4>2, <4>3
    <3>6. CASE compare(buf, t[k].name) = 0
      <4>1. p = [found |-> TRUE, pos |-> k]
        BY <3>1, <3>6 DEF Turn
      <4> QED BY <3>2, <3>3, <3>6, <4>1 DEF Place
    <3> QED BY <3>3, <3>4, <3>5, <3>6
  <2> QED BY <2>3, <2>4
<1> HIDE DEF S
<1>8. \A n \in Nat : n \in S
  BY <1>7, StrongInduction
<1> DEFINE all == <<1, Len(t)>>
<1>9. all \in D /\ Near(all) /\ (all[2] - all[1]) + 1 \in Nat
  BY <1>1 DEF Subtrees
<1>10. s \in f[all]
  BY <1>2
<1>11. Place(t, buf, s)
  <2> HIDE DEF all, Near, D
  <2> QED BY <1>8, <1>9, <1>10 DEF S
<1> QED BY <1>11 DEF t

-----------------------------------------------------------------------------
(***************************************************************************)
(* The conversion of timeouts.                                             *)
(***************************************************************************)

\* Division rounds down.
LEMMA Quotient ==
  ASSUME NEW x \in Nat, NEW d \in Nat \ {0}
  PROVE  /\ x \div d \in Nat
         /\ (x \div d) * d <= x
         /\ x < ((x \div d) + 1) * d
<1>1. x = d * (x \div d) + (x % d) /\ x % d \in 0 .. d - 1 /\ x \div d \in Nat
  BY Z3
<1> DEFINE q == x \div d
           r == x % d
<1>2. q \in Nat /\ r \in Nat /\ r < d /\ x = d * q + r
  BY <1>1
<1> HIDE DEF q, r
<1>3. q * d <= x /\ x < (q + 1) * d
  BY <1>2, Z3
<1> QED BY <1>2, <1>3 DEF q

\* Factors keep the order.
LEMMA FactorOrder ==
  ASSUME NEW d \in Nat \ {0}, NEW x \in Int, NEW y \in Int, x * d < y * d
  PROVE  x < y
BY Z3

\* A timeout that fits is converted to the number of jiffies that cover it.
LEMMA JiffiesExact ==
  ASSUME NamesAssumption, TimeoutsFit, NEW ns \in Timeouts
  PROVE  /\ jiffies_of(ns) \in Int /\ jiffies_of(ns) > 0
         /\ jiffies_of(ns) * NsPerJiffy >= ns
         /\ (jiffies_of(ns) - 1) * NsPerJiffy < ns \/ jiffies_of(ns) = 1
<1> DEFINE d == NsPerJiffy
           L == LONG_MAX
           x == ns + d - 1
           q == x \div d
           p == IF q <= 0 THEN 1 ELSE q
<1>1. d \in Nat \ {0} /\ L \in Nat \ {0} /\ ULLONG_MAX \in Nat /\ ns \in Nat
  BY DEF NamesAssumption
<1>2. ns <= L * d /\ x <= ULLONG_MAX
  BY DEF TimeoutsFit
<1>3. x \in Nat /\ x % (ULLONG_MAX + 1) = x
  <2>1. x \in Nat
    BY <1>1
  <2> HIDE DEF x
  <2>2. x % (ULLONG_MAX + 1) = x
    BY <1>1, <1>2, <2>1, Z3
  <2> QED BY <2>1, <2>2
<1>4. q \in Nat /\ q * d <= x /\ x < (q + 1) * d
  BY <1>1, <1>3, Quotient
<1>5. jiffies_of(ns) = as_long(p)
  BY <1>3 DEF jiffies_of
<1>6. x = (ns + d) - 1 /\ L * d \in Nat
  BY <1>1
<1> HIDE DEF x, d, L
<1>7. (q + 1) * d = q * d + d /\ (L + 1) * d = L * d + d /\ q * d \in Nat
  <2> HIDE DEF q
  <2> QED BY <1>1, <1>4, Z3
<1> HIDE DEF q
<1>8. q <= L
  <2>1. q * d < (L + 1) * d
    BY <1>1, <1>2, <1>4, <1>6, <1>7
  <2>2. q < L + 1
    BY <1>1, <1>4, <2>1, FactorOrder
  <2> QED BY <1>1, <1>4, <2>2
<1>9. p \in 1 .. L
  BY <1>1, <1>4, <1>8
<1>10. as_long(p) = p
  <2> HIDE DEF p
  <2>1. p \in Nat /\ p < 2 * (L + 1) /\ 2 * (L + 1) \in Nat /\ ~ (p > L)
    BY <1>1, <1>9
  <2>2. p % (2 * (L + 1)) = p
    <3> DEFINE m == 2 * (L + 1)
    <3> HIDE DEF m
    <3>1. p \in Nat /\ m \in Nat /\ p < m
      BY <2>1 DEF m
    <3>2. p % m = p
      BY <3>1, Z3
    <3> QED BY <3>2 DEF m
  <2> QED BY <2>1, <2>2 DEF as_long, L
<1>11. p * d >= ns
  <2>1. CASE q <= 0
    <3>1. q = 0 /\ p = 1 /\ q * d = 0 /\ p * d = d
      BY <1>1, <1>4, <2>1, Z3
    <3> QED BY <1>1, <1>4, <1>6, <1>7, <3>1
  <2>2. CASE ~ (q <= 0)
    <3>1. p = q
      BY <2>2
    <3>2. q * d >= ns
      BY <1>1, <1>4, <1>6, <1>7
    <3> QED BY <3>1, <3>2
  <2> QED BY <2>1, <2>2
<1>12. (p - 1) * d < ns \/ p = 1
  <2>1. CASE ~ (q <= 0)
    <3>1. p = q
      BY <2>1
    <3>2. (q - 1) * d = q * d - d
      BY <1>1, <1>4, Z3
    <3>3. (q - 1) * d < ns
      BY <1>1, <1>4, <1>6, <1>7, <3>2
    <3> QED BY <3>1, <3>3
  <2> QED BY <2>1
<1> HIDE DEF p
<1> QED BY <1>1, <1>5, <1>9, <1>10, <1>11, <1>12 DEF d

-----------------------------------------------------------------------------
(***************************************************************************)
(* What the operations do to the tree.                                     *)
(***************************************************************************)

\* t2 is t with node as the node of its name.
SetNode(t, t2, node) ==
  /\ Ordered(t2)
  /\ \E k \in 1 .. Len(t2) : t2[k] = node
  /\ \A k \in 1 .. Len(t2) :
       t2[k] = node \/ (t2[k].name # node.name /\ \E j \in 1 .. Len(t) : t2[k] = t[j])
  /\ \A j \in 1 .. Len(t) : t[j].name # node.name => \E k \in 1 .. Len(t2) : t2[k] = t[j]

\* Nodes of different places have different names.
LEMMA DifferentNames ==
  ASSUME NamesAssumption, NEW t, Ordered(t), NEW j \in 1 .. Len(t), NEW k \in 1 .. Len(t), j # k
  PROVE  t[j].name # t[k].name
<1>1. Len(t) \in Nat /\ t[j] \in Nodes /\ t[k] \in Nodes
  BY DEF Ordered
<1>2. t[j].name \in Strings /\ t[k].name \in Strings
  BY <1>1, NamesAreStrings DEF Nodes
<1>3. j < k \/ k < j
  BY <1>1
<1>4. Before(t[j].name, t[k].name) \/ Before(t[k].name, t[j].name)
  BY <1>3 DEF Ordered
<1> QED BY <1>2, <1>4, BeforeStrict

\* A node that is there changes its lock only.
LEMMA ChangedNode ==
  ASSUME NamesAssumption, NEW t, Ordered(t), NEW p \in 1 .. Len(t),
         NEW on \in BOOLEAN, NEW jiffies \in Int
  PROVE  SetNode(t, [t EXCEPT ![p] = [name |-> @.name, active |-> on, timeout |-> jiffies]],
                 [name |-> t[p].name, active |-> on, timeout |-> jiffies])
<1> DEFINE node == [name |-> t[p].name, active |-> on, timeout |-> jiffies]
           t2 == [t EXCEPT ![p] = [name |-> @.name, active |-> on, timeout |-> jiffies]]
<1>1. t \in Seq(Nodes) /\ Len(t) \in Nat /\ \A k \in 1 .. Len(t) : t[k] \in Nodes
  BY DEF Ordered
<1>2. node \in Nodes
  BY <1>1 DEF Nodes
<1>5. t2 = [k \in 1 .. Len(t) |-> IF k = p THEN node ELSE t[k]]
  BY <1>1, SMTT(40)
<1> HIDE DEF t2
<1>6. t2 \in Seq(Nodes) /\ Len(t2) = Len(t)
  <2>1. t2 \in [1 .. Len(t) -> Nodes]
    <3> HIDE DEF node
    <3> QED BY <1>1, <1>2, <1>5
  <2> QED BY <1>1, <2>1
<1>7. \A k \in 1 .. Len(t) : t2[k].name = t[k].name
  BY <1>5
<1>8. Ordered(t2)
  BY <1>6, <1>7 DEF Ordered
<1>9. \A k \in 1 .. Len(t) : k # p => t[k].name # node.name
  BY DifferentNames
<1>10. node.name = t[p].name
  OBVIOUS
<1> HIDE DEF node
<1>11. SetNode(t, t2, node)
  BY <1>5, <1>6, <1>8, <1>9, <1>10 DEF SetNode
<1> QED BY <1>11 DEF t2, node

\* A new node is put where its name belongs.
LEMMA NewNode ==
  ASSUME NamesAssumption, NEW t, Ordered(t), NEW node \in Nodes, NEW s,
         Place(t, node.name, s), s.found = FALSE
  PROVE  SetNode(t, InsertAt(t, s.pos, node), node)
<1> DEFINE p == s.pos
           t2 == InsertAt(t, p, node)
<1>1. t \in Seq(Nodes) /\ Len(t) \in Nat /\ \A k \in 1 .. Len(t) : t[k] \in Nodes
  BY DEF Ordered
<1>2. /\ p \in 1 .. Len(t) + 1
      /\ \A k \in 1 .. p - 1 : Before(t[k].name, node.name)
      /\ \A k \in p .. Len(t) : Before(node.name, t[k].name)
  BY DEF Place
<1>3. /\ t2 \in Seq(Nodes) /\ Len(t2) = Len(t) + 1
      /\ \A k \in 1 .. Len(t) + 1 :
           t2[k] = IF k < p THEN t[k] ELSE IF k = p THEN node ELSE t[k - 1]
  BY <1>1, <1>2, Inserted, SMTT(40)
<1> HIDE DEF p, t2
<1>4. node.name \in Strings /\ \A k \in 1 .. Len(t) : t[k].name \in Strings
  BY <1>1, NamesAreStrings DEF Nodes
<1>5. \A k \in 1 .. Len(t) : t[k].name # node.name
  <2> SUFFICES ASSUME NEW k \in 1 .. Len(t) PROVE t[k].name # node.name
    OBVIOUS
  <2>1. k \in 1 .. p - 1 \/ k \in p .. Len(t)
    BY <1>1, <1>2
  <2> QED BY <1>2, <1>4, <2>1, BeforeStrict
<1>6. \A k \in 1 .. Len(t) + 1 :
        \/ k < p /\ k \in 1 .. p - 1 /\ k \in 1 .. Len(t) /\ t2[k] = t[k]
        \/ k = p /\ t2[k] = node
        \/ k > p /\ k - 1 \in p .. Len(t) /\ k - 1 \in 1 .. Len(t) /\ t2[k] = t[k - 1]
  BY <1>1, <1>2, <1>3
<1>7. ASSUME NEW j \in 1 .. Len(t) + 1, NEW k \in 1 .. Len(t) + 1, j < k
      PROVE  Before(t2[j].name, t2[k].name)
  <2>1. \A x, y \in 1 .. Len(t) : x < y => Before(t[x].name, t[y].name)
    BY DEF Ordered
  <2>2. CASE k < p
    BY <1>2, <1>6, <1>7, <2>1, <2>2
  <2>3. CASE k = p
    <3>1. j \in 1 .. p - 1 /\ t2[j] = t[j] /\ t2[k] = node
      BY <1>2, <1>6, <1>7, <2>3
    <3> QED BY <1>2, <3>1
  <2>4. CASE k > p
    <3>1. k - 1 \in p .. Len(t) /\ k - 1 \in 1 .. Len(t) /\ t2[k] = t[k - 1]
      BY <1>2, <1>6, <2>4
    <3>2. CASE j < p
      <4>1. j \in 1 .. Len(t) /\ t2[j] = t[j] /\ j < k - 1
        BY <1>2, <1>6, <2>4, <3>2
      <4> QED BY <2>1, <3>1, <4>1
    <3>3. CASE j = p
      <4>1. t2[j] = node
        BY <1>2, <1>6, <3>3
      <4> QED BY <1>2, <3>1, <4>1
    <3>4. CASE j > p
      <4>1. j - 1 \in 1 .. Len(t) /\ t2[j] = t[j - 1] /\ j - 1 < k - 1
        BY <1>2, <1>6, <1>7, <3>4
      <4> QED BY <2>1, <3>1, <4>1
    <3> QED BY <1>2, <3>2, <3>3, <3>4
  <2> QED BY <1>2, <2>2, <2>3, <2>4
<1>8. Ordered(t2)
  BY <1>3, <1>7 DEF Ordered
<1>9. p \in 1 .. Len(t2) /\ t2[p] = node
  BY <1>1, <1>2, <1>3
<1>10. \A k \in 1 .. Len(t2) :
         t2[k] = node \/ (t2[k].name # node.name /\ \E j \in 1 .. Len(t) : t2[k] = t[j])
  BY <1>3, <1>5, <1>6
<1>11. ASSUME NEW j \in 1 .. Len(t) PROVE \E k \in 1 .. Len(t2) : t2[k] = t[j]
  <2>1. CASE j < p
    <3>1. j \in 1 .. Len(t2) /\ t2[j] = t[j]
      BY <1>1, <1>3, <2>1
    <3> QED BY <3>1
  <2>2. CASE ~ (j < p)
    <3>1. j + 1 \in 1 .. Len(t) + 1 /\ ~ (j + 1 < p) /\ j + 1 # p /\ (j + 1) - 1 = j
      BY <1>1, <1>2, <2>2
    <3>2. t2[j + 1] = t[j]
      BY <1>3, <3>1
    <3> QED BY <1>3, <3>1, <3>2
  <2> QED BY <2>1, <2>2
<1>12. SetNode(t, t2, node)
  BY <1>8, <1>9, <1>10, <1>11 DEF SetNode
<1> QED BY <1>12 DEF t2, p
\* What the history says of a node.
Fits(node, ns) ==
  /\ ns \in Timeouts \cup {None}
  /\ ns # None => node.active = TRUE /\ node.timeout = jiffies_of(ns)
  /\ ns = None => node.timeout = 0

KeepsGiven(t, g) ==
  /\ g \in [Names -> Timeouts \cup {None}]
  /\ \A k \in 1 .. Len(t) : Fits(t[k], g[t[k].name])

\* The inductive invariant: the tree is ordered, and each lock is held for what
\* was last written with its name.
TreeInv == Ordered(user_wake_locks) /\ KeepsGiven(user_wake_locks, given)

\* A step sets the node of one name; it releases only a lock that is there.
Sets(node, ns) ==
  /\ node \in Nodes /\ Fits(node, ns)
  /\ SetNode(user_wake_locks, user_wake_locks', node)
  /\ given' = [given EXCEPT ![node.name] = ns]
  /\ node.active = FALSE =>
       ns = None /\ \E k \in 1 .. Len(user_wake_locks) : user_wake_locks[k].name = node.name

\* Nothing is set at first.
LEMMA UserInitially ==
  ASSUME NamesAssumption, UserInit
  PROVE  TreeInv
<1>1. user_wake_locks \in Seq(Nodes) /\ Len(user_wake_locks) = 0 /\ 1 .. 0 = {}
  BY DEF UserInit
<1>2. given \in [Names -> Timeouts \cup {None}]
  BY DEF UserInit
<1> QED BY <1>1, <1>2 DEF TreeInv, Ordered, KeepsGiven

\* A node that is there is set.
LEMMA SetsFound ==
  ASSUME NamesAssumption, TreeInv, NEW p \in 1 .. Len(user_wake_locks),
         NEW on \in BOOLEAN, NEW jiffies \in Int, NEW ns, on = FALSE => ns = None,
         Fits([name |-> user_wake_locks[p].name, active |-> on, timeout |-> jiffies], ns),
         user_wake_locks' = WithLock(p, on, jiffies),
         given' = [given EXCEPT ![user_wake_locks[p].name] = ns]
  PROVE  \E node, m : Sets(node, m)
<1> DEFINE node == [name |-> user_wake_locks[p].name, active |-> on, timeout |-> jiffies]
<1>1. SetNode(user_wake_locks, user_wake_locks', node)
  BY ChangedNode DEF TreeInv, WithLock
<1>2. node \in Nodes
  <2>1. user_wake_locks[p] \in Nodes
    BY DEF TreeInv, Ordered
  <2> QED BY <2>1 DEF Nodes
<1>3. node.name = user_wake_locks[p].name /\ node.active = on
  OBVIOUS
<1> HIDE DEF node
<1>4. Fits(node, ns)
  BY DEF node
<1>5. Sets(node, ns)
  BY <1>1, <1>2, <1>3, <1>4 DEF Sets
<1> QED BY <1>5

\* Every step sets a node.
LEMMA StepSets ==
  ASSUME NamesAssumption, TimeoutsFit, TreeInv, UserNext
  PROVE  \E node, m : Sets(node, m)
<1>1. /\ user_wake_locks \in Seq(Nodes) /\ Len(user_wake_locks) \in Nat
      /\ DOMAIN user_wake_locks = 1 .. Len(user_wake_locks)
  BY DEF TreeInv, Ordered
<1>2. None \notin Timeouts /\ FALSE \in BOOLEAN /\ TRUE \in BOOLEAN /\ 0 \in Int
  BY DEF NamesAssumption, None
<1>3. ASSUME NEW name \in Names, NEW ns \in Timeouts \cup {None}, wake_lock_store(name, ns)
      PROVE  \E node, m : Sets(node, m)
  <2> DEFINE jiffies == IF ns = None THEN 0 ELSE jiffies_of(ns)
             new == [name |-> name, active |-> TRUE, timeout |-> jiffies]
  <2>1. jiffies \in Int
    BY <1>2, JiffiesExact
  <2>2. new \in Nodes /\ new.name = name /\ new.active = TRUE
    BY <2>1 DEF Nodes
  <2>3. Fits(new, ns)
    BY DEF Fits
  <2>4. PICK s \in Search(name) :
          user_wake_locks' = IF s.found THEN WithLock(s.pos, TRUE, jiffies)
                             ELSE InsertAt(user_wake_locks, s.pos, new)
    BY <1>3, Zenon DEF wake_lock_store
  <2>5. given' = [given EXCEPT ![name] = ns]
    BY <1>3 DEF wake_lock_store
  <2> HIDE DEF jiffies
  <2>6. Place(user_wake_locks, name, s)
    BY SearchExact DEF TreeInv
  <2>7. CASE s.found = TRUE
    <3>1. s.pos \in 1 .. Len(user_wake_locks) /\ user_wake_locks[s.pos].name = name
      BY <2>6, <2>7 DEF Place
    <3>2. user_wake_locks' = WithLock(s.pos, TRUE, jiffies)
      BY <2>4, <2>7
    <3> QED BY <1>2, <2>1, <2>3, <2>5, <3>1, <3>2, SetsFound
  <2>8. CASE s.found = FALSE
    <3>1. user_wake_locks' = InsertAt(user_wake_locks, s.pos, new)
      BY <2>4, <2>8
    <3> HIDE DEF new
    <3>2. SetNode(user_wake_locks, user_wake_locks', new)
      BY <2>2, <2>6, <2>8, <3>1, NewNode DEF TreeInv
    <3>3. Sets(new, ns)
      BY <2>2, <2>3, <2>5, <3>2 DEF Sets
    <3> QED BY <3>3
  <2> QED BY <2>6, <2>7, <2>8 DEF Place
<1>4. ASSUME NEW p \in 1 .. Len(user_wake_locks), user_wake_locks' = WithLock(p, FALSE, 0),
             given' = [given EXCEPT ![user_wake_locks[p].name] = None]
      PROVE  \E node, m : Sets(node, m)
  <2>1. Fits([name |-> user_wake_locks[p].name, active |-> FALSE, timeout |-> 0], None)
    BY DEF Fits
  <2> QED BY <1>2, <1>4, <2>1, SetsFound
<1>5. ASSUME NEW name \in Names, wake_unlock_store(name)
      PROVE  \E node, m : Sets(node, m)
  <2>1. PICK s \in Search(name) : s.found /\ user_wake_locks' = WithLock(s.pos, FALSE, 0)
    BY <1>5, Zenon DEF wake_unlock_store
  <2>2. Place(user_wake_locks, name, s)
    BY SearchExact DEF TreeInv
  <2>3. s.pos \in 1 .. Len(user_wake_locks) /\ user_wake_locks[s.pos].name = name
    BY <2>1, <2>2 DEF Place
  <2>4. given' = [given EXCEPT ![name] = None]
    BY <1>5 DEF wake_unlock_store
  <2> QED BY <1>4, <2>1, <2>3, <2>4
<1>6. ASSUME NEW p \in DOMAIN user_wake_locks, expire_wake_lock(p)
      PROVE  \E node, m : Sets(node, m)
  BY <1>1, <1>4, <1>6 DEF expire_wake_lock
<1> QED BY <1>3, <1>5, <1>6 DEF UserNext

\* A node that is set keeps the invariant.
LEMMA SetsKeeps ==
  ASSUME TreeInv, NEW node, NEW ns, Sets(node, ns)
  PROVE  TreeInv'
<1> DEFINE t == user_wake_locks
           t2 == user_wake_locks'
<1>1. Ordered(t2)
  BY DEF Sets, SetNode
<1>2. node.name \in Names /\ ns \in Timeouts \cup {None} /\ Fits(node, ns)
  BY DEF Sets, Nodes, Fits
<1>3. /\ given \in [Names -> Timeouts \cup {None}]
      /\ \A k \in 1 .. Len(t) : Fits(t[k], given[t[k].name]) /\ t[k].name \in Names
  <2>1. t \in Seq(Nodes)
    BY DEF TreeInv, Ordered
  <2>2. \A k \in 1 .. Len(t) : t[k].name \in Names
    <3>1. \A k \in 1 .. Len(t) : t[k] \in Nodes
      BY <2>1
    <3> QED BY <3>1 DEF Nodes
  <2> QED BY <2>2 DEF TreeInv, KeepsGiven
<1>4. given' = [given EXCEPT ![node.name] = ns]
  BY DEF Sets
<1>5. given' \in [Names -> Timeouts \cup {None}]
  BY <1>2, <1>3, <1>4
<1>6. given'[node.name] = ns /\ \A n \in Names : n # node.name => given'[n] = given[n]
  BY <1>2, <1>3, <1>4
<1>7. \A k \in 1 .. Len(t2) :
        t2[k] = node \/ (t2[k].name # node.name /\ \E j \in 1 .. Len(t) : t2[k] = t[j])
  BY DEF Sets, SetNode
<1>8. \A k \in 1 .. Len(t2) : Fits(t2[k], given'[t2[k].name])
  <2> HIDE DEF t, t2
  <2> SUFFICES ASSUME NEW k \in 1 .. Len(t2) PROVE Fits(t2[k], given'[t2[k].name])
    OBVIOUS
  <2>1. CASE t2[k] = node
    BY <1>2, <1>6, <2>1
  <2>2. CASE t2[k] # node
    <3>1. PICK j \in 1 .. Len(t) : t2[k] = t[j] /\ t[j].name # node.name
      BY <1>7, <2>2
    <3>2. given'[t[j].name] = given[t[j].name]
      BY <1>3, <1>6, <3>1
    <3> QED BY <1>3, <3>1, <3>2
  <2> QED BY <2>1, <2>2
<1> QED BY <1>1, <1>5, <1>8 DEF TreeInv, KeepsGiven

-----------------------------------------------------------------------------
(***************************************************************************)
(* What the two files show.                                                *)
(***************************************************************************)

\* s is what the file of the locks that are active, or are not, shows of the first
\* n nodes of t.
Shows(t, n, on, s) ==
  /\ Ordered(s)
  /\ \A j \in 1 .. Len(s) : s[j].active = on /\ \E k \in 1 .. n : s[j] = t[k]
  /\ \A k \in 1 .. n : t[k].active = on => \E j \in 1 .. Len(s) : s[j] = t[k]

\* What it shows with one node more.
NextShown(t, n, on, s) == IF t[n].active = on THEN Append(s, t[n]) ELSE s

\* The node that is shown next is behind those that were shown.
LEMMA ShowsNext ==
  ASSUME NEW t, Ordered(t), NEW n \in Nat, n + 1 <= Len(t), NEW on, NEW s, Shows(t, n, on, s)
  PROVE  Shows(t, n + 1, on, NextShown(t, n + 1, on, s))
<1>1. /\ t \in Seq(Nodes) /\ Len(t) \in Nat /\ n + 1 \in 1 .. Len(t) /\ t[n + 1] \in Nodes
      /\ s \in Seq(Nodes) /\ Len(s) \in Nat
  BY DEF Ordered, Shows
<1>2. CASE t[n + 1].active # on
  <2>1. NextShown(t, n + 1, on, s) = s
    BY <1>2 DEF NextShown
  <2>2. \A k \in 1 .. n + 1 : k \in 1 .. n \/ k = n + 1
    OBVIOUS
  <2>3. \A k \in 1 .. n : k \in 1 .. n + 1
    OBVIOUS
  <2> QED BY <1>2, <2>1, <2>2, <2>3 DEF Shows
<1>3. CASE t[n + 1].active = on
  <2> DEFINE e == t[n + 1]
             s2 == Append(s, e)
  <2>1. NextShown(t, n + 1, on, s) = s2
    BY <1>3 DEF NextShown
  <2>2. s2 \in Seq(Nodes) /\ Len(s2) = Len(s) + 1 /\ s2[Len(s) + 1] = e
    BY <1>1
  <2>3. \A j \in 1 .. Len(s) : s2[j] = s[j]
    BY <1>1
  <2> HIDE DEF s2
  <2>4. ASSUME NEW j \in 1 .. Len(s) PROVE Before(s[j].name, e.name)
    <3>1. PICK k \in 1 .. n : s[j] = t[k]
      BY DEF Shows
    <3>2. k \in 1 .. Len(t) /\ k < n + 1
      BY <1>1
    <3> QED BY <1>1, <3>1, <3>2 DEF Ordered
  <2>5. \A x \in 1 .. Len(s2) : x \in 1 .. Len(s) \/ x = Len(s) + 1
    BY <1>1, <2>2
  <2>6. ASSUME NEW x \in 1 .. Len(s2), NEW y \in 1 .. Len(s2), x < y
        PROVE  Before(s2[x].name, s2[y].name)
    <3>1. x \in 1 .. Len(s)
      BY <1>1, <2>2, <2>6
    <3>2. CASE y \in 1 .. Len(s)
      BY <2>3, <2>6, <3>1, <3>2 DEF Shows, Ordered
    <3>3. CASE y = Len(s) + 1
      BY <2>2, <2>3, <2>4, <3>1, <3>3
    <3> QED BY <2>5, <3>2, <3>3
  <2>7. Ordered(s2)
    BY <2>2, <2>6 DEF Ordered
  <2>8. ASSUME NEW j \in 1 .. Len(s2) PROVE s2[j].active = on /\ \E k \in 1 .. n + 1 : s2[j] = t[k]
    <3>1. CASE j \in 1 .. Len(s)
      <4>1. s[j].active = on /\ \E k \in 1 .. n : s[j] = t[k]
        BY <3>1 DEF Shows
      <4>2. \A k \in 1 .. n : k \in 1 .. n + 1
        OBVIOUS
      <4> QED BY <2>3, <3>1, <4>1, <4>2
    <3>2. CASE j = Len(s) + 1
      <4>1. n + 1 \in 1 .. n + 1
        OBVIOUS
      <4> QED BY <1>3, <2>2, <3>2, <4>1
    <3> QED BY <2>5, <3>1, <3>2
  <2>9. ASSUME NEW k \in 1 .. n + 1, t[k].active = on PROVE \E j \in 1 .. Len(s2) : s2[j] = t[k]
    <3>1. CASE k \in 1 .. n
      <4>1. PICK j \in 1 .. Len(s) : s[j] = t[k]
        BY <2>9, <3>1 DEF Shows
      <4>2. j \in 1 .. Len(s2) /\ s2[j] = t[k]
        BY <1>1, <2>2, <2>3, <4>1
      <4> QED BY <4>2
    <3>2. CASE k = n + 1
      <4>1. Len(s) + 1 \in 1 .. Len(s2)
        BY <1>1, <2>2
      <4> QED BY <2>2, <3>2, <4>1
    <3> QED BY <3>1, <3>2
  <2> QED BY <2>1, <2>7, <2>8, <2>9 DEF Shows
<1> QED BY <1>2, <1>3

\* A file shows exactly the nodes it is about.
LEMMA ShowExact ==
  ASSUME Ordered(user_wake_locks), NEW on \in BOOLEAN
  PROVE  Shows(user_wake_locks, Len(user_wake_locks), on, show(on))
<1> DEFINE t == user_wake_locks
           N == Len(t)
           V == Seq(Nodes)
           c == [x \in (1 .. N) \X V |-> NextShown(t, x[1], on, x[2])]
           IsUpto(g) == g = [k \in 0 .. Len(t) |->
                               IF k = 0 THEN <<>>
                               ELSE IF t[k].active = on THEN Append(g[k - 1], t[k]) ELSE g[k - 1]]
           upto == CHOOSE g : IsUpto(g)
<1>1. show(on) = upto[N]
  BY Zenon DEF show
<1>2. t \in Seq(Nodes) /\ N \in Nat /\ Ordered(t)
  BY DEF Ordered
<1> HIDE DEF t
<1>3. \A k \in 1 .. N : t[k] \in Nodes
  BY <1>2
<1>4. \A k \in 1 .. N : \A v \in V : NextShown(t, k, on, v) \in V
  BY <1>3 DEF NextShown
<1>5. c \in [(1 .. N) \X V -> V] /\ \A k \in 1 .. N : \A v \in V : c[<<k, v>>] = NextShown(t, k, on, v)
  <2>1. \A x \in (1 .. N) \X V : NextShown(t, x[1], on, x[2]) \in V
    BY <1>4
  <2> HIDE DEF V
  <2> QED BY <2>1
<1>6. <<>> \in V
  OBVIOUS
<1> HIDE DEF c, V
<1>7. PICK f : f \in [0 .. N -> V] /\ Loop(f, N, <<>>, c)
  BY <1>2, <1>5, <1>6, LoopExists
<1>8. IsUpto(f)
  <2>1. \A k \in 0 .. N : k # 0 => k \in 1 .. N /\ f[k - 1] \in V
    BY <1>2, <1>7
  <2>2. \A k \in 0 .. N : k # 0 => c[<<k, f[k - 1]>>] = NextShown(t, k, on, f[k - 1])
    BY <1>5, <2>1
  <2> QED BY <1>7, <2>2 DEF Loop, NextShown
<1>9. IsUpto(upto)
  <2> HIDE DEF IsUpto
  <2> QED BY <1>8, Zenon
<1> HIDE DEF upto
<1>10. upto[0] = <<>> /\ \A k \in 1 .. N : upto[k] = NextShown(t, k, on, upto[k - 1])
  <2>1. upto[0] = <<>>
    BY <1>2, <1>9
  <2>2. \A k \in 1 .. N : k \in 0 .. N /\ k # 0
    BY <1>2
  <2> QED BY <1>9, <2>1, <2>2 DEF NextShown
<1> DEFINE S == {k \in Nat : k <= N => Shows(t, k, on, upto[k])}
<1>11. 0 \in S
  <2>1. <<>> \in Seq(Nodes) /\ Len(<<>>) = 0 /\ 1 .. 0 = {}
    OBVIOUS
  <2> QED BY <1>10, <2>1 DEF Shows, Ordered
<1>12. ASSUME NEW n \in Nat, n \in S PROVE n + 1 \in S
  <2> SUFFICES ASSUME n + 1 <= N PROVE Shows(t, n + 1, on, upto[n + 1])
    OBVIOUS
  <2>1. Shows(t, n, on, upto[n]) /\ n + 1 \in 1 .. N /\ (n + 1) - 1 = n
    BY <1>2, <1>12
  <2>2. upto[n + 1] = NextShown(t, n + 1, on, upto[n])
    BY <1>10, <2>1
  <2> QED BY <1>2, <2>1, <2>2, ShowsNext
<1> HIDE DEF S, IsUpto
<1>13. \A n \in Nat : n \in S
  BY <1>11, <1>12, SetInduction
<1> QED BY <1>1, <1>2, <1>13 DEF S, t

\* An ordered tree is shown once.
LEMMA OrderedShown ==
  ASSUME NamesAssumption, Ordered(user_wake_locks)
  PROVE  ShownOnce
<1>1. PICK a : a = wake_lock_show
  OBVIOUS
<1>2. PICK b : b = wake_unlock_show
  OBVIOUS
<1>3. PICK t : t = user_wake_locks
  OBVIOUS
<1>4. Shows(t, Len(t), TRUE, a) /\ Shows(t, Len(t), FALSE, b) /\ Ordered(t)
  BY <1>1, <1>2, <1>3, ShowExact DEF wake_lock_show, wake_unlock_show
<1>5. PICK c : c = a \o b
  OBVIOUS
<1>6. /\ a \in Seq(Nodes) /\ b \in Seq(Nodes) /\ Len(a) \in Nat /\ Len(b) \in Nat
      /\ t \in Seq(Nodes) /\ Len(t) \in Nat
  BY <1>4 DEF Shows, Ordered
<1>7. /\ c \in Seq(Nodes) /\ Len(c) = Len(a) + Len(b)
      /\ \A k \in 1 .. Len(a) + Len(b) : c[k] = IF k <= Len(a) THEN a[k] ELSE b[k - Len(a)]
  BY <1>5, <1>6, ConcatProperties
<1>8. /\ \A k \in 1 .. Len(a) : k \in 1 .. Len(c) /\ c[k] = a[k]
      /\ \A k \in 1 .. Len(b) : Len(a) + k \in 1 .. Len(c) /\ c[Len(a) + k] = b[k]
  <2>1. \A k \in 1 .. Len(a) : k \in 1 .. Len(a) + Len(b) /\ k <= Len(a)
    BY <1>6
  <2>2. \A k \in 1 .. Len(b) : /\ Len(a) + k \in 1 .. Len(a) + Len(b) /\ ~ (Len(a) + k <= Len(a))
                               /\ (Len(a) + k) - Len(a) = k
    BY <1>6
  <2> QED BY <1>7, <2>1, <2>2
<1>9. DOMAIN c = 1 .. Len(c) /\ DOMAIN t = 1 .. Len(t) /\ DOMAIN user_wake_locks = DOMAIN t
  BY <1>3, <1>6, <1>7
<1>10. ASSUME NEW x \in 1 .. Len(c), NEW y \in 1 .. Len(c), x < y PROVE c[x].name # c[y].name
  <2>1. \A s : Ordered(s) => \A k, l \in 1 .. Len(s) : k # l => s[k].name # s[l].name
    BY DifferentNames
  <2>2. CASE y <= Len(a)
    <3>1. x \in 1 .. Len(a) /\ y \in 1 .. Len(a) /\ x # y
      BY <1>6, <1>7, <1>10, <2>2
    <3> QED BY <1>4, <1>8, <2>1, <3>1 DEF Shows
  <2>3. CASE x > Len(a)
    <3>1. /\ x - Len(a) \in 1 .. Len(b) /\ y - Len(a) \in 1 .. Len(b) /\ x - Len(a) # y - Len(a)
          /\ Len(a) + (x - Len(a)) = x /\ Len(a) + (y - Len(a)) = y
      BY <1>6, <1>7, <1>10, <2>3
    <3>2. c[x] = b[x - Len(a)] /\ c[y] = b[y - Len(a)]
      BY <1>8, <3>1
    <3>3. Ordered(b)
      BY <1>4 DEF Shows
    <3> QED BY <2>1, <3>1, <3>2, <3>3
  <2>4. CASE x <= Len(a) /\ ~ (y <= Len(a))
    <3>1. /\ x \in 1 .. Len(a) /\ y - Len(a) \in 1 .. Len(b) /\ Len(a) + (y - Len(a)) = y
      BY <1>6, <1>7, <1>10, <2>4
    <3>2. c[x] = a[x] /\ c[y] = b[y - Len(a)]
      BY <1>8, <3>1
    <3>3. PICK k \in 1 .. Len(t) : a[x].active = TRUE /\ a[x] = t[k]
      BY <1>4, <3>1 DEF Shows
    <3>4. PICK l \in 1 .. Len(t) : b[y - Len(a)].active = FALSE /\ b[y - Len(a)] = t[l]
      BY <1>4, <3>1 DEF Shows
    <3>5. k # l
      BY <3>3, <3>4
    <3> QED BY <1>4, <2>1, <3>2, <3>3, <3>4, <3>5
  <2> QED BY <1>6, <1>7, <1>10, <2>2, <2>3, <2>4
<1>11. \A x, y \in DOMAIN c : x # y => c[x].name # c[y].name
  <2> SUFFICES ASSUME NEW x \in 1 .. Len(c), NEW y \in 1 .. Len(c), x # y PROVE c[x].name # c[y].name
    BY <1>9
  <2>1. x < y \/ y < x
    BY <1>6, <1>7
  <2> QED BY <1>10, <2>1
<1>12. ASSUME NEW k \in 1 .. Len(t) PROVE \E x \in 1 .. Len(c) : c[x] = t[k]
  <2>1. t[k].active = TRUE \/ t[k].active = FALSE
    <3>1. t[k] \in Nodes
      BY <1>6
    <3> QED BY <3>1 DEF Nodes
  <2>2. (\E j \in 1 .. Len(a) : a[j] = t[k]) \/ (\E j \in 1 .. Len(b) : b[j] = t[k])
    BY <1>4, <2>1 DEF Shows
  <2> QED BY <1>8, <2>2
<1>13. ASSUME NEW k \in 2 .. Len(t) PROVE compare(t[k].name, t[k - 1].name) > 0
  <2>1. k \in 1 .. Len(t) /\ k - 1 \in 1 .. Len(t) /\ k - 1 < k
    BY <1>6
  <2>2. Before(t[k - 1].name, t[k].name)
    BY <1>4, <2>1 DEF Ordered
  <2>3. t[k - 1] \in Nodes /\ t[k] \in Nodes
    BY <1>6, <2>1
  <2>4. t[k - 1].name \in Strings /\ t[k].name \in Strings
    BY <2>3, NamesAreStrings DEF Nodes
  <2> QED BY <2>2, <2>4, CompareOrders
<1>14. wake_lock_show \o wake_unlock_show = c
  BY <1>1, <1>2, <1>5
<1>15. \A k \in DOMAIN t : \E x \in DOMAIN c : c[x] = t[k]
  BY <1>9, <1>12
<1>16. \A k \in 2 .. Len(t) : compare(t[k].name, t[k - 1].name) > 0
  BY <1>13
<1> HIDE DEF wake_lock_show, wake_unlock_show
<1> QED BY <1>3, <1>11, <1>14, <1>15, <1>16 DEF ShownOnce

-----------------------------------------------------------------------------
(***************************************************************************)
(* The theorems on user-space wake locks.                                  *)
(***************************************************************************)

\* The invariant holds of every state.
LEMMA UserInvariant ==
  ASSUME NamesAssumption, TimeoutsFit
  PROVE  UserSpec => []TreeInv
<1>1. UserInit => TreeInv
  BY UserInitially
<1>2. ASSUME TreeInv, [UserNext]_userVars PROVE TreeInv'
  <2>1. CASE UserNext
    BY <1>2, <2>1, StepSets, SetsKeeps
  <2>2. CASE UNCHANGED userVars
    BY <1>2, <2>2 DEF userVars, TreeInv
  <2> QED BY <1>2, <2>1, <2>2
<1> QED BY <1>1, <1>2, PTL DEF UserSpec

\* Whatever names user space writes, one a prefix of another or not, and whatever
\* shape the tree has, the two files show every lock once; and a lock taken with a
\* timeout that fits is held for the time asked for, to the next jiffy.
THEOREM UserLocksAlwaysExact ==
  ASSUME NamesAssumption, TimeoutsFit
  PROVE  UserSpec => []UserLocksExact
<1>1. ASSUME TreeInv PROVE HeldAsLongAsGiven
  <2> SUFFICES ASSUME NEW n \in Names, NEW k \in NodesOf(n), given[n] # None
               PROVE  /\ user_wake_locks[k].timeout * NsPerJiffy >= given[n]
                      /\ \/ (user_wake_locks[k].timeout - 1) * NsPerJiffy < given[n]
                         \/ user_wake_locks[k].timeout = 1
    BY DEF HeldAsLongAsGiven
  <2>1. k \in 1 .. Len(user_wake_locks) /\ user_wake_locks[k].name = n
    BY <1>1 DEF NodesOf, TreeInv, Ordered
  <2>2. given[n] \in Timeouts /\ user_wake_locks[k].timeout = jiffies_of(given[n])
    BY <1>1, <2>1 DEF TreeInv, KeepsGiven, Fits
  <2> QED BY <2>2, JiffiesExact
<1>2. ASSUME TreeInv PROVE UserLocksExact
  BY <1>1, <1>2, OrderedShown DEF TreeInv, UserLocksExact
<1> QED BY <1>2, UserInvariant, PTL

\* The lock of name n in the tree t.
LockAt(t, n) ==
  IF {k \in DOMAIN t : t[k].name = n} = {} THEN <<"absent">>
  ELSE StateOf(t[CHOOSE k \in {k \in DOMAIN t : t[k].name = n} : TRUE])

\* It is that of the node with the name.
LEMMA LockAtNode ==
  ASSUME NamesAssumption, NEW t, Ordered(t), NEW n
  PROVE  /\ \A k \in 1 .. Len(t) : t[k].name = n => LockAt(t, n) = StateOf(t[k])
         /\ (\A k \in 1 .. Len(t) : t[k].name # n) => LockAt(t, n) = <<"absent">>
<1> DEFINE T == {k \in DOMAIN t : t[k].name = n}
           first == CHOOSE k \in T : TRUE
<1>1. DOMAIN t = 1 .. Len(t)
  BY DEF Ordered
<1>2. LockAt(t, n) = IF T = {} THEN <<"absent">> ELSE StateOf(t[first])
  BY Zenon DEF LockAt
<1>3. ASSUME NEW k \in 1 .. Len(t), t[k].name = n PROVE LockAt(t, n) = StateOf(t[k])
  <2>1. k \in T
    BY <1>1, <1>3
  <2>2. first \in T
    BY <2>1
  <2>3. first \in 1 .. Len(t) /\ t[first].name = n
    BY <1>1, <2>2
  <2> HIDE DEF first
  <2>4. first = k
    BY <1>3, <2>3, DifferentNames
  <2> HIDE DEF T
  <2> QED BY <1>2, <2>1, <2>4
<1>4. ASSUME \A k \in 1 .. Len(t) : t[k].name # n PROVE LockAt(t, n) = <<"absent">>
  <2>1. T = {}
    BY <1>1, <1>4
  <2> QED BY <1>2, <2>1
<1> QED BY <1>3, <1>4

\* To set a node is to set the lock of its name.
LEMMA LockSet ==
  ASSUME NamesAssumption, NEW t, NEW t2, NEW node, Ordered(t), SetNode(t, t2, node)
  PROVE  /\ LockAt(t2, node.name) = StateOf(node)
         /\ \A n : n # node.name => LockAt(t2, n) = LockAt(t, n)
<1>1. Ordered(t2)
  BY DEF SetNode
<1>2. LockAt(t2, node.name) = StateOf(node)
  <2>1. PICK k \in 1 .. Len(t2) : t2[k] = node
    BY DEF SetNode
  <2> QED BY <1>1, <2>1, LockAtNode
<1>3. ASSUME NEW n, n # node.name PROVE LockAt(t2, n) = LockAt(t, n)
  <2>1. CASE \E j \in 1 .. Len(t) : t[j].name = n
    <3>1. PICK j \in 1 .. Len(t) : t[j].name = n
      BY <2>1
    <3>2. PICK k \in 1 .. Len(t2) : t2[k] = t[j]
      BY <1>3, <3>1 DEF SetNode
    <3>3. LockAt(t, n) = StateOf(t[j])
      BY <3>1, LockAtNode
    <3>4. LockAt(t2, n) = StateOf(t2[k])
      BY <1>1, <3>1, <3>2, LockAtNode
    <3> QED BY <3>2, <3>3, <3>4
  <2>2. CASE ~ \E j \in 1 .. Len(t) : t[j].name = n
    <3>1. \A k \in 1 .. Len(t2) : t2[k].name # n
      BY <1>3, <2>2 DEF SetNode
    <3>2. LockAt(t, n) = <<"absent">>
      BY <2>2, LockAtNode
    <3>3. LockAt(t2, n) = <<"absent">>
      BY <1>1, <3>1, LockAtNode
    <3> QED BY <3>2, <3>3
  <2> QED BY <2>1, <2>2
<1> QED BY <1>2, <1>3

\* What is written to the tree is written to the locks by name: each name that was
\* ever written is one lock of its own, and no write is about another's.
THEOREM NamesAlwaysOneLock ==
  ASSUME NamesAssumption, TimeoutsFit
  PROVE  UserSpec => OneLockPerName
<1>0. /\ LockByName = [n \in Names |-> LockAt(user_wake_locks, n)]
      /\ LockByName' = [n \in Names |-> LockAt(user_wake_locks', n)]
  BY Zenon DEF LockByName, NodesOf, LockAt
<1>1. UserInit => ByName!Init
  <2> SUFFICES ASSUME UserInit PROVE ByName!Init
    OBVIOUS
  <2>1. Ordered(user_wake_locks) /\ 1 .. Len(user_wake_locks) = {}
    BY UserInitially DEF TreeInv, UserInit
  <2>2. \A n \in Names : LockAt(user_wake_locks, n) = <<"absent">>
    BY <2>1, LockAtNode
  <2> QED BY <1>0, <2>2 DEF UserInit, ByName!Init, ByName!Absent
<1>2. ASSUME TreeInv, [UserNext]_userVars PROVE [ByName!Next]_(ByName!names)
  <2>1. CASE UserNext
    <3>1. PICK node, ns : Sets(node, ns)
      BY <1>2, <2>1, StepSets
    <3> DEFINE n == node.name
               l == StateOf(node)
    <3>2. n \in Names /\ node.active \in BOOLEAN /\ Ordered(user_wake_locks)
      BY <1>2, <3>1 DEF Sets, Nodes, TreeInv
    <3>3. /\ LockAt(user_wake_locks', n) = l
          /\ \A m : m # n => LockAt(user_wake_locks', m) = LockAt(user_wake_locks, m)
      BY <3>1, <3>2, LockSet DEF Sets
    <3> HIDE DEF l
    <3>4. LockByName' = [LockByName EXCEPT ![n] = l]
      BY <1>0, <3>2, <3>3
    <3>5. given' = [given EXCEPT ![n] = ns] /\ Fits(node, ns)
      BY <3>1 DEF Sets
    <3>6. CASE node.active = TRUE
      <4>1. ns \in Timeouts \cup {None}
        BY <3>5 DEF Fits
      <4>2. CASE ns = None
        <5>1. l = <<"untimed">>
          BY <3>5, <3>6, <4>2 DEF l, StateOf, Fits
        <5>2. ByName!Lock(n)
          BY <3>4, <3>5, <4>1, <4>2, <5>1 DEF ByName!Lock, ByName!Untimed
        <5> QED BY <3>2, <5>2 DEF ByName!Next
      <4>3. CASE ns # None
        <5>1. ns \in Timeouts /\ node.timeout = jiffies_of(ns)
          BY <3>5, <4>1, <4>3 DEF Fits
        <5>2. jiffies_of(ns) # 0 /\ jiffies_of(ns) \in Jiffies
          BY <5>1, JiffiesExact DEF Jiffies
        <5>3. l = <<"timed", jiffies_of(ns)>>
          BY <3>6, <5>1, <5>2 DEF l, StateOf
        <5>4. l \in ByName!Timed
          BY <5>2, <5>3 DEF ByName!Timed
        <5>5. ByName!Lock(n)
          BY <3>4, <3>5, <4>1, <4>3, <5>4 DEF ByName!Lock
        <5> QED BY <3>2, <5>5 DEF ByName!Next
      <4> QED BY <4>2, <4>3
    <3>7. CASE node.active = FALSE
      <4>1. ns = None /\ \E k \in 1 .. Len(user_wake_locks) : user_wake_locks[k].name = n
        BY <3>1, <3>7 DEF Sets
      <4>2. l = <<"unlocked">>
        BY <3>7 DEF l, StateOf
      <4>3. PICK k \in 1 .. Len(user_wake_locks) : user_wake_locks[k].name = n
        BY <4>1
      <4>4. LockByName[n] = StateOf(user_wake_locks[k])
        BY <1>0, <3>2, <4>3, LockAtNode
      <4>5. StateOf(user_wake_locks[k]) # <<"absent">>
        BY DEF StateOf
      <4>6. ByName!Unlock(n)
        BY <3>4, <3>5, <4>1, <4>2, <4>4, <4>5
        DEF ByName!Unlock, ByName!Release, ByName!Absent, ByName!Unlocked
      <4> QED BY <3>2, <4>6 DEF ByName!Next
    <3> QED BY <3>2, <3>6, <3>7
  <2>2. CASE UNCHANGED userVars
    BY <1>0, <2>2 DEF userVars, ByName!names
  <2> QED BY <1>2, <2>1, <2>2
<1> QED BY <1>1, <1>2, UserInvariant, PTL DEF UserSpec, OneLockPerName, ByName!Spec
=============================================================================
