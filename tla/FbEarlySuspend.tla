--------------------------- MODULE FbEarlySuspend ----------------------------
(***************************************************************************)
(* The early-suspend handler that stops user space drawing,                *)
(* kernel/power/fbearlysuspend.c.  The handler and the readers of          *)
(* /sys/power/wait_for_fb_sleep and wait_for_fb_wake share fb_state and    *)
(* one wait queue.  fb_state_lock covers the writes of fb_state; a wait    *)
(* condition is read without it, and a sleeper that was woken looks again  *)
(* when it gets the CPU, which may be after the next request.              *)
(*                                                                         *)
(* A drawer reads the two files in turn and draws except between the       *)
(* answers "sleeping" and "awake"; a watcher reads only the first file.    *)
(* EarlySuspend.tla shows that the hooks of a handler alternate.           *)
(***************************************************************************)
EXTENDS Naturals, FiniteSets

CONSTANTS
  Drawer,     \* the process that owns the screen
  Watchers    \* processes that only wait for the screen to sleep

FbAssumption == Drawer \notin Watchers

Clients == {Drawer} \cup Watchers

VARIABLES
  fb_state,   \* "STOPPED_DRAWING", "REQUEST_STOP_DRAWING" or "DRAWING_OK"
  hook,       \* the handler: "on", "check", "asleep" (both in suspend), "off"
  warned,     \* did the last suspend hook end with its warning?
  pc          \* where each client is

fbVars == <<fb_state, hook, warned, pc>>

InSleepShow == {"sleep_check", "sleep_wait", "sleep_signal"}
InWakeShow == {"wake_check", "wake_wait", "wake_signal"}

Goto(c, where) == pc' = [pc EXCEPT ![c] = where]

-----------------------------------------------------------------------------
\* wake_up and wake_up_all: no waiter is exclusive, so all are woken.
Woken(c) ==
  CASE pc[c] = "sleep_wait" -> "sleep_check"
    [] pc[c] = "wake_wait"  -> "wake_check"
    [] OTHER                -> pc[c]

WakeClients == pc' = [c \in Clients |-> Woken(c)]

\* Mutant of stop_drawing_early_suspend: nobody is woken.
stop_drawing_early_suspend_silent ==
  /\ hook = "on"
  /\ fb_state' = "REQUEST_STOP_DRAWING"
  /\ hook' = "check"
  /\ warned' = FALSE
  /\ UNCHANGED pc

stop_drawing_early_suspend ==
  /\ hook = "on"
  /\ fb_state' = "REQUEST_STOP_DRAWING"
  /\ WakeClients
  /\ hook' = "check"
  /\ warned' = FALSE

\* wait_event_timeout looks at fb_state, and so does the test after it.
stop_drawing_wait ==
  /\ hook = "check"
  /\ hook' = IF fb_state = "STOPPED_DRAWING" THEN "off" ELSE "asleep"
  /\ UNCHANGED <<fb_state, warned, pc>>

\* Mutant of stop_drawing_timeout: the wait has no time limit.
stop_drawing_timeout_never ==
  /\ hook = "asleep" /\ fb_state = "STOPPED_DRAWING"
  /\ hook' = "off"
  /\ warned' = FALSE
  /\ UNCHANGED <<fb_state, pc>>

\* A second has passed: the wait ends, whatever fb_state is.
stop_drawing_timeout ==
  /\ hook = "asleep"
  /\ hook' = "off"
  /\ warned' = (fb_state # "STOPPED_DRAWING")
  /\ UNCHANGED <<fb_state, pc>>

\* Mutant of start_drawing_late_resume: nobody is woken.
start_drawing_late_resume_silent ==
  /\ hook = "off"
  /\ fb_state' = "DRAWING_OK"
  /\ hook' = "on"
  /\ UNCHANGED <<warned, pc>>

start_drawing_late_resume ==
  /\ hook = "off"
  /\ fb_state' = "DRAWING_OK"
  /\ WakeClients
  /\ hook' = "on"
  /\ UNCHANGED warned

-----------------------------------------------------------------------------
sleep_show(c) ==
  /\ pc[c] = "draw"
  /\ Goto(c, "sleep_check")
  /\ UNCHANGED <<fb_state, hook, warned>>

\* What a client does with the answer "sleeping".
Slept(c) == IF c = Drawer THEN "stopped" ELSE "draw"

wait_for_fb_sleep_show(c, signal) ==
  /\ pc[c] = "sleep_check"
  /\ Goto(c, IF fb_state # "DRAWING_OK" THEN Slept(c)
             ELSE IF signal THEN "sleep_signal" ELSE "sleep_wait")
  /\ UNCHANGED <<fb_state, hook, warned>>

\* After a signal fb_state is read once more.
sleep_show_return(c) ==
  /\ pc[c] = "sleep_signal"
  /\ Goto(c, IF fb_state = "DRAWING_OK" THEN "draw" ELSE Slept(c))
  /\ UNCHANGED <<fb_state, hook, warned>>

wake_show(c) ==
  /\ pc[c] = "stopped"
  /\ IF fb_state = "REQUEST_STOP_DRAWING"
       THEN /\ fb_state' = "STOPPED_DRAWING"
            /\ hook' = IF hook = "asleep" THEN "check" ELSE hook
            /\ pc' = [d \in Clients |-> IF d = c THEN "wake_check" ELSE Woken(d)]
       ELSE UNCHANGED <<fb_state, hook>> /\ Goto(c, "wake_check")
  /\ UNCHANGED warned

\* Mutant of wait_for_fb_wake_show: it waits for the end of the request.
wait_for_fb_wake_show_early(c, signal) ==
  /\ pc[c] = "wake_check"
  /\ Goto(c, IF fb_state # "REQUEST_STOP_DRAWING" THEN "draw"
             ELSE IF signal THEN "wake_signal" ELSE "wake_wait")
  /\ UNCHANGED <<fb_state, hook, warned>>

wait_for_fb_wake_show(c, signal) ==
  /\ pc[c] = "wake_check"
  /\ Goto(c, IF fb_state = "DRAWING_OK" THEN "draw"
             ELSE IF signal THEN "wake_signal" ELSE "wake_wait")
  /\ UNCHANGED <<fb_state, hook, warned>>

wake_show_return(c) ==
  /\ pc[c] = "wake_signal"
  /\ Goto(c, IF fb_state = "DRAWING_OK" THEN "draw" ELSE "stopped")
  /\ UNCHANGED <<fb_state, hook, warned>>

\* A signal wakes a sleeper.
signal_client(c) ==
  /\ pc[c] \in {"sleep_wait", "wake_wait"}
  /\ Goto(c, IF pc[c] = "sleep_wait" THEN "sleep_signal" ELSE "wake_signal")
  /\ UNCHANGED <<fb_state, hook, warned>>

-----------------------------------------------------------------------------
FbInit ==
  /\ fb_state = "DRAWING_OK"
  /\ hook = "on"
  /\ warned = FALSE
  /\ pc = [c \in Clients |-> "draw"]

ClientStep(c) ==
  \/ sleep_show(c) \/ sleep_show_return(c)
  \/ wake_show(c) \/ wake_show_return(c)
  \/ \E signal \in BOOLEAN :
       wait_for_fb_sleep_show(c, signal) \/ wait_for_fb_wake_show(c, signal)

HookStep == stop_drawing_wait \/ stop_drawing_timeout

FbNext ==
  \/ stop_drawing_early_suspend \/ start_drawing_late_resume
  \/ HookStep
  \/ \E c \in Clients : ClientStep(c) \/ signal_client(c)

\* Runnable tasks get the CPU and the timer of the wait expires.  Nothing
\* obliges the system to suspend or to resume.
FbFairness ==
  /\ WF_fbVars(HookStep)
  /\ \A c \in Clients : WF_fbVars(ClientStep(c))

FbSpec == FbInit /\ [][FbNext]_fbVars /\ FbFairness

-----------------------------------------------------------------------------
Draws == pc[Drawer] \in {"draw"} \cup InSleepShow

(***************************************************************************)
(* A suspend hook that returns without its warning has made the drawer     *)
(* stop, and nothing makes it draw again before the resume hook: the       *)
(* levels after STOP_DRAWING may switch the framebuffer off.               *)
(***************************************************************************)
QuietAfterStop == hook = "off" /\ ~ warned => ~ Draws

(***************************************************************************)
(* The suspend hook never keeps the work queue: it returns whatever user   *)
(* space does.                                                             *)
(***************************************************************************)
HookReturns == hook \in {"check", "asleep"} ~> hook = "off"

(***************************************************************************)
(* If the screen stays suspended the drawer stops, also when it was told   *)
(* late or missed a resume in between: no wake-up is lost.                 *)
(***************************************************************************)
DrawerStops == <>[](hook # "on") => <>[](~ Draws)

(***************************************************************************)
(* If the screen stays on the drawer draws, however quickly the hooks      *)
(* followed each other before.                                             *)
(***************************************************************************)
DrawerDraws == <>[](hook = "on") => <>[]Draws

(***************************************************************************)
(* "wait for it to stop": when all that user space does is to wait for the *)
(* screen to wake up it has stopped, and the hook need not wait.           *)
(***************************************************************************)
WaitsForDrawerOnly ==
  hook = "asleep" /\ pc[Drawer] = "wake_wait" => fb_state = "STOPPED_DRAWING"

=============================================================================
