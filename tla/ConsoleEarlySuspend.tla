------------------------ MODULE ConsoleEarlySuspend -------------------------
(***************************************************************************)
(* The early-suspend handler that switches to a console of its own,        *)
(* kernel/power/consoleearlysuspend.c, and the console switch it relies    *)
(* on, drivers/char/vt.c and vt_ioctl.c.  set_console only notes the wish  *)
(* and schedules console_callback; a console under process control is left *)
(* when its process says so (VT_RELDISP); the hooks wait for the event of  *)
(* the switch in vt_waitactive.  The console semaphore makes a step of     *)
(* each part that holds it.  vt_waitactive holds nothing between its look  *)
(* at fg_console and the moment it is on the list of waiters.              *)
(***************************************************************************)
EXTENDS Naturals, FiniteSets

CONSTANTS
  UserConsoles,            \* consoles of user space
  EARLY_SUSPEND_CONSOLE,
  NoConsole                \* -1

ConsoleAssumption ==
  /\ EARLY_SUSPEND_CONSOLE \notin UserConsoles
  /\ NoConsole \notin UserConsoles \cup {EARLY_SUSPEND_CONSOLE}

Consoles == UserConsoles \cup {EARLY_SUSPEND_CONSOLE}

VARIABLES
  fg_console, want_console,
  vt_dont_switch,
  owner,          \* vt_mode of each console: VT_AUTO is "none", VT_PROCESS is
                  \* "live" or "dead" after its process, "odd" is neither mode
  graphics,       \* the consoles with vc_mode KD_GRAPHICS
  vt_newvt,       \* where a console under process control was asked to go
  orig_fgconsole,
  hook,           \* "on", "off", or where a hook is in vt_waitactive
  target,         \* the console vt_waitactive waits for
  event,          \* newev of the waiter's event, NoConsole until it is posted
  switched,       \* did the last suspend hook return without its warning?
  disturbed,      \* has user space by itself activated a console or locked the
                  \* switch so far?  It is there to state HookHasScreen
  stale           \* has VT_SETACTIVATE replaced the mode of a console whose process
                  \* was asked to let go so far?  It is there to state the others

vtVars == <<fg_console, want_console, vt_dont_switch, owner, graphics, vt_newvt>>
hookVars == <<orig_fgconsole, hook, target, event, switched, disturbed, stale>>
consoleVars == <<vtVars, hookVars>>

-----------------------------------------------------------------------------
\* set_console refuses what console_callback could not do.
MaySetConsole ==
  /\ ~ vt_dont_switch
  /\ ~ (owner[fg_console] = "none" /\ fg_console \in graphics)

reset_vc(c) ==
  /\ owner' = [owner EXCEPT ![c] = "none"]
  /\ graphics' = graphics \ {c}
  /\ vt_newvt' = [vt_newvt EXCEPT ![c] = NoConsole]

\* vt_event_post: the hook is on the list of waiters or hears nothing.
vt_event_post(new) ==
  event' = IF hook \in {"suspend_wait", "resume_wait"} THEN new ELSE event

\* complete_change_console, but for the reset of a console whose process died
Arrive(new) ==
  /\ fg_console' = new
  /\ vt_event_post(new)

\* Mutant of change_console: the process is not asked.
change_console_unasked(new) ==
  /\ Arrive(new)
  /\ UNCHANGED <<owner, graphics, vt_newvt>>

change_console(new) ==
  LET vc == fg_console IN
  IF new = fg_console \/ vt_dont_switch
    THEN UNCHANGED <<fg_console, event, owner, graphics, vt_newvt>>
    ELSE CASE owner[vc] = "live" ->
                /\ vt_newvt' = [vt_newvt EXCEPT ![vc] = new]
                /\ UNCHANGED <<fg_console, event, owner, graphics>>
           [] owner[vc] = "dead" ->
                /\ Arrive(new)
                /\ owner' = [owner EXCEPT ![vc] = "none",
                                          ![new] = IF @ = "dead" THEN "none" ELSE @]
                /\ graphics' = graphics \ ({vc} \cup {c \in {new} : owner[c] = "dead"})
                /\ vt_newvt' = [vt_newvt EXCEPT ![vc] = NoConsole]
           [] vc \in graphics /\ owner[vc] \in {"none", "odd"} ->
                UNCHANGED <<fg_console, event, owner, graphics, vt_newvt>>
           [] OTHER ->
                /\ Arrive(new)
                /\ IF owner[new] = "dead" THEN reset_vc(new)
                   ELSE UNCHANGED <<owner, graphics, vt_newvt>>

\* The work item of keventd.
console_callback ==
  /\ want_console # NoConsole
  /\ change_console(want_console)
  /\ want_console' = NoConsole
  /\ UNCHANGED <<vt_dont_switch, orig_fgconsole, hook, target, switched, disturbed, stale>>

-----------------------------------------------------------------------------
\* Up to vt_waitactive; vc_allocate may fail for lack of memory.
console_early_suspend(fails) ==
  /\ hook = "on"
  /\ orig_fgconsole' = fg_console
  /\ target' = EARLY_SUSPEND_CONSOLE
  /\ switched' = FALSE
  /\ IF fails \/ ~ MaySetConsole
       THEN hook' = "off" /\ UNCHANGED want_console
       ELSE hook' = "suspend_check" /\ want_console' = EARLY_SUSPEND_CONSOLE
  /\ UNCHANGED <<fg_console, vt_dont_switch, owner, graphics, vt_newvt, event, disturbed, stale>>

console_late_resume ==
  /\ hook = "off"
  /\ target' = orig_fgconsole
  /\ IF ~ MaySetConsole
       THEN hook' = "on" /\ UNCHANGED want_console
       ELSE hook' = "resume_check" /\ want_console' = orig_fgconsole
  /\ UNCHANGED <<fg_console, vt_dont_switch, owner, graphics, vt_newvt,
                 orig_fgconsole, event, switched, disturbed, stale>>

\* The end of vt_waitactive.
HookDone ==
  IF hook \in {"suspend_check", "suspend_wait"}
    THEN hook' = "off" /\ switched' = TRUE
    ELSE hook' = "on" /\ switched' = FALSE

\* Mutant of vt_waitactive: it does not wait.
vt_waitactive_no_wait ==
  /\ hook \in {"suspend_check", "resume_check"}
  /\ HookDone
  /\ UNCHANGED <<vtVars, orig_fgconsole, target, event, disturbed, stale>>

vt_waitactive ==
  /\ hook \in {"suspend_check", "resume_check"}
  /\ IF fg_console = target THEN HookDone
     ELSE /\ hook' = IF hook = "suspend_check" THEN "suspend_add" ELSE "resume_add"
          /\ UNCHANGED switched
  /\ UNCHANGED <<vtVars, orig_fgconsole, target, event, disturbed, stale>>

\* vt_event_wait puts the waiter on the list.
vt_event_wait ==
  /\ hook \in {"suspend_add", "resume_add"}
  /\ hook' = IF hook = "suspend_add" THEN "suspend_wait" ELSE "resume_wait"
  /\ event' = NoConsole
  /\ UNCHANGED <<vtVars, orig_fgconsole, target, switched, disturbed, stale>>

\* The event has come: the wait ends if it was a switch to the target.
vt_event_woken ==
  /\ hook \in {"suspend_wait", "resume_wait"} /\ event # NoConsole
  /\ IF event = target THEN HookDone
     ELSE /\ hook' = IF hook = "suspend_wait" THEN "suspend_check" ELSE "resume_check"
          /\ UNCHANGED switched
  /\ UNCHANGED <<vtVars, orig_fgconsole, target, event, disturbed, stale>>

-----------------------------------------------------------------------------
\* The process of a console under process control: it lets go or refuses.
VT_RELDISP(c, lets_go) ==
  /\ owner[c] = "live" /\ vt_newvt[c] # NoConsole
  /\ IF lets_go
       THEN LET new == vt_newvt[c] IN
            /\ Arrive(new)
            /\ owner' = [owner EXCEPT ![new] = IF @ = "dead" THEN "none" ELSE @]
            /\ graphics' = graphics \ {d \in {new} : owner[d] = "dead"}
       ELSE UNCHANGED <<fg_console, event, owner, graphics>>
  /\ vt_newvt' = [vt_newvt EXCEPT ![c] = NoConsole]
  /\ UNCHANGED <<want_console, vt_dont_switch, orig_fgconsole, hook, target, switched, disturbed, stale>>

\* Mutant of VT_SETMODE: the question to the old process stays.
VT_SETMODE_pending(c, mode) ==
  /\ owner' = [owner EXCEPT ![c] = mode]
  /\ UNCHANGED <<fg_console, want_console, vt_dont_switch, graphics, vt_newvt, hookVars>>

VT_SETMODE(c, mode) ==
  /\ owner' = [owner EXCEPT ![c] = mode]
  /\ vt_newvt' = [vt_newvt EXCEPT ![c] = NoConsole]
  /\ UNCHANGED <<fg_console, want_console, vt_dont_switch, graphics, hookVars>>

\* As VT_SETMODE, but any mode will do and the question stays.  It is meant to
\* switch to c as well: set_console gets the address of the arguments for a
\* console, of which there is none, and VT_WAITACTIVE, into which it falls, the
\* same.
VT_SETACTIVATE(c, mode) ==
  /\ owner' = [owner EXCEPT ![c] = mode]
  /\ stale' = (stale \/ vt_newvt[c] # NoConsole)
  /\ UNCHANGED <<fg_console, want_console, vt_dont_switch, graphics, vt_newvt,
                 orig_fgconsole, hook, target, event, switched, disturbed>>

KDSETMODE(c) ==
  /\ graphics' = IF c \in graphics THEN graphics \ {c} ELSE graphics \cup {c}
  /\ UNCHANGED <<fg_console, want_console, vt_dont_switch, owner, vt_newvt, hookVars>>

process_dies(c) ==
  /\ owner[c] = "live"
  /\ owner' = [owner EXCEPT ![c] = "dead"]
  /\ UNCHANGED <<fg_console, want_console, vt_dont_switch, graphics, vt_newvt, hookVars>>

VT_ACTIVATE(c) ==
  /\ MaySetConsole
  /\ want_console' = c
  /\ disturbed' = TRUE
  /\ UNCHANGED <<fg_console, vt_dont_switch, owner, graphics, vt_newvt,
                 orig_fgconsole, hook, target, event, switched, stale>>

VT_LOCKSWITCH ==
  /\ vt_dont_switch' = ~ vt_dont_switch
  /\ disturbed' = TRUE
  /\ UNCHANGED <<fg_console, want_console, owner, graphics, vt_newvt,
                 orig_fgconsole, hook, target, event, switched, stale>>

-----------------------------------------------------------------------------
ConsoleInit ==
  /\ fg_console \in UserConsoles
  /\ want_console = NoConsole
  /\ vt_dont_switch = FALSE
  /\ owner = [c \in Consoles |-> "none"]
  /\ graphics = {}
  /\ vt_newvt = [c \in Consoles |-> NoConsole]
  /\ orig_fgconsole = fg_console
  /\ hook = "on"
  /\ target = EARLY_SUSPEND_CONSOLE
  /\ event = NoConsole
  /\ switched = FALSE
  /\ disturbed = FALSE
  /\ stale = FALSE

UserStep(c) ==
  \/ \E lets_go \in BOOLEAN : VT_RELDISP(c, lets_go)
  \/ \E mode \in {"none", "live"} : VT_SETMODE(c, mode)
  \/ \E mode \in {"none", "live", "odd"} : VT_SETACTIVATE(c, mode)
  \/ KDSETMODE(c) \/ process_dies(c) \/ VT_ACTIVATE(c)

ConsoleNext ==
  \/ \E fails \in BOOLEAN : console_early_suspend(fails)
  \/ console_late_resume
  \/ vt_waitactive \/ vt_event_wait \/ vt_event_woken
  \/ console_callback
  \/ \E c \in UserConsoles : UserStep(c)
  \/ VT_LOCKSWITCH

ConsoleSpec == ConsoleInit /\ [][ConsoleNext]_consoleVars

-----------------------------------------------------------------------------
(***************************************************************************)
(* A console "in process mode" is left by a handshake only: while its      *)
(* process lives, the foreground goes from it where the process was asked  *)
(* to let it go, also when the hooks, other processes and locks interfere. *)
(* Only after VT_SETACTIVATE has left a question open may it be the        *)
(* process of another console that lets go.                                *)
(***************************************************************************)
HandshakeFirst ==
  [][owner[fg_console] = "live" /\ fg_console' # fg_console
       => \E c \in Consoles : /\ owner[c] = "live" /\ vt_newvt[c] = fg_console'
                              /\ stale \/ c = fg_console]_consoleVars

(***************************************************************************)
(* A process is asked to let go of the console in the foreground only, and *)
(* an old question is never answered for a later switch.                   *)
(***************************************************************************)
AskedAtForeground ==
  \A c \in Consoles : vt_newvt[c] # NoConsole => c = fg_console

(***************************************************************************)
(* As long as user space neither switches nor locks: a suspend hook that   *)
(* returns without its warning leaves the screen with its own console      *)
(* until the resume hook, and the console it saved is one of user space.   *)
(***************************************************************************)
HookHasScreen ==
  /\ hook = "off" /\ switched => fg_console = EARLY_SUSPEND_CONSOLE
  /\ orig_fgconsole # EARLY_SUSPEND_CONSOLE

\* The screen in both: as the hooks find it, and for them when user space lets
\* them.  The first ends when VT_SETACTIVATE leaves a question open, the second
\* does not.
ScreenTaken == (~ stale => AskedAtForeground) /\ (~ disturbed => HookHasScreen)

ConsoleTypeOK ==
  /\ fg_console \in Consoles /\ want_console \in Consoles \cup {NoConsole}
  /\ vt_dont_switch \in BOOLEAN
  /\ owner \in [Consoles -> {"none", "live", "dead", "odd"}]
  /\ graphics \subseteq Consoles
  /\ vt_newvt \in [Consoles -> Consoles \cup {NoConsole}]
  /\ orig_fgconsole \in Consoles
  /\ hook \in {"on", "off", "suspend_check", "suspend_add", "suspend_wait",
               "resume_check", "resume_add", "resume_wait"}
  /\ target \in Consoles /\ event \in Consoles \cup {NoConsole}
  /\ switched \in BOOLEAN /\ disturbed \in BOOLEAN /\ stale \in BOOLEAN

\* Only a console in process mode was asked.
AskedInProcessMode == \A c \in Consoles : vt_newvt[c] # NoConsole => owner[c] \in {"live", "dead"}

ConsoleInv == ConsoleTypeOK /\ (~ stale => AskedAtForeground /\ AskedInProcessMode)

NoneAsked == \A c \in Consoles : vt_newvt[c] = NoConsole

\* Where the screen is, what is wanted and who was asked, at each step of the
\* hooks, as long as only they switch.
QuietInv ==
  LET suspending == hook \in {"suspend_check", "suspend_add", "suspend_wait"}
      resuming == hook \in {"resume_check", "resume_add", "resume_wait"}
  IN
  /\ ~ vt_dont_switch
  /\ owner[EARLY_SUSPEND_CONSOLE] = "none" /\ EARLY_SUSPEND_CONSOLE \notin graphics
  /\ orig_fgconsole \in UserConsoles
  /\ suspending => target = EARLY_SUSPEND_CONSOLE
  /\ resuming => target = orig_fgconsole
  /\ hook \in {"suspend_wait", "resume_wait"} /\ event # NoConsole => event = fg_console
  /\ AskedAtForeground /\ (~ suspending => NoneAsked)
  /\ hook = "on" =>
       fg_console \in UserConsoles /\ want_console \in {NoConsole, fg_console}
  /\ suspending =>
       \/ /\ fg_console = orig_fgconsole
          /\ <<want_console, vt_newvt[fg_console]>> \in
               {<<EARLY_SUSPEND_CONSOLE, NoConsole>>, <<NoConsole, EARLY_SUSPEND_CONSOLE>>,
                <<NoConsole, NoConsole>>}
       \/ fg_console = EARLY_SUSPEND_CONSOLE /\ want_console = NoConsole /\ NoneAsked
  /\ hook = "off" =>
       IF switched THEN fg_console = EARLY_SUSPEND_CONSOLE /\ want_console = NoConsole
       ELSE fg_console = orig_fgconsole /\ want_console \in {NoConsole, orig_fgconsole}
  /\ resuming =>
       \/ fg_console = EARLY_SUSPEND_CONSOLE /\ want_console = orig_fgconsole
       \/ fg_console = orig_fgconsole /\ want_console \in {NoConsole, orig_fgconsole}

(***************************************************************************)
(* "wait until the specified VT has been activated": nobody sleeps in      *)
(* vt_waitactive for a console that is active.                             *)
(***************************************************************************)
NoWaitForActive ==
  hook \in {"suspend_wait", "resume_wait"} /\ event = NoConsole
    => fg_console # target

(***************************************************************************)
(* "a switch back when it should resume": with the system resumed the      *)
(* screen is not on the console of the suspend hook.                       *)
(***************************************************************************)
BackAfterResume == hook = "on" => fg_console # EARLY_SUSPEND_CONSOLE

=============================================================================
