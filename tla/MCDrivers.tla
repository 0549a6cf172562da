------------------------------- MODULE MCDrivers ------------------------------
(***************************************************************************)
(* Drivers whose callbacks race with user space, on small instances, for   *)
(* safety: the early-suspend handlers of the console and of the vibrator,  *)
(* the shrinker of the low memory killer, the alarm device and the alarms  *)
(* under it.  They share no state here, so that a behaviour is one of one  *)
(* of them, with the others at rest in their initial states.               *)
(***************************************************************************)
EXTENDS ConsoleEarlySuspend, Vibrator, LowMemoryKiller, AlarmDev, Alarm

CONSTANTS c1, c2

VARIABLE part  \* the component that is looked at

\* The cfg gives the console handler two consoles of user space, the vibrator
\* three writers beside the hook and a modem that answers, and the alarm device
\* one thread that waits and alarms enough for one to be cancelled, one to be
\* next and one to go off meanwhile.
MCDurations == -1 .. 3

\* Three processes with two values of oom_adj, arrays of unequal length.
MCTasks == <<"a", "b", "c">>
MCAdjArrays == {<<0, 8>>, <<8>>}
MCMinfreeArrays == {<<1, 3>>, <<2>>}

\* Two alarms in one queue of the elapsed realtime clock ...
MCType == [a |-> ELAPSED_REALTIME_WAKEUP, b |-> ELAPSED_REALTIME_WAKEUP]

\* ... and one on each clock, for which the RTC has to stand in.
Both == INSTANCE Alarm
          WITH Type <- [a |-> ELAPSED_REALTIME_WAKEUP, b |-> RTC_WAKEUP], MaxElapsed <- 1

ASSUME DriversAssumption ==
  /\ ConsoleAssumption /\ VibratorAssumption /\ LowMemAssumption /\ AlarmDevAssumption
  /\ AlarmAssumption /\ Undisturbed
  /\ Both!AlarmAssumption /\ Both!Undisturbed

-----------------------------------------------------------------------------
vars == <<part, consoleVars, vibVars, lowVars, devVars, alarmVars>>

\* Where a component at rest has several initial states, one is enough.
DriversInit ==
  /\ part \in {"console", "vibrator", "low", "dev", "elapsed", "both"}
  /\ ConsoleInit /\ VibInit /\ LowInit /\ DevInit /\ AlarmInit
  /\ part = "console" \/ fg_console = c1
  /\ \/ part = "low"
     \/ /\ \A p \in Procs : oom_adj[p] = 0
        /\ lowmem_adj = <<8>> /\ lowmem_minfree = <<2>>
  /\ part \in {"elapsed", "both"} \/ wall = 1

DriversNext ==
  \/ part = "console" /\ ConsoleNext /\ UNCHANGED <<part, vibVars, lowVars, devVars, alarmVars>>
  \/ part = "vibrator" /\ VibNext /\ UNCHANGED <<part, consoleVars, lowVars, devVars, alarmVars>>
  \/ part = "low" /\ LowNext /\ UNCHANGED <<part, consoleVars, vibVars, devVars, alarmVars>>
  \/ part = "dev" /\ DevNext /\ UNCHANGED <<part, consoleVars, vibVars, lowVars, alarmVars>>
  \/ part = "elapsed" /\ AlarmNext /\ UNCHANGED <<part, consoleVars, vibVars, lowVars, devVars>>
  \/ part = "both" /\ Both!AlarmNext /\ UNCHANGED <<part, consoleVars, vibVars, lowVars, devVars>>

DriversSpec == DriversInit /\ [][DriversNext]_vars

-----------------------------------------------------------------------------
\* ScreenTaken and HandshakeFirst are those of ConsoleEarlySuspend, StopRemembered
\* that of Vibrator, DeviceKeepsAwake that of AlarmDev, AlarmsKept that of Alarm,
\* KillsTheBest that of LowMemoryKiller.

=============================================================================
