----------------------------- MODULE MCDriversLive ----------------------------
(***************************************************************************)
(* Drivers that wait for user space, for the modem or for the clock, on    *)
(* small instances, for liveness: the early-suspend handler of the         *)
(* framebuffer, the vibrator, the low memory killer, the alarm device and  *)
(* the alarms under it.  They share no state here, so that a behaviour is  *)
(* one of one of them, with the others at rest in their initial states.    *)
(***************************************************************************)
EXTENDS Integers, Sequences

CONSTANTS d, w, w1, w2, w3, t1, t2

VARIABLES
  part,      \* the component that is looked at
  fb_state, hook, warned, fb_pc,
  vibrator_lock, prev_time_val, motor, call, timeout,
  free, file, oom_adj, rss, status, lowmem_adj, lowmem_minfree,
  alarm_opened, alarm_pending, alarm_enabled, wait_pending, queued,
  alarm_wake_lock, pc, releasing, i,
  wall, mono, rtc, elapsed, delta, stopped, queue, timer, suspended, rtc_lock, pm,
  setting, IS_SYNC_NETWORK, rtc_alarm, rtc_suspend_time, ALARM_PWR_STATUS

\* A process that draws and one that waits for the screen to sleep.
Fb == INSTANCE FbEarlySuspend WITH Drawer <- d, Watchers <- {w}, pc <- fb_pc

\* Three writers and the hook, and a modem that may not answer.
Vibrator == INSTANCE Vibrator
              WITH Writers <- {w1, w2, w3}, Durations <- -1 .. 3, RpcFails <- TRUE

\* Two processes with two values of oom_adj, arrays of unequal length.
Low == INSTANCE LowMemoryKiller
         WITH Tasks <- <<"a", "b">>, OomAdj <- {0, 8}, MaxRss <- 2, MaxPages <- 3,
              AdjArrays <- {<<0, 8>>, <<8>>}, MinfreeArrays <- {<<1, 3>>, <<2>>}

\* Two threads that wait for the same alarms.
Dev == INSTANCE AlarmDev WITH Threads <- {t1, t2}, TypeCount <- 2

\* One alarm on the wall clock, which sleep and settings may keep waiting ...
Alarm == INSTANCE Alarm
           WITH Alarms <- {"a"}, Type <- [a |-> "RTC_WAKEUP"], Times <- {1, 2},
                MaxElapsed <- 1, MaxDelta <- 2, SetFails <- FALSE, AutoTime <- FALSE,
                TodInSuspend <- FALSE, SlowSuspend <- FALSE, JumpLimit <- 100

\* ... and one with all that can go wrong in setting the clock and in a slow suspend.
Wall == INSTANCE Alarm
          WITH Alarms <- {"a"}, Type <- [a |-> "RTC_WAKEUP"], Times <- {1, 2},
               MaxElapsed <- 1, MaxDelta <- 2, SetFails <- TRUE, AutoTime <- TRUE,
               TodInSuspend <- TRUE, SlowSuspend <- TRUE, JumpLimit <- 0

ASSUME DriversAssumption ==
  /\ Fb!FbAssumption /\ Vibrator!VibratorAssumption /\ Low!LowMemAssumption
  /\ Dev!AlarmDevAssumption /\ Alarm!AlarmAssumption /\ Wall!AlarmAssumption

-----------------------------------------------------------------------------
fb == <<fb_state, hook, warned, fb_pc>>
vibrator == <<vibrator_lock, prev_time_val, motor, call, timeout>>
low == <<free, file, oom_adj, rss, status, lowmem_adj, lowmem_minfree>>
dev == <<alarm_opened, alarm_pending, alarm_enabled, wait_pending, queued,
         alarm_wake_lock, pc, releasing, i>>
alarm == <<wall, mono, rtc, elapsed, delta, stopped, queue, timer, suspended, rtc_lock, pm,
           setting, IS_SYNC_NETWORK, rtc_alarm, rtc_suspend_time, ALARM_PWR_STATUS>>
vars == <<part, fb, vibrator, low, dev, alarm>>

\* Where a component at rest has several initial states, one is enough.
LiveInit ==
  /\ part \in {"fb", "vibrator", "low", "dev", "alarm", "wall"}
  /\ Fb!FbInit /\ Vibrator!VibInit /\ Low!LowInit /\ Dev!DevInit
  /\ IF part = "wall" THEN Wall!AlarmInit ELSE Alarm!AlarmInit
  /\ \/ part = "low"
     \/ /\ \A p \in Low!Procs : oom_adj[p] = 0
        /\ lowmem_adj = <<8>> /\ lowmem_minfree = <<2>>
  /\ part \in {"alarm", "wall"} \/ wall = 1

LiveNext ==
  \/ part = "fb" /\ Fb!FbNext /\ UNCHANGED <<part, vibrator, low, dev, alarm>>
  \/ part = "vibrator" /\ Vibrator!VibNext /\ UNCHANGED <<part, fb, low, dev, alarm>>
  \/ part = "low" /\ Low!LowNext /\ UNCHANGED <<part, fb, vibrator, dev, alarm>>
  \/ part = "dev" /\ Dev!DevNext /\ UNCHANGED <<part, fb, vibrator, low, alarm>>
  \/ part = "alarm" /\ Alarm!AlarmNext /\ UNCHANGED <<part, fb, vibrator, low, dev>>
  \/ part = "wall" /\ Wall!AlarmNext /\ UNCHANGED <<part, fb, vibrator, low, dev>>

LiveSpec ==
  /\ LiveInit /\ [][LiveNext]_vars
  /\ \/ part = "fb" /\ Fb!FbFairness
     \/ part = "vibrator" /\ Vibrator!VibFairness
     \/ part = "low" /\ Low!LowFairness
     \/ part = "dev" /\ Dev!DevFairness
     \/ part = "alarm" /\ Alarm!AlarmFairness
     \/ part = "wall"

-----------------------------------------------------------------------------
\* stop_drawing_early_suspend returns whether or not user space answers, and if it
\* does so without a warning nobody draws until the resume hook; if the screen
\* stays suspended the drawer stops, if it stays on the drawer draws, however
\* quickly the hooks followed each other (FbEarlySuspend).
DrawerFollows ==
  Fb!HookReturns /\ []Fb!QuietAfterStop /\ Fb!DrawerStops /\ Fb!DrawerDraws

\* vibrator_lock is given back also when the call to the modem fails or times out
\* (Vibrator).
LockReturned == Vibrator!LockReturned

\* Memory that the shrinker finds low does not stay so while there is something
\* to kill, with slow deaths (LowMemoryKiller).
LowMemoryEnds == Low!LowMemoryEnds

\* A wakeup alarm that is due is called, cancelled or moved, through suspends and
\* settings of the clock, whose timers stay armed for their first alarms also when
\* a setting fails and when the network or the modem sets the clock (Alarm); and
\* what is pending at the device does not stay pending while a thread waits for it
\* (AlarmDev).
AlarmsDelivered ==
  /\ part = "wall" \/ Alarm!DueAlarmsCalled
  /\ []Alarm!WallTimersArmed
  /\ Dev!WaiterWoken

=============================================================================
