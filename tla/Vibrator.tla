------------------------------ MODULE Vibrator -------------------------------
(***************************************************************************)
(* The vibrator driver of the vendor, drivers/cci/vibrator/vibrator.c.     *)
(* Writes to /proc/vibrator/enable start the motor for some seconds or     *)
(* stop it, by a remote call to the modem; a second write while one is in  *)
(* its call is turned away.  The early-suspend hook stops the motor too    *)
(* and takes no lock.  A call may fail: the connection is refused, the     *)
(* call is lost, or its answer does not come within five seconds.          *)
(***************************************************************************)
EXTENDS Integers, FiniteSets

CONSTANTS
  Writers,    \* processes that write to the file
  Durations,  \* the numbers they write
  RpcFails    \* may remote calls fail?

Hook == "early_suspend"

VibratorAssumption ==
  Durations \subseteq Int /\ RpcFails \in BOOLEAN /\ Hook \notin Writers

Callers == Writers \cup {Hook}

VARIABLES
  vibrator_lock,   \* is the mutex taken?
  prev_time_val,
  motor,           \* does it vibrate?
  call,            \* the remote call of each caller: "none", "sent", "answered"
  timeout          \* its argument

vibVars == <<vibrator_lock, prev_time_val, motor, call, timeout>>

-----------------------------------------------------------------------------
\* Mutant of proc_vibrator_enable_write: the mutex is not looked at.
proc_vibrator_enable_write_unlocked(w, t) ==
  /\ call[w] = "none"
  /\ t >= 0 /\ ~ (prev_time_val = 0 /\ t = 0)
  /\ vibrator_lock' = TRUE
  /\ prev_time_val' = t
  /\ call' = [call EXCEPT ![w] = "sent"]
  /\ timeout' = [timeout EXCEPT ![w] = t]
  /\ UNCHANGED motor

\* A negative number, a number that repeats a stop, and a write that finds
\* the mutex taken change nothing.
proc_vibrator_enable_write(w, t) ==
  /\ call[w] = "none"
  /\ ~ vibrator_lock
  /\ t >= 0 /\ ~ (prev_time_val = 0 /\ t = 0)
  /\ vibrator_lock' = TRUE
  /\ prev_time_val' = t
  /\ call' = [call EXCEPT ![w] = "sent"]
  /\ timeout' = [timeout EXCEPT ![w] = t]
  /\ UNCHANGED motor

vibrator_early_suspend ==
  /\ call[Hook] = "none"
  /\ call' = [call EXCEPT ![Hook] = "sent"]
  /\ timeout' = [timeout EXCEPT ![Hook] = 0]
  /\ UNCHANGED <<vibrator_lock, prev_time_val, motor>>

\* The modem executes the call.
call_vibrator_rpc(c) ==
  /\ call[c] = "sent"
  /\ motor' = (timeout[c] # 0)
  /\ call' = [call EXCEPT ![c] = "answered"]
  /\ UNCHANGED <<vibrator_lock, prev_time_val, timeout>>

\* Mutant of call_vibrator_rpc_return: the mutex stays taken after a failure.
call_vibrator_rpc_return_locked(c, lost) ==
  /\ call[c] = "answered" \/ (lost /\ call[c] = "sent")
  /\ call' = [call EXCEPT ![c] = "none"]
  /\ timeout' = [timeout EXCEPT ![c] = 0]
  /\ vibrator_lock' = (vibrator_lock /\ (c = Hook \/ lost))
  /\ UNCHANGED <<prev_time_val, motor>>

\* The call returns, with an answer or without one, and the write after it.
call_vibrator_rpc_return(c, lost) ==
  /\ call[c] = "answered" \/ (lost /\ call[c] = "sent")
  /\ call' = [call EXCEPT ![c] = "none"]
  /\ timeout' = [timeout EXCEPT ![c] = 0]
  /\ vibrator_lock' = (vibrator_lock /\ c = Hook)
  /\ UNCHANGED <<prev_time_val, motor>>

\* The duration is over.
motor_stops ==
  /\ motor
  /\ motor' = FALSE
  /\ UNCHANGED <<vibrator_lock, prev_time_val, call, timeout>>

-----------------------------------------------------------------------------
VibInit ==
  /\ vibrator_lock = FALSE
  /\ prev_time_val = -1
  /\ motor = FALSE
  /\ call = [c \in Callers |-> "none"]
  /\ timeout = [c \in Callers |-> 0]

ReturnStep(c) == \E lost \in {FALSE, RpcFails} : call_vibrator_rpc_return(c, lost)

VibNext ==
  \/ \E w \in Writers, t \in Durations : proc_vibrator_enable_write(w, t)
  \/ vibrator_early_suspend
  \/ \E c \in Callers : call_vibrator_rpc(c) \/ ReturnStep(c)
  \/ motor_stops

\* The modem answers or the five seconds pass, and the caller goes on.
VibFairness ==
  \A c \in Callers : WF_vibVars(call_vibrator_rpc(c) \/ ReturnStep(c))

VibSpec == VibInit /\ [][VibNext]_vibVars /\ VibFairness

-----------------------------------------------------------------------------
(***************************************************************************)
(* A stop that follows a stop is not sent, "Prevent send 2 continuous      *)
(* stopping RPC call": that is right only if the motor rests whenever a    *)
(* stop was the last thing written, for every order of writes and hook.    *)
(***************************************************************************)
StopRemembered == ~ vibrator_lock /\ prev_time_val = 0 => ~ motor

\* Why it holds while calls do not fail: one writer is in its call, with what
\* was written last, and the stop that was written last is still to be executed
\* or was; the hook only stops.
VibInv ==
  /\ vibrator_lock \in BOOLEAN /\ motor \in BOOLEAN /\ prev_time_val \in Int
  /\ call \in [Callers -> {"none", "sent", "answered"}]
  /\ timeout \in [Callers -> Int]
  /\ timeout[Hook] = 0
  /\ \A w \in Writers : call[w] # "none" => vibrator_lock /\ timeout[w] = prev_time_val
  /\ \A v, w \in Writers : call[v] # "none" /\ call[w] # "none" => v = w
  /\ prev_time_val = 0 /\ motor => \E w \in Writers : call[w] = "sent"

(***************************************************************************)
(* The writers' mutex is given back after every call, failed or not: the   *)
(* vibrator never becomes deaf to writes.                                  *)
(***************************************************************************)
LockReturned == vibrator_lock ~> ~ vibrator_lock

=============================================================================
