------------------------------- MODULE ProcComm ------------------------------
(***************************************************************************)
(* The mailbox between the application processor and the modem,            *)
(* arch/arm/mach-msm/proc_comm.c: four words in shared memory and an       *)
(* interrupt.  Each store to the words is a step, for the modem runs       *)
(* beside it.  msm_proc_comm waits for the answer under its lock;          *)
(* msm_proc_comm_reset_modem_now leaves its command in the words, unlocks  *)
(* and raises the interrupt afterwards.  The modem is external: it answers *)
(* the command it finds when the interrupt comes, becomes ready some time  *)
(* after it starts, resets itself when told to, and may crash.             *)
(***************************************************************************)
EXTENDS Naturals

CONSTANTS
  Callers,    \* callers of msm_proc_comm; each has its own command and data
  Resetters,  \* callers of msm_proc_comm_reset_modem_now, in reset_modem.c
  Crashes     \* may the modem crash?

ProcCommAssumption == Crashes \in BOOLEAN /\ Callers \cap Resetters = {}

Clients == Callers \cup Resetters

PCOM_CMD_IDLE == <<"idle">>
PCOM_CMD_DONE == <<"done">>
Cmd(t) == <<"cmd", t>>
Data(t) == <<"data", t>>
Answer(cmd, data) == <<"answer", cmd, data>>
NoData == <<>>

VARIABLES
  APP_COMMAND, APP_DATA, MDM_READY,  \* the words; APP_STATUS goes with APP_DATA
  proc_comm_lock,   \* is it taken?  Interrupts are off then
  irq,              \* the interrupt of the modem
  call,             \* where each client is
  result,           \* of each caller
  mpc, mcmd,        \* the modem: its step, the command it has read
  SMSM_RESET,       \* the bit the modem sets when it has crashed
  reset_called,     \* has anybody called msm_proc_comm_reset_modem_now so far?
  overtaken         \* the clients that took the lock before the modem was done
                    \* with a reset.  Both are there to state AnswerIsOwn

words == <<APP_COMMAND, APP_DATA, MDM_READY>>
modem == <<mpc, mcmd, SMSM_RESET>>
history == <<reset_called, overtaken>>
pcommVars == <<words, proc_comm_lock, irq, call, result, modem, history>>

\* A reset is on its way to the modem, or the modem is at something.
Outstanding == irq \/ mpc # "idle" \/ \E r \in Resetters : call[r] = "late"

Overtakes(t) == overtaken' = IF Outstanding THEN overtaken \cup {t} ELSE overtaken

CallGoto(t, from, to) == call[t] = from /\ call' = [call EXCEPT ![t] = to]

-----------------------------------------------------------------------------
\* Mutant of spin_lock_irqsave: the section is not locked.
spin_lock_irqsave_none(t) ==
  /\ CallGoto(t, "idle", "ready")
  /\ Overtakes(t)
  /\ reset_called' = (reset_called \/ t \in Resetters)
  /\ UNCHANGED <<words, proc_comm_lock, irq, result, modem>>

spin_lock_irqsave(t) ==
  /\ ~ proc_comm_lock
  /\ proc_comm_lock' = TRUE
  /\ CallGoto(t, "idle", "ready")
  /\ Overtakes(t)
  /\ reset_called' = (reset_called \/ t \in Resetters)
  /\ UNCHANGED <<words, irq, result, modem>>

\* proc_comm_wait_for finds the modem crashed: handle_modem_crash does not
\* come back, it loops with interrupts off.
handle_modem_crash(t) ==
  /\ \/ call[t] = "ready" /\ ~ MDM_READY
     \/ call[t] = "wait" /\ APP_COMMAND # PCOM_CMD_DONE
  /\ SMSM_RESET
  /\ call' = [call EXCEPT ![t] = "dead"]
  /\ UNCHANGED <<words, proc_comm_lock, irq, result, modem, history>>

\* The first wait, then the command.
write_command(t) ==
  /\ MDM_READY
  /\ CallGoto(t, "ready", "data")
  /\ APP_COMMAND' = Cmd(t)
  /\ UNCHANGED <<APP_DATA, MDM_READY, proc_comm_lock, irq, result, modem, history>>

write_data(t) ==
  /\ CallGoto(t, "data", "notify")
  /\ APP_DATA' = Data(t)
  /\ UNCHANGED <<APP_COMMAND, MDM_READY, proc_comm_lock, irq, result, modem, history>>

notify_other_proc_comm(t) ==
  /\ CallGoto(t, "notify", "wait")
  /\ irq' = TRUE
  /\ UNCHANGED <<words, proc_comm_lock, result, modem, history>>

\* Mutant of wait_done: the answer is taken before the command is done.
wait_done_early(t) ==
  /\ APP_COMMAND \in {PCOM_CMD_DONE, Cmd(t)}
  /\ CallGoto(t, "wait", "leave")
  /\ result' = [result EXCEPT ![t] = APP_DATA]
  /\ UNCHANGED <<words, proc_comm_lock, irq, modem, history>>

wait_done(t) ==
  /\ APP_COMMAND = PCOM_CMD_DONE
  /\ CallGoto(t, "wait", "leave")
  /\ result' = [result EXCEPT ![t] = APP_DATA]
  /\ UNCHANGED <<words, proc_comm_lock, irq, modem, history>>

spin_unlock_irqrestore(t) ==
  /\ CallGoto(t, "leave", "returned")
  /\ APP_COMMAND' = PCOM_CMD_IDLE
  /\ proc_comm_lock' = FALSE
  /\ UNCHANGED <<APP_DATA, MDM_READY, irq, result, modem, history>>

caller_goes(t) ==
  /\ CallGoto(t, "returned", "idle")
  /\ result' = [result EXCEPT ![t] = NoData]
  /\ overtaken' = overtaken \ {t}
  /\ UNCHANGED <<words, proc_comm_lock, irq, modem, reset_called>>

-----------------------------------------------------------------------------
\* msm_proc_comm_reset_modem_now, whose lock, wait for the modem and words are as
\* above: the lock is given back with the command in the words ...
reset_unlock(r) ==
  /\ CallGoto(r, "notify", "late")
  /\ proc_comm_lock' = FALSE
  /\ UNCHANGED <<words, irq, result, modem, history>>

\* ... and the interrupt comes after.
reset_notify(r) ==
  /\ CallGoto(r, "late", "idle")
  /\ irq' = TRUE
  /\ overtaken' = overtaken \ {r}
  /\ UNCHANGED <<words, proc_comm_lock, result, modem, reset_called>>

-----------------------------------------------------------------------------
\* The modem.
modem_ready ==
  /\ ~ MDM_READY /\ ~ SMSM_RESET
  /\ MDM_READY' = TRUE
  /\ UNCHANGED <<APP_COMMAND, APP_DATA, proc_comm_lock, irq, call, result, modem, history>>

modem_interrupt ==
  /\ irq /\ mpc = "idle" /\ ~ SMSM_RESET
  /\ irq' = FALSE
  /\ mcmd' = APP_COMMAND
  /\ mpc' = IF APP_COMMAND \in {PCOM_CMD_IDLE, PCOM_CMD_DONE}
            THEN "idle" ELSE "answer"
  /\ UNCHANGED <<words, proc_comm_lock, call, result, SMSM_RESET, history>>

modem_answer ==
  /\ mpc = "answer" /\ ~ SMSM_RESET
  /\ APP_DATA' = Answer(mcmd, APP_DATA)
  /\ mpc' = "done"
  /\ UNCHANGED <<APP_COMMAND, MDM_READY, proc_comm_lock, irq, call, result, mcmd, SMSM_RESET, history>>

modem_done ==
  /\ mpc = "done" /\ ~ SMSM_RESET
  /\ APP_COMMAND' = PCOM_CMD_DONE
  /\ mpc' = "idle"
  /\ UNCHANGED <<APP_DATA, MDM_READY, proc_comm_lock, irq, call, result, mcmd, SMSM_RESET, history>>

\* It does what it is told without an answer: it goes down and comes up again,
\* with or without the bit of a crash.
modem_resets ==
  /\ mpc = "answer" /\ ~ SMSM_RESET
  /\ \E r \in Resetters : mcmd = Cmd(r)
  /\ SMSM_RESET' \in BOOLEAN
  /\ MDM_READY' = FALSE /\ mpc' = "idle" /\ irq' = FALSE
  /\ UNCHANGED <<APP_COMMAND, APP_DATA, proc_comm_lock, call, result, mcmd, history>>

\* After a crash the modem sets the bit, restarts and clears it again.
modem_crashes ==
  /\ Crashes /\ ~ SMSM_RESET
  /\ SMSM_RESET' = TRUE
  /\ MDM_READY' = FALSE /\ mpc' = "idle" /\ irq' = FALSE
  /\ UNCHANGED <<APP_COMMAND, APP_DATA, proc_comm_lock, call, result, mcmd, history>>

modem_restarts ==
  /\ SMSM_RESET
  /\ SMSM_RESET' = FALSE
  /\ UNCHANGED <<words, proc_comm_lock, irq, call, result, mpc, mcmd, history>>

PcommInit ==
  /\ APP_COMMAND = PCOM_CMD_IDLE /\ APP_DATA = NoData /\ MDM_READY = FALSE
  /\ proc_comm_lock = FALSE /\ irq = FALSE
  /\ call = [t \in Clients |-> "idle"] /\ result = [t \in Callers |-> NoData]
  /\ mpc = "idle" /\ mcmd = PCOM_CMD_IDLE /\ SMSM_RESET = FALSE
  /\ reset_called = FALSE /\ overtaken = {}

Resetting(r) ==
  \/ handle_modem_crash(r) \/ write_command(r) \/ write_data(r)
  \/ reset_unlock(r) \/ reset_notify(r)

Calling(t) ==
  \/ handle_modem_crash(t) \/ write_command(t) \/ write_data(t)
  \/ notify_other_proc_comm(t) \/ wait_done(t) \/ spin_unlock_irqrestore(t)

Modem ==
  \/ modem_ready \/ modem_interrupt \/ modem_answer \/ modem_done \/ modem_resets
  \/ modem_restarts

PcommNext ==
  \/ \E t \in Callers : spin_lock_irqsave(t) \/ Calling(t) \/ caller_goes(t)
  \/ \E r \in Resetters : spin_lock_irqsave(r) \/ Resetting(r)
  \/ Modem \/ modem_crashes

\* A client in its section runs on with interrupts off; the modem runs beside.
PcommFairness ==
  /\ \A t \in Callers : WF_pcommVars(Calling(t))
  /\ \A r \in Resetters : WF_pcommVars(Resetting(r))
  /\ WF_pcommVars(Modem)

PcommSpec == PcommInit /\ [][PcommNext]_pcommVars /\ PcommFairness

-----------------------------------------------------------------------------
(***************************************************************************)
(* Properties.                                                             *)
(***************************************************************************)

\* A caller gets the modem's answer to its own command with its own data,
\* though all callers share the words, the command is stored before its data,
\* and a crash of the modem may leave the words in any state.  Only a caller that
\* took the lock before the modem was done with a reset may get another answer,
\* and there is none as long as nobody calls msm_proc_comm_reset_modem_now.
AnswerIsOwn ==
  /\ \A t \in Callers \ overtaken :
       call[t] \in {"leave", "returned"} => result[t] = Answer(Cmd(t), Data(t))
  /\ ~ reset_called => overtaken = {}

PcommTypeOK ==
  /\ proc_comm_lock \in BOOLEAN /\ irq \in BOOLEAN /\ reset_called \in BOOLEAN
  /\ call \in [Clients -> {"idle", "ready", "data", "notify", "wait", "leave", "returned",
                           "late", "dead"}]
  /\ result = [t \in Callers |-> result[t]]
  /\ mpc \in {"idle", "answer", "done"}
  /\ overtaken \subseteq Clients

Inside(t) == call[t] \in {"ready", "data", "notify", "wait", "leave", "dead"}

\* The lock lets one client in, and a client the crash killed keeps it.
OneInside ==
  \A t \in Clients : Inside(t) => proc_comm_lock /\ \A u \in Clients : Inside(u) => t = u

\* Without a reset the modem has nothing to do but for a caller that waits.
ModemBusy ==
  ~ reset_called =>
    /\ \A r \in Resetters : call[r] = "idle"
    /\ irq \/ mpc # "idle" => \E t \in Callers : call[t] \in {"wait", "dead"}

\* What the words hold while a caller writes them and waits: its command and
\* data until the modem has answered, its answer from then on; or its command
\* and anything, if a crash has lost the interrupt.
WordsAreOwn(t) ==
  /\ Inside(t) => \A r \in Resetters : call[r] # "late"
  /\ call[t] \in {"ready", "data", "notify", "leave"} => ~ irq /\ mpc = "idle"
  /\ call[t] \in {"data", "notify"} => APP_COMMAND = Cmd(t)
  /\ call[t] = "notify" => APP_DATA = Data(t)
  /\ call[t] = "wait" =>
       /\ APP_COMMAND \in {Cmd(t), PCOM_CMD_DONE}
       /\ irq => mpc = "idle" /\ APP_COMMAND = Cmd(t) /\ APP_DATA = Data(t)
       /\ mpc # "idle" => mcmd = Cmd(t) /\ APP_COMMAND = Cmd(t)
       /\ mpc = "answer" => APP_DATA = Data(t)
       /\ mpc = "done" \/ APP_COMMAND = PCOM_CMD_DONE => APP_DATA = Answer(Cmd(t), Data(t))

PcommInv ==
  /\ PcommTypeOK /\ OneInside /\ ModemBusy /\ AnswerIsOwn
  /\ \A t \in Callers \ overtaken : WordsAreOwn(t)

\* Every call comes back.  In particular, as proc_comm.c says of
\* proc_comm_wait_for, it does not wait forever when the modem crashes, but
\* is restarted from the beginning.
CallComesBack == \A t \in Callers : call[t] = "ready" ~> call[t] \in {"returned", "idle"}
=============================================================================
