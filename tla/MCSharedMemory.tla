---------------------------- MODULE MCSharedMemory ----------------------------
(***************************************************************************)
(* What the application processor and the modem do with the memory they    *)
(* share, on small instances: the spinlock over both processors, the ring  *)
(* of a channel with its packets, and the call of the modem through four   *)
(* words.  They share no state, so that a behaviour is one of one of them, *)
(* with the others at rest in their initial states.                        *)
(***************************************************************************)
EXTENDS RemoteSpinlock, SmdFifo, ProcComm

CONSTANTS a1, a2, m1, m2

VARIABLE part      \* the component that is looked at

\* Two threads on each processor.  Both sides spin; a2 only tries; m2 is a
\* remote mutex.
MCCpuOf == [t \in Threads |-> IF t \in {a1, a2} THEN "apps" ELSE "modem"]

MCAllWays == [t \in Threads |->
  CASE t = a2 -> "try" [] t = m2 -> "mutex" [] OTHER -> "spin"]

Spin == INSTANCE RemoteSpinlock WITH Way <- [t \in Threads |-> "spin"]

\* The cfg gives the channel headers and packets of a few cells in a ring in
\* which both get split by its end and the writer has to wait for room.  In a
\* second instance the other side may close.
ClosingFifo == INSTANCE SmdFifo WITH Lens <- {5}, MaxPackets <- 3, Closes <- TRUE

\* In the cfg two callers and one that resets the modem; here three callers, and a
\* modem that goes on or that may crash at any moment.
Pcomm == INSTANCE ProcComm
           WITH Callers <- {a1, a2, m1}, Resetters <- {}, Crashes <- FALSE

CrashPcomm == INSTANCE ProcComm
                WITH Callers <- {a1, a2, m1}, Resetters <- {}, Crashes <- TRUE

ASSUME SharedAssumption ==
  /\ SmdFifoAssumption /\ ClosingFifo!SmdFifoAssumption
  /\ ProcCommAssumption /\ Pcomm!ProcCommAssumption /\ CrashPcomm!ProcCommAssumption

-----------------------------------------------------------------------------
vars == <<part, remoteVars, smdVars, pcommVars>>

SharedInit ==
  /\ part \in {"remote", "spin", "fifo", "closing fifo", "pcomm", "crash pcomm", "reset pcomm"}
  /\ RemoteInit /\ FifoInit
  /\ IF part = "reset pcomm" THEN PcommInit ELSE Pcomm!PcommInit

SharedNext ==
  \/ part = "remote" /\ RemoteNext /\ UNCHANGED <<part, smdVars, pcommVars>>
  \/ part = "spin" /\ Spin!RemoteNext /\ UNCHANGED <<part, smdVars, pcommVars>>
  \/ part = "fifo" /\ FifoNext /\ UNCHANGED <<part, remoteVars, pcommVars>>
  \/ part = "closing fifo" /\ ClosingFifo!FifoNext /\ UNCHANGED <<part, remoteVars, pcommVars>>
  \/ part = "pcomm" /\ Pcomm!PcommNext /\ UNCHANGED <<part, remoteVars, smdVars>>
  \/ part = "crash pcomm" /\ CrashPcomm!PcommNext /\ UNCHANGED <<part, remoteVars, smdVars>>
  \/ part = "reset pcomm" /\ PcommNext /\ UNCHANGED <<part, remoteVars, smdVars>>

SharedSpec ==
  /\ SharedInit /\ [][SharedNext]_vars
  /\ \/ part \in {"remote", "closing fifo", "crash pcomm", "reset pcomm"}
     \/ part = "spin" /\ Spin!RemoteFairness
     \/ part = "fifo" /\ FifoFairness
     \/ part = "pcomm" /\ Pcomm!PcommFairness

-----------------------------------------------------------------------------
\* RemoteInv, with mutual exclusion in it, is that of RemoteSpinlock, ChannelExact
\* that of SmdFifo and AnswerIsOwn that of ProcComm.

\* When both processors spin for the lock one of them gets it; threads that only
\* try it or sleep for it may fail for ever (RemoteSpinlock).
SomebodyGetsIn == part = "spin" => Spin!SomebodyLocks

\* What one side waits for from the other comes: everything written to a channel is
\* read, and a writer that waits for room gets on, since no interrupt is missed
\* (SmdFifo); every msm_proc_comm returns while the modem neither crashes nor is reset
\* (ProcComm).
ModemServed ==
  /\ part = "fifo" => AllRead /\ WriterProceeds
  /\ part = "pcomm" => Pcomm!CallComesBack

=============================================================================
