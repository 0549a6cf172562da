-------------------------- MODULE MCSystemSuspend ---------------------------
(* One handler, one driver lock and one user lock: every phase of pm_suspend
   with every interleaving of requests, locks and timers. *)
EXTENDS SystemSuspend

MCLevel == [h \in Handlers |-> 50]
=============================================================================
