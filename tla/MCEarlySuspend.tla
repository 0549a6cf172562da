--------------------------- MODULE MCEarlySuspend ---------------------------
(* Handlers on two levels: BLANK_SCREEN (50) and STOP_DRAWING (100). *)
EXTENDS EarlySuspend

CONSTANTS h1, h2

MCLevel == [h \in Handlers |-> IF h = h1 THEN 50 ELSE 100]
=============================================================================
