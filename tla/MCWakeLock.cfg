SPECIFICATION WLSpec
CONSTANTS
  MainLock = main
  UnknownLock = unknown
  KernelLocks = {k1}
  UserLocks = {u1}
  IdleLocks = {i1}
  Timeouts = {0, 2}
  UnknownTimeout = 1
  OtherWorks = {"early_suspend"}
  DestroyActive = FALSE
INVARIANTS UntimedFirst TimerCoversTimedLocks SuspendNotForgotten
PROPERTY
  SuspendRetried
