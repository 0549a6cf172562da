SPECIFICATION ESSpec
CONSTANTS
  MainLock = main
  UnknownLock = unknown
  KernelLocks = {}
  UserLocks = {u1}
  IdleLocks = {i1}
  Timeouts = {}
  UnknownTimeout = 1
  OtherWorks = {"early_suspend", "late_resume"}
  DestroyActive = FALSE
  h2 = h2
  h1 = h1
  Handlers = {h1, h2}
  Level <- MCLevel
  NoSuspend = {}
  NoResume = {}
INVARIANTS MainLockReleasedLast HandlersFollowState LevelOrder
PROPERTIES HooksAlternate WLSpec SleepRequestServed
