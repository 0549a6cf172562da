SPECIFICATION SysSpec
CONSTANTS
  MainLock = main
  UnknownLock = unknown
  KernelLocks = {k1}
  UserLocks = {u1}
  IdleLocks = {}
  Timeouts = {1}
  UnknownTimeout = 1
  OtherWorks = {"early_suspend", "late_resume"}
  DestroyActive = FALSE
  Handlers = {h1}
  Level <- MCLevel
  NoSuspend = {}
  NoResume = {}
INVARIANTS SleepAsRequested SleepsOnlyOverLateLocks
PROPERTIES ESSafety WakeupRequestServed
