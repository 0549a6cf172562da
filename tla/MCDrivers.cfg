SPECIFICATION DriversSpec
CONSTANTS
  c1 = c1  c2 = c2
  UserConsoles = {c1, c2}
  EARLY_SUSPEND_CONSOLE = s
  NoConsole = none
  Writers = {w1, w2, w3}
  Durations <- MCDurations
  RpcFails = FALSE
  Tasks <- MCTasks
  OomAdj = {0, 8}
  AdjArrays <- MCAdjArrays
  MinfreeArrays <- MCMinfreeArrays
  MaxRss = 2
  MaxPages = 3
  Threads = {t1}
  TypeCount = 3
  Alarms = {"a", "b"}
  Type <- MCType
  Times = {1, 3}
  MaxElapsed = 2
  MaxDelta = 3
  SetFails = FALSE
  AutoTime = FALSE
  TodInSuspend = FALSE
  SlowSuspend = FALSE
  JumpLimit = 100
INVARIANTS
  ScreenTaken StopRemembered DeviceKeepsAwake AlarmsKept
PROPERTIES
  HandshakeFirst KillsTheBest
