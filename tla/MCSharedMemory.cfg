SPECIFICATION SharedSpec
CONSTANTS
  a1 = a1  a2 = a2  m1 = m1  m2 = m2
  Threads = {a1, a2, m1, m2}
  NoThread = NoThread
  CpuOf <- MCCpuOf
  Way <- MCAllWays
  FifoSize = 8
  HeaderSize = 2
  Lens = {2, 5}
  MaxPackets = 2
  Closes = FALSE
  Callers = {a1, a2}
  Resetters = {m1}
  Crashes = FALSE
CHECK_DEADLOCK FALSE
INVARIANTS
  RemoteInv ChannelExact AnswerIsOwn
PROPERTIES
  SomebodyGetsIn ModemServed
