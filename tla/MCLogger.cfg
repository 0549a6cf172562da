SPECIFICATION LogsSpec
CONSTANTS
  Base = 2
  Size = 8
  MaxPayload = 2
  PayloadBytes = {0, 1}
  Readers = {r1}
  Writers = {w1}
  StaleFault = FALSE
  w2 = w2  r3 = r3
  ListReaders = {r1, r2, r3}
  Walkers = {w1}
CONSTRAINT AfterRace
INVARIANTS
  LogExact WalkComplete
PROPERTIES
  FifoSpec SleepingReaderWoken RamConsoleKept
