SPECIFICATION LogSafety
CONSTANTS
  Base = 2
  Size = 8
  MaxPayload = 2
  PayloadBytes = {0, 1}
  Readers = {r1}
  Writers = {w1, w2}
  StaleFault = TRUE
INVARIANT AtEntries
