------------------------------- MODULE MCLogger -------------------------------
(***************************************************************************)
(* The places that keep what the system writes about itself, on small      *)
(* instances: the log device, the list of its readers pointer by pointer,  *)
(* and the RAM console.  They share no state, so that a behaviour is one   *)
(* of one of them, with the others at rest in their initial states.        *)
(***************************************************************************)
EXTENDS Logger, LoggerReaders

CONSTANTS w2, r3

VARIABLES
  part,      \* the component that is looked at
  wr2, orig2,
  data, start, size, pc, s, copied, wrapping, printed, boot, old_log

\* The cfg gives the log device one writer and entries of three and four
\* cells in a buffer of eight: an entry may end at, before or behind any
\* offset, its length may be split by the end of the buffer, and the ring
\* wraps after two entries.  A second instance has two writers and one sort
\* of payload.
Two == INSTANCE Logger
         WITH Writers <- Writers \cup {w2}, PayloadBytes <- {1}, wr <- wr2, orig <- orig2

\* The list has three readers in the cfg, so that one that is closed may have
\* neighbours on both sides, and a walker that may be preempted between any two
\* of them.  A list that a race has damaged is followed only with r3 closed.
AfterRace == raced => file[r3] = "closed"

\* A buffer of a few bytes, so that writes are shorter than it, as long and
\* longer, and several laps are made; and writes that an oops interrupts.
Ram == INSTANCE RamConsole
         WITH BufferSize <- 4, MaxBytes <- 12, MaxCount <- 5, Oops <- FALSE

RamOops == INSTANCE RamConsole
             WITH BufferSize <- 4, MaxBytes <- 8, MaxCount <- 5, Oops <- TRUE

ASSUME LogsAssumption ==
  ReadersAssumption /\ Ram!RamConsoleAssumption /\ RamOops!RamConsoleAssumption

-----------------------------------------------------------------------------
log == <<buffer, w_off, head, opened, r_off, rd, asleep>>
one == <<wr, orig>>
two == <<wr2, orig2>>
ram == <<data, start, size, pc, s, copied, wrapping, printed, boot, old_log>>
vars == <<part, log, one, two, rlVars, ram>>

LogsInit ==
  /\ part \in {"log", "two writers", "list", "ram", "ram oops"}
  /\ LogInit /\ Two!LogInit /\ RLInit /\ Ram!RamInit

LogsNext ==
  \/ part = "log" /\ LogNext /\ UNCHANGED <<part, two, rlVars, ram>>
  \/ part = "two writers" /\ Two!LogNext /\ UNCHANGED <<part, one, rlVars, ram>>
  \/ part = "list" /\ RLNext /\ UNCHANGED <<part, log, one, two, ram>>
  \/ part = "ram" /\ Ram!RamNext /\ UNCHANGED <<part, log, one, two, rlVars>>
  \/ part = "ram oops" /\ RamOops!RamNext /\ UNCHANGED <<part, log, one, two, rlVars>>

LogsSpec ==
  /\ LogsInit /\ [][LogsNext]_vars
  /\ \/ part = "log" /\ LogFairness
     \/ part = "two writers" /\ Two!LogFairness
     \/ part \notin {"log", "two writers"}

-----------------------------------------------------------------------------
\* LogExact, FifoSpec and SleepingReaderWoken are those of Logger, WalkComplete is
\* that of LoggerReaders.

\* The RAM console outlives the system: ram_console_write never leaves the
\* buffer, also when an oops interrupts it; a log at rest is saved whole by the
\* next boot; and when the machine stops within a write only what that write was
\* about to replace is missing (RamConsole).
RamConsoleKept ==
  [][/\ Ram!InBounds'
     /\ part = "ram" => Ram!QuietSaved /\ Ram!TornSaved]_vars

=============================================================================
