------------------------------- MODULE Logger -------------------------------
(***************************************************************************)
(* The Android log device, drivers/staging/android/logger.c: a ring buffer *)
(* with any number of writers and readers.                                 *)
(*                                                                         *)
(* log->mutex makes the body of each operation one step.  Three things     *)
(* happen outside it and are steps of their own: logger_aio_write saves    *)
(* log->w_off before it takes the mutex and wakes readers after it has     *)
(* released it, and logger_read sleeps on the wait queue.                  *)
(*                                                                         *)
(* A cell of the buffer stands for a byte, with Base values instead of     *)
(* 256.  Of the header only the length is kept, in two cells, low before   *)
(* high as on this little-endian machine, and the end of the buffer may    *)
(* split them; a payload is one byte value repeated.  As in the code,      *)
(* payload cells read as a header yield some length or other.              *)
(***************************************************************************)
EXTENDS Naturals, Sequences

CONSTANTS
  Base,          \* the number of values of a byte
  Size,          \* log->size
  MaxPayload,    \* LOGGER_ENTRY_MAX_PAYLOAD
  PayloadBytes,  \* the values of payload bytes
  Readers,       \* files open for reading
  Writers,       \* threads that write
  StaleFault     \* may copy_from_user fail in a write that saved a stale w_off?

\* sizeof(struct logger_entry)
HeaderLen == 2

\* LOGGER_ENTRY_MAX_LEN; Size is a power of two greater than it, and so is it.
MaxEntry == HeaderLen + MaxPayload

ASSUME SizeAssumption ==
  /\ Size \in Nat /\ MaxPayload \in Nat \ {0}
  /\ Size >= 2 * MaxEntry
  /\ Base \in Nat \ {0} /\ MaxPayload < Base * Base
  /\ PayloadBytes \subseteq 0 .. Base - 1
  /\ StaleFault \in BOOLEAN

VARIABLES
  buffer,   \* log->buffer
  w_off,    \* log->w_off
  head,     \* log->head
  opened,   \* log->readers
  r_off,    \* reader->r_off
  rd,       \* where each reader is in logger_read
  asleep,   \* readers on log->wq in state TASK_INTERRUPTIBLE
  wr,       \* where each writer is in logger_aio_write
  orig      \* the writer's local copy of w_off, 0 once it is dead

logVars == <<buffer, w_off, head, opened, r_off, rd, asleep, wr, orig>>

Offsets == 0 .. Size - 1

logger_offset(n) == n % Size

-----------------------------------------------------------------------------
\* Mutant of get_entry_len: the high byte is always the next one, which behind
\* the end of the buffer is some byte of another page, here 0.
get_entry_len_no_wrap(off) ==
  HeaderLen + buffer[off] + Base * (IF Size - off = 1 THEN 0 ELSE buffer[off + 1])

get_entry_len(off) ==
  HeaderLen + buffer[off] + Base * (IF Size - off = 1 THEN buffer[0] ELSE buffer[off + 1])

\* The loop of get_next_entry: the first n >= len at the end of an entry,
\* counted from off.
get_next_entry(off, len) ==
  LET skip[n \in 0 .. Size + HeaderLen + Base * Base] ==
        IF n >= len THEN n ELSE skip[n + get_entry_len(logger_offset(off + n))]
  IN  logger_offset(off + skip[get_entry_len(off)])

\* Mutant of clock_interval: b itself is left out.
clock_interval_open(a, b, c) ==
  IF b < a THEN a < c \/ b > c ELSE a < c /\ b > c

clock_interval(a, b, c) ==
  IF b < a THEN a < c \/ b >= c ELSE a < c /\ b >= c

\* fix_up_readers, for one reader or the head at offset off.
FixUp(off, len) ==
  IF clock_interval(w_off, logger_offset(w_off + len), off)
    THEN get_next_entry(off, len)
    ELSE off

\* Mutant of fix_up_readers: log->head is forgotten.
fix_up_readers_not_head(len) ==
  /\ UNCHANGED head
  /\ r_off' = [r \in Readers |-> IF r \in opened THEN FixUp(r_off[r], len) ELSE r_off[r]]

fix_up_readers(len) ==
  /\ head' = FixUp(head, len)
  /\ r_off' = [r \in Readers |-> IF r \in opened THEN FixUp(r_off[r], len) ELSE r_off[r]]

\* The buffer after the header and the first n payload bytes are written.
Written(len, byte, n) ==
  [c \in Offsets |->
     LET i == (c + Size - w_off) % Size
     IN  CASE i = 0 -> len % Base
           [] i = 1 -> len \div Base
           [] i >= HeaderLen /\ i < HeaderLen + n -> byte
           [] OTHER -> buffer[c]]

-----------------------------------------------------------------------------
(***************************************************************************)
(* logger_aio_write                                                        *)
(***************************************************************************)
write_start(w) ==
  /\ wr[w] = "idle"
  /\ wr' = [wr EXCEPT ![w] = "lock"]
  /\ orig' = [orig EXCEPT ![w] = w_off]
  /\ UNCHANGED <<buffer, w_off, head, opened, r_off, rd, asleep>>

\* Mutants of write_entry: w_off is not wrapped, and readers are woken only
\* when the log was empty.
write_entry_no_wrap(w, len, byte) ==
  /\ wr[w] = "lock"
  /\ fix_up_readers(HeaderLen + len)
  /\ buffer' = Written(len, byte, len)
  /\ w_off' = w_off + HeaderLen + len
  /\ wr' = [wr EXCEPT ![w] = "wake_up"]
  /\ orig' = [orig EXCEPT ![w] = 0]
  /\ UNCHANGED <<opened, rd, asleep>>

write_entry_wakes_once(w, len, byte) ==
  /\ wr[w] = "lock"
  /\ fix_up_readers(HeaderLen + len)
  /\ buffer' = Written(len, byte, len)
  /\ w_off' = logger_offset(w_off + HeaderLen + len)
  /\ wr' = [wr EXCEPT ![w] = IF head = w_off THEN "wake_up" ELSE "idle"]
  /\ orig' = [orig EXCEPT ![w] = 0]
  /\ UNCHANGED <<opened, rd, asleep>>

\* header.len = len; a null write has returned before the mutex is taken.
write_entry(w, len, byte) ==
  /\ wr[w] = "lock"
  /\ fix_up_readers(HeaderLen + len)
  /\ buffer' = Written(len, byte, len)
  /\ w_off' = logger_offset(w_off + HeaderLen + len)
  /\ wr' = [wr EXCEPT ![w] = "wake_up"]
  /\ orig' = [orig EXCEPT ![w] = 0]
  /\ UNCHANGED <<opened, rd, asleep>>

\* copy_from_user fails after n bytes: w_off is set back to orig.
write_fault(w, len, byte, n) ==
  /\ wr[w] = "lock"
  /\ StaleFault \/ orig[w] = w_off
  /\ fix_up_readers(HeaderLen + len)
  /\ buffer' = Written(len, byte, n)
  /\ w_off' = orig[w]
  /\ wr' = [wr EXCEPT ![w] = "idle"]
  /\ orig' = [orig EXCEPT ![w] = 0]
  /\ UNCHANGED <<opened, rd, asleep>>

\* wake_up_interruptible(&log->wq)
write_wake_up(w) ==
  /\ wr[w] = "wake_up"
  /\ asleep' = {}
  /\ wr' = [wr EXCEPT ![w] = "idle"]
  /\ UNCHANGED <<buffer, w_off, head, opened, r_off, rd, orig>>

-----------------------------------------------------------------------------
(***************************************************************************)
(* logger_read                                                             *)
(***************************************************************************)
\* prepare_to_wait
read_prepare(r) ==
  /\ r \in opened
  /\ rd[r] \in {"idle", "again"}
  /\ rd' = [rd EXCEPT ![r] = "check"]
  /\ asleep' = asleep \cup {r}
  /\ UNCHANGED <<buffer, w_off, head, opened, r_off, wr, orig>>

\* Nothing to read: -EAGAIN or -EINTR, or schedule(), which returns at once if
\* the task had to wait for the mutex (it is TASK_RUNNING again).
read_check(r) ==
  /\ rd[r] = "check"
  /\ \/ w_off # r_off[r] /\ rd' = [rd EXCEPT ![r] = "read"] /\ asleep' = asleep \ {r}
     \/ w_off = r_off[r] /\ rd' = [rd EXCEPT ![r] = "idle"] /\ asleep' = asleep \ {r}
     \/ /\ w_off = r_off[r]
        /\ rd' = [rd EXCEPT ![r] = "schedule"]
        /\ asleep' \in {asleep, asleep \ {r}}
  /\ UNCHANGED <<buffer, w_off, head, opened, r_off, wr, orig>>

\* A signal wakes the reader; it finds it pending in its next round.
read_signal(r) ==
  /\ rd[r] = "schedule"
  /\ asleep' = asleep \ {r}
  /\ UNCHANGED <<buffer, w_off, head, opened, r_off, rd, wr, orig>>

\* schedule() returns once the reader has been woken, by a writer or a signal.
read_schedule(r) ==
  /\ rd[r] = "schedule"
  /\ r \notin asleep
  /\ rd' = [rd EXCEPT ![r] = "again"]
  /\ UNCHANGED <<buffer, w_off, head, opened, r_off, asleep, wr, orig>>

read_entry(r) ==
  /\ rd[r] = "read"
  /\ \/ /\ w_off = r_off[r]
        /\ rd' = [rd EXCEPT ![r] = "again"]
        /\ UNCHANGED r_off
     \/ /\ w_off # r_off[r]
        /\ rd' = [rd EXCEPT ![r] = "idle"]
        /\ \/ r_off' = [r_off EXCEPT ![r] = logger_offset(@ + get_entry_len(@))]
           \/ UNCHANGED r_off   \* -EINVAL: small buffer, -EFAULT: copy_to_user
  /\ UNCHANGED <<buffer, w_off, head, opened, asleep, wr, orig>>

-----------------------------------------------------------------------------
logger_open(r) ==
  /\ r \notin opened
  /\ opened' = opened \cup {r}
  /\ r_off' = [r_off EXCEPT ![r] = head]
  /\ UNCHANGED <<buffer, w_off, head, rd, asleep, wr, orig>>

\* The reader is freed; its fields mean nothing any more.
logger_release(r) ==
  /\ r \in opened /\ rd[r] = "idle"
  /\ opened' = opened \ {r}
  /\ r_off' = [r_off EXCEPT ![r] = 0]
  /\ UNCHANGED <<buffer, w_off, head, rd, asleep, wr, orig>>

\* LOGGER_FLUSH_LOG; the other commands of logger_ioctl only read.
logger_ioctl_flush ==
  /\ r_off' = [r \in Readers |-> IF r \in opened THEN w_off ELSE r_off[r]]
  /\ head' = w_off
  /\ UNCHANGED <<buffer, w_off, opened, rd, asleep, wr, orig>>

\* The values logger_ioctl and logger_poll report of a reader.
LOGGER_GET_LOG_LEN(r) ==
  IF w_off >= r_off[r] THEN w_off - r_off[r] ELSE (Size - r_off[r]) + w_off

LOGGER_GET_NEXT_ENTRY_LEN(r) ==
  IF w_off # r_off[r] THEN get_entry_len(r_off[r]) ELSE 0

-----------------------------------------------------------------------------
LogInit ==
  /\ buffer = [c \in Offsets |-> 0]
  /\ w_off = 0
  /\ head = 0
  /\ opened = {}
  /\ r_off = [r \in Readers |-> 0]
  /\ rd = [r \in Readers |-> "idle"]
  /\ asleep = {}
  /\ wr = [w \in Writers |-> "idle"]
  /\ orig = [w \in Writers |-> 0]

WriterStep(w) ==
  \/ write_start(w)
  \/ \E len \in 1 .. MaxPayload, byte \in PayloadBytes :
       \/ write_entry(w, len, byte)
       \/ \E n \in 0 .. len - 1 : write_fault(w, len, byte, n)
  \/ write_wake_up(w)

ReaderStep(r) ==
  \/ read_prepare(r)
  \/ read_check(r)
  \/ read_schedule(r)
  \/ read_entry(r)

LogNext ==
  \/ \E w \in Writers : WriterStep(w)
  \/ \E r \in Readers : ReaderStep(r) \/ read_signal(r) \/ logger_open(r) \/ logger_release(r)
  \/ logger_ioctl_flush

LogSafety == LogInit /\ [][LogNext]_logVars

\* A thread that is inside a system call and not asleep goes on.
LogFairness ==
  /\ \A w \in Writers : WF_logVars(wr[w] # "idle" /\ WriterStep(w))
  /\ \A r \in Readers : WF_logVars(rd[r] # "idle" /\ ReaderStep(r))

LogSpec == LogSafety /\ LogFairness

-----------------------------------------------------------------------------
\* The types of the variables of logger.c.
LogTypeOK ==
  /\ buffer \in [Offsets -> 0 .. Base - 1]
  /\ w_off \in Offsets /\ head \in Offsets
  /\ opened \subseteq Readers /\ asleep \subseteq opened
  /\ r_off \in [Readers -> Offsets]
  /\ rd \in [Readers -> {"idle", "check", "schedule", "again", "read"}]
  /\ wr \in [Writers -> {"idle", "lock", "wake_up"}]
  /\ orig \in [Writers -> Offsets]

\* How many bytes the log holds from off on.
Used(off) == (w_off + Size - off) % Size

\* The entries in the buffer from off up to w_off, each with its payload; one
\* that does not end at or before w_off is no entry.
Pending(off) ==
  LET cell(n) == buffer[logger_offset(off + n)]
      from[n \in 0 .. Used(off)] ==
        IF n = Used(off) THEN <<>>
        ELSE LET len == cell(n) + Base * cell(n + 1)
                 next == n + HeaderLen + len
             IN  IF next > Used(off) \/ len = 0 THEN <<<<>>>>
                 ELSE <<[i \in 1 .. len |-> cell(n + HeaderLen - 1 + i)]>> \o from[next]
  IN  from[0]

Entries == {[i \in 1 .. len |-> b] : len \in 1 .. MaxPayload, b \in PayloadBytes}

PayloadEntryLen(e) == HeaderLen + Len(e)

(***************************************************************************)
(* The ring buffer implements the promise of LogFifo: however the writer   *)
(* laps the readers, wraps around and fails, each reader reads whole       *)
(* entries, unchanged and in order, and loses some only if the log is full.*)
(***************************************************************************)
Fifo == INSTANCE LogFifo
  WITH queue <- [r \in Readers |-> IF r \in opened THEN Pending(r_off[r]) ELSE <<>>],
       start <- Pending(head),
       EntryLen <- PayloadEntryLen,
       Capacity <- Size

FifoSpec == Fifo!Spec

(***************************************************************************)
(* Readers and head are at boundaries of entries: what fix_up_readers and  *)
(* logger_read find at r_off is the length of an entry that ends at or     *)
(* before w_off.                                                           *)
(***************************************************************************)
AtEntries ==
  \A off \in {head} \cup {r_off[r] : r \in opened} :
    \A i \in DOMAIN Pending(off) : Pending(off)[i] # <<>>

(***************************************************************************)
(* What logger_ioctl reports is what logger_read will return, wrapped      *)
(* around the end of the buffer or not: LOGGER_GET_LOG_LEN is the length   *)
(* of all pending entries, LOGGER_GET_NEXT_ENTRY_LEN that of the first,    *)
(* and neither is zero while there is something to read.                   *)
(***************************************************************************)
LengthsReported ==
  \A r \in opened :
    LET q == Pending(r_off[r])
    IN  /\ LOGGER_GET_LOG_LEN(r) = Fifo!Bytes(q)
        /\ LOGGER_GET_NEXT_ENTRY_LEN(r) = IF q = <<>> THEN 0 ELSE PayloadEntryLen(q[1])

\* Every offset of the log is at an entry, whatever writes failed, lapped readers
\* or flushed, and the ioctls report the lengths of what is there.
LogExact == LogTypeOK /\ AtEntries /\ LengthsReported

(***************************************************************************)
(* No wakeup is lost: a reader that sleeps while there is something to     *)
(* read is woken, although logger_read checks w_off long before it sleeps. *)
(***************************************************************************)
SleepingReaderWoken ==
  \A r \in Readers :
    (rd[r] = "schedule" /\ r_off[r] # w_off) ~> (r \notin asleep \/ r_off[r] = w_off)

=============================================================================
