------------------------------ MODULE RamConsole -----------------------------
(***************************************************************************)
(* The RAM console, drivers/staging/android/ram_console.c without error    *)
(* correction: printk writes into a ring in memory that survives a reboot; *)
(* the next boot saves what it finds there as /proc/last_kmsg.             *)
(*                                                                         *)
(* The system may stop at any byte: reboot is enabled everywhere, and an   *)
(* oops in the middle of a write prints through zap_locks, that is, starts *)
(* a new write on what the old one left.  Bytes are numbered in the order  *)
(* they are printed.                                                       *)
(***************************************************************************)
EXTENDS Integers, SequencesExt

CONSTANTS
  BufferSize,   \* ram_console_buffer_size
  MaxBytes,     \* bound on the bytes printed
  MaxCount,     \* bound on the count of one write
  Oops          \* are there oopses in the middle of a write?

RamConsoleAssumption ==
  BufferSize \in Nat \ {0} /\ MaxBytes \in Nat /\ MaxCount \in Nat \ {0} /\ Oops \in BOOLEAN

VARIABLES
  data, start, size, \* struct ram_console_buffer, all that survives
  pc, s, copied,     \* the running write: its step, its bytes, those copied
  wrapping,          \* is it in the part before the end of the buffer?
  printed,           \* bytes of the writes that have ended or were given up
  boot,              \* bytes printed before this boot
  old_log            \* ram_console_old_log, <<>> also when there is none

ramVars == <<data, start, size, pc, s, copied, wrapping, printed, boot, old_log>>

LastOf(q, n) == SubSeq(q, Len(q) - n + 1, Len(q))

Bytes(a, b) == [k \in 1 .. b - a |-> a + k]

-----------------------------------------------------------------------------
\* Mutant of ram_console_write: a write longer than the buffer is not cut.
ram_console_write_long(count) ==
  /\ pc = "idle" /\ printed + count <= MaxBytes
  /\ s' = Bytes(printed, printed + count)
  /\ wrapping' = (BufferSize - start < count)
  /\ pc' = "copy" /\ copied' = 0
  /\ UNCHANGED <<data, start, size, printed, boot, old_log>>

ram_console_write(count) ==
  /\ pc = "idle" /\ printed + count <= MaxBytes
  /\ s' = LET b == Bytes(printed, printed + count)
          IN  IF count > BufferSize THEN LastOf(b, BufferSize) ELSE b
  /\ wrapping' = (BufferSize - start < Len(s'))
  /\ pc' = "copy" /\ copied' = 0
  /\ UNCHANGED <<data, start, size, printed, boot, old_log>>

\* What the call of ram_console_update has to copy.
CopyCount == IF wrapping THEN BufferSize - start ELSE Len(s)

\* The memcpy of ram_console_update, byte by byte.
ram_console_update ==
  /\ pc = "copy" /\ copied < CopyCount
  /\ data' = [data EXCEPT ![start + copied] = s[copied + 1]]
  /\ copied' = copied + 1
  /\ UNCHANGED <<start, size, pc, s, wrapping, printed, boot, old_log>>

\* Mutant of wrap_start: the header is cleared for the new lap.
wrap_start_reset ==
  /\ pc = "copy" /\ wrapping /\ copied = CopyCount
  /\ s' = LastOf(s, Len(s) - copied) /\ copied' = 0
  /\ start' = 0 /\ size' = 0
  /\ wrapping' = FALSE /\ pc' = "wrap"
  /\ UNCHANGED <<data, printed, boot, old_log>>

\* After the first part: start, then size.
wrap_start ==
  /\ pc = "copy" /\ wrapping /\ copied = CopyCount
  /\ s' = LastOf(s, Len(s) - copied) /\ copied' = 0
  /\ start' = 0
  /\ wrapping' = FALSE /\ pc' = "wrap"
  /\ UNCHANGED <<data, size, printed, boot, old_log>>

wrap_size ==
  /\ pc = "wrap"
  /\ size' = BufferSize
  /\ pc' = "copy"
  /\ UNCHANGED <<data, start, s, copied, wrapping, printed, boot, old_log>>

write_start ==
  /\ pc = "copy" /\ ~ wrapping /\ copied = CopyCount
  /\ start' = start + Len(s)
  /\ pc' = "size"
  /\ UNCHANGED <<data, size, s, copied, wrapping, printed, boot, old_log>>

\* Where the numbering continues when the running write ends or is given up.
PrintedNow == IF s = <<>> THEN printed ELSE s[Len(s)]

\* Mutant of write_size: the buffer counts as full at its first wrap only.
write_size_never ==
  /\ pc = "size"
  /\ UNCHANGED size
  /\ pc' = "idle" /\ s' = <<>> /\ copied' = 0
  /\ printed' = PrintedNow
  /\ UNCHANGED <<data, start, wrapping, boot, old_log>>

write_size ==
  /\ pc = "size"
  /\ size' = IF size < BufferSize THEN size + Len(s) ELSE size
  /\ pc' = "idle" /\ s' = <<>> /\ copied' = 0
  /\ printed' = PrintedNow
  /\ UNCHANGED <<data, start, wrapping, boot, old_log>>

\* printk of the oops: the write that was running is never continued.
oops ==
  /\ Oops /\ pc # "idle"
  /\ pc' = "idle" /\ s' = <<>> /\ copied' = 0 /\ wrapping' = FALSE
  /\ printed' = PrintedNow
  /\ UNCHANGED <<data, start, size, boot, old_log>>

-----------------------------------------------------------------------------
Valid == size <= BufferSize /\ start <= size

\* From start to size, then from 0 to start.
ram_console_save_old ==
  [k \in 1 .. size |->
     IF k <= size - start THEN data[start + k - 1] ELSE data[k - 1 - (size - start)]]

\* ram_console_init of the next boot; kmalloc may fail.
ram_console_init(kmalloc) ==
  /\ old_log' = IF Valid /\ kmalloc THEN ram_console_save_old ELSE <<>>
  /\ start' = 0 /\ size' = 0
  /\ pc' = "idle" /\ s' = <<>> /\ copied' = 0 /\ wrapping' = FALSE
  /\ printed' = PrintedNow
  /\ boot' = PrintedNow
  /\ UNCHANGED data

RamInit ==
  /\ data = [k \in 0 .. BufferSize - 1 |-> 0]
  /\ start = 0 /\ size = 0
  /\ pc = "idle" /\ s = <<>> /\ copied = 0 /\ wrapping = FALSE
  /\ printed = 0 /\ boot = 0
  /\ old_log = <<>>

RamNext ==
  \/ \E count \in 1 .. MaxCount : ram_console_write(count)
  \/ ram_console_update \/ wrap_start \/ wrap_size \/ write_start \/ write_size
  \/ oops
  \/ \E kmalloc \in BOOLEAN : ram_console_init(kmalloc)

RamSpec == RamInit /\ [][RamNext]_ramVars

-----------------------------------------------------------------------------
(***************************************************************************)
(* Properties.                                                             *)
(***************************************************************************)

\* The end of what this boot printed, as much as fits.
Printed == Bytes(boot, printed)
Fits == IF Len(Printed) < BufferSize THEN Printed ELSE LastOf(Printed, BufferSize)

\* A reboot between two writes saves the last bytes that were printed, in
\* order, however the writes fell on the end of the buffer.
QuietSaved == ram_console_init(TRUE) /\ pc = "idle" => old_log' = Fits

\* A crash in the middle of a write, whatever the writes before it were,
\* leaves the bytes of those whole writes that are still there in order and
\* without a gap, up to the last one, and as many of them as the torn write
\* leaves room for: only its own bytes may be missing or stand in front.  (But
\* for a crash between the stores of start and size in the first lap, which
\* loses the log.)
TornSaved ==
  ram_console_init(TRUE) /\ (pc = "size" => size = BufferSize) =>
    LET whole == SelectSeq(old_log', LAMBDA b : b <= printed)
    IN  /\ Len(whole) >= Min({printed - boot, BufferSize - (PrintedNow - printed)})
        /\ Len(whole) <= printed - boot
        /\ whole = LastOf(Printed, Len(whole))

\* No write stores behind the end of the buffer, where other memory is, also
\* when an oops starts a write on the remains of another and whatever size and
\* start were left as.
InBounds ==
  /\ pc = "copy" => start + CopyCount <= BufferSize
  /\ start <= BufferSize
=============================================================================
