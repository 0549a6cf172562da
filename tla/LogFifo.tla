------------------------------ MODULE LogFifo -------------------------------
(***************************************************************************)
(* What the Android log device promises its readers: every reader has a    *)
(* FIFO of whole entries.  A write adds an entry to all of them and costs  *)
(* a reader its oldest entries only when the log would overflow.           *)
(***************************************************************************)
EXTENDS Naturals, Sequences, SequencesExt

CONSTANTS Readers, Entries, EntryLen(_), Capacity

VARIABLES
  queue,  \* the entries each reader that has the device open has still to read
  opened, \* the readers that have it open
  start   \* the entries a reader that opens the device now would read

fifoVars == <<queue, opened, start>>

Bytes(q) ==
  LET from[i \in 1 .. Len(q) + 1] == IF i > Len(q) THEN 0 ELSE EntryLen(q[i]) + from[i + 1]
  IN  from[1]

\* What is left of q when n bytes more must fit in.
MakeRoom(q, n) ==
  IF Bytes(q) + n < Capacity THEN {q}
  ELSE {s \in Suffixes(q) : Bytes(s) + n < Capacity}

Init ==
  /\ queue = [r \in Readers |-> <<>>]
  /\ opened = {}
  /\ start = <<>>

Write(e) ==
  /\ \A r \in opened : \E s \in MakeRoom(queue[r], EntryLen(e)) : queue'[r] = Append(s, e)
  /\ \A r \in Readers \ opened : queue'[r] = <<>>
  /\ \E s \in MakeRoom(start, EntryLen(e)) : start' = Append(s, e)
  /\ UNCHANGED opened

\* A write that fails half-way has made room for its entry.
FailedWrite(e) ==
  /\ \A r \in opened : queue'[r] \in MakeRoom(queue[r], EntryLen(e))
  /\ \A r \in Readers \ opened : queue'[r] = <<>>
  /\ start' \in MakeRoom(start, EntryLen(e))
  /\ UNCHANGED opened

Read(r) ==
  /\ r \in opened
  /\ queue[r] # <<>>
  /\ queue' = [queue EXCEPT ![r] = Tail(@)]
  /\ UNCHANGED <<opened, start>>

Flush ==
  /\ queue' = [r \in Readers |-> <<>>]
  /\ start' = <<>>
  /\ UNCHANGED opened

Open(r) ==
  /\ r \notin opened
  /\ opened' = opened \cup {r}
  /\ queue' = [queue EXCEPT ![r] = start]
  /\ UNCHANGED start

Close(r) ==
  /\ r \in opened
  /\ opened' = opened \ {r}
  /\ queue' = [queue EXCEPT ![r] = <<>>]
  /\ UNCHANGED start

Next ==
  \/ \E e \in Entries : Write(e) \/ FailedWrite(e)
  \/ \E r \in Readers : Read(r) \/ Open(r) \/ Close(r)
  \/ Flush

Spec == Init /\ [][Next]_fifoVars
=============================================================================
