------------------------------- MODULE SmdFifo -------------------------------
(***************************************************************************)
(* A packet channel of the shared-memory driver, arch/arm/mach-msm/smd.c,  *)
(* in one direction: a writer on one processor, a reader on the other,     *)
(* both running this code, a ring with head and tail and the flags fHEAD   *)
(* and fTAIL in memory they share, and an interrupt each way.  Nothing     *)
(* locks the one processor against the other: each access to the shared    *)
(* words that the other side can tell apart is a step.  An interrupt       *)
(* handler runs between two steps of its own processor's thread.           *)
(*                                                                         *)
(* The bytes of the stream, headers and payload, are numbered.             *)
(***************************************************************************)
EXTENDS Integers, Sequences, SequencesExt

CONSTANTS
  FifoSize,     \* fifo_size
  HeaderSize,   \* SMD_HEADER_SIZE
  Lens,         \* lengths of packets
  MaxPackets,   \* bound on the packets
  Closes        \* may the other side close the channel?

SmdFifoAssumption ==
  /\ HeaderSize \in Nat \ {0} /\ Lens \subseteq Nat \ {0} /\ MaxPackets \in Nat
  /\ FifoSize \in Nat /\ HeaderSize < FifoSize /\ \A n \in Lens : n + HeaderSize < FifoSize
  /\ Closes \in BOOLEAN

VARIABLES
  head, tail, data, fHEAD, fTAIL, open,  \* shared
  wirq, rirq,       \* interrupts raised at the two processors
  \* the writer: its step, the length asked for, what smd_write returned,
  \* the piece it writes, header or data, and the bytes of it that are left, those
  \* just copied
  w, asked, ret, piece, wlen, xfer, wnotified,
  \* the reader: its step, bytes left to read and read, those just copied
  r, current_packet, rlen, rgot, rbuf, rnotified,
  rh,               \* is its interrupt handler between the flags and the update?
  sent,             \* the packets begun: length, and where in the stream
  written, taken    \* bytes before head and before tail

shared == <<head, tail, data, fHEAD, fTAIL, open>>
writerVars == <<w, asked, ret, piece, wlen, xfer, wnotified, sent, written>>
readerVars == <<r, current_packet, rlen, rgot, rbuf, rnotified, rh, taken>>
smdVars == <<shared, wirq, rirq, writerVars, readerVars>>

-----------------------------------------------------------------------------
smd_stream_read_avail == (head - tail) % FifoSize
smd_stream_write_avail == (FifoSize - 1) - smd_stream_read_avail
smd_packet_read_avail == Min({smd_stream_read_avail, current_packet})

\* The free cells in one piece.
ch_write_buffer ==
  IF head < tail THEN tail - head - 1
  ELSE IF tail = 0 THEN FifoSize - head - 1 ELSE FifoSize - head

\* Mutant of ch_read_buffer: an empty ring is taken for a full one.
ch_read_buffer_empty == IF tail < head THEN head - tail ELSE FifoSize - tail

\* The bytes in one piece.
ch_read_buffer == IF tail <= head THEN head - tail ELSE FifoSize - tail

\* The bytes of the packets begun, and what a header says.
EndOf(i) == IF i = 0 THEN 0 ELSE sent[i].at + HeaderSize + sent[i].len
HeaderAt(n) == \E i \in DOMAIN sent : n = sent[i].at
PacketLen(n) == sent[CHOOSE i \in DOMAIN sent : n = sent[i].at].len

-----------------------------------------------------------------------------
\* The writer's client sends a packet, and waits for an event when there is
\* no room.
client_send(len) ==
  /\ w = "idle" /\ Len(sent) < MaxPackets
  /\ w' = "check" /\ asked' = len
  /\ UNCHANGED <<shared, wirq, rirq, ret, piece, wlen, xfer, wnotified, sent, written, readerVars>>

client_retry ==
  /\ w = "wait" /\ wnotified
  /\ w' = "check" /\ wnotified' = FALSE
  /\ UNCHANGED <<shared, wirq, rirq, asked, ret, piece, wlen, xfer, sent, written, readerVars>>

\* smd_packet_write: room for all of it or -ENOMEM.
smd_packet_write ==
  /\ w = "check"
  /\ IF smd_stream_write_avail < asked + HeaderSize
     THEN w' = "wait" /\ ret' = -1 /\ UNCHANGED <<piece, wlen, sent>>
     ELSE /\ w' = "copy" /\ piece' = "header" /\ wlen' = HeaderSize
          /\ sent' = Append(sent, [at |-> EndOf(Len(sent)), len |-> asked])
          /\ UNCHANGED ret
  /\ UNCHANGED <<shared, wirq, rirq, asked, xfer, wnotified, written, readerVars>>

\* The loop of smd_stream_write.
smd_stream_write ==
  /\ w = "copy"
  /\ IF ch_write_buffer # 0 /\ open
     THEN /\ xfer' = Min({ch_write_buffer, wlen})
          /\ data' = [k \in DOMAIN data |->
               IF k - head \in 0 .. xfer' - 1 THEN written + (k - head) + 1 ELSE data[k]]
          /\ w' = "done"
     ELSE w' = "end" /\ UNCHANGED <<data, xfer>>
  /\ UNCHANGED <<head, tail, fHEAD, fTAIL, open, wirq, rirq, asked, ret, piece, wlen, wnotified,
                 sent, written, readerVars>>

ch_write_done ==
  /\ w = "done"
  /\ head' = (head + xfer) % FifoSize
  /\ fHEAD' = TRUE
  /\ wlen' = wlen - xfer /\ written' = written + xfer
  /\ w' = IF wlen' = 0 THEN "end" ELSE "copy"
  /\ UNCHANGED <<tail, data, fTAIL, open, wirq, rirq, asked, ret, piece, xfer, wnotified, sent,
                 readerVars>>

\* The interrupt, then the payload after the header, or the return.
stream_write_end ==
  LET orig == IF piece = "header" THEN HeaderSize ELSE asked IN
  /\ w = "end"
  /\ rirq' = (rirq \/ wlen < orig)
  /\ IF piece = "header" /\ wlen = 0
     THEN w' = "copy" /\ piece' = "data" /\ wlen' = asked /\ UNCHANGED ret
     ELSE /\ w' = "idle"
          /\ ret' = IF piece = "header" THEN -1 ELSE orig - wlen
          /\ UNCHANGED <<piece, wlen>>
  /\ UNCHANGED <<shared, wirq, asked, xfer, wnotified, sent, written, readerVars>>

\* handle_smd_irq on the writer's processor: the event, and an interrupt back.
writer_irq ==
  /\ wirq
  /\ wirq' = FALSE
  /\ IF open /\ fTAIL
     THEN fTAIL' = FALSE /\ wnotified' = TRUE /\ rirq' = TRUE
     ELSE UNCHANGED <<fTAIL, wnotified, rirq>>
  /\ UNCHANGED <<head, tail, data, fHEAD, open, w, asked, ret, piece, wlen, xfer, sent, written,
                 readerVars>>

-----------------------------------------------------------------------------
\* Mutant of update_packet_state: half a header will do.
update_packet_state_half(packet, at) ==
  LET avail == smd_stream_read_avail IN
  IF packet = 0 /\ avail > 0
  THEN /\ tail' = (tail + Min({avail, HeaderSize})) % FifoSize
       /\ taken' = at + Min({avail, HeaderSize})
       /\ current_packet' = IF HeaderAt(data[tail] - 1) THEN PacketLen(data[tail] - 1) ELSE 0
       /\ fTAIL' = TRUE
  ELSE current_packet' = packet /\ UNCHANGED <<tail, taken, fTAIL>>

\* Between packets, with a full header in the ring: the next packet.  No
\* packet is empty, so the loop is run once.
update_packet_state(packet, at) ==
  IF packet = 0 /\ smd_stream_read_avail >= HeaderSize
  THEN /\ tail' = (tail + HeaderSize) % FifoSize
       /\ taken' = at + HeaderSize
       /\ current_packet' = IF HeaderAt(data[tail] - 1) THEN PacketLen(data[tail] - 1) ELSE 0
       /\ fTAIL' = TRUE
  ELSE current_packet' = packet /\ UNCHANGED <<tail, taken, fTAIL>>

\* handle_smd_irq on the reader's processor: the flags, then the update, the
\* event and an interrupt back.
handle_smd_irq ==
  /\ rirq /\ rh = "none"
  /\ rirq' = FALSE
  /\ rh' = IF open /\ fHEAD THEN "update" ELSE "none"
  /\ fHEAD' = (fHEAD /\ ~ open)
  /\ UNCHANGED <<head, tail, data, fTAIL, open, wirq, writerVars, r, current_packet, rlen, rgot,
                 rbuf, rnotified, taken>>

irq_update ==
  /\ rh = "update"
  /\ update_packet_state(current_packet, taken)
  /\ rnotified' = TRUE /\ wirq' = TRUE
  /\ rh' = "none"
  /\ UNCHANGED <<head, data, fHEAD, open, rirq, writerVars, r, rlen, rgot, rbuf>>

\* The reader's client waits for an event and reads while there is something,
\* in pieces of any size.
client_wakes ==
  /\ rh = "none" /\ r = "wait" /\ rnotified
  /\ r' = "check" /\ rnotified' = FALSE
  /\ UNCHANGED <<shared, wirq, rirq, writerVars, current_packet, rlen, rgot, rbuf, rh, taken>>

smd_packet_read(len) ==
  /\ rh = "none" /\ r = "check" /\ smd_packet_read_avail > 0
  /\ r' = "read" /\ rlen' = Min({len, current_packet}) /\ rgot' = 0
  /\ UNCHANGED <<shared, wirq, rirq, writerVars, current_packet, rbuf, rnotified, rh, taken>>

client_waits ==
  /\ rh = "none" /\ r = "check" /\ smd_packet_read_avail = 0
  /\ r' = "wait"
  /\ UNCHANGED <<shared, wirq, rirq, writerVars, current_packet, rlen, rgot, rbuf, rnotified,
                 rh, taken>>

\* The loop of ch_read: the copy of one piece, then the tail.
ch_read ==
  /\ rh = "none" /\ r = "read"
  /\ IF rlen > 0 /\ ch_read_buffer > 0
     THEN /\ rbuf' = [k \in 1 .. Min({ch_read_buffer, rlen}) |-> data[tail + k - 1]]
          /\ r' = "done"
     ELSE r' = "end" /\ UNCHANGED rbuf
  /\ UNCHANGED <<shared, wirq, rirq, writerVars, current_packet, rlen, rgot, rnotified, rh, taken>>

ch_read_done ==
  /\ rh = "none" /\ r = "done"
  /\ tail' = (tail + Len(rbuf)) % FifoSize
  /\ fTAIL' = TRUE
  /\ rlen' = rlen - Len(rbuf) /\ rgot' = rgot + Len(rbuf) /\ taken' = taken + Len(rbuf)
  /\ rbuf' = <<>>
  /\ r' = "read"
  /\ UNCHANGED <<head, data, fHEAD, open, wirq, rirq, writerVars, current_packet, rnotified, rh>>

\* Mutant of packet_read_notify: the writer is not told.
packet_read_notify_silent ==
  /\ rh = "none" /\ r = "end"
  /\ r' = "locked"
  /\ UNCHANGED <<shared, wirq, rirq, writerVars, current_packet, rlen, rgot, rbuf, rnotified,
                 rh, taken>>

packet_read_notify ==
  /\ rh = "none" /\ r = "end"
  /\ wirq' = (wirq \/ rgot > 0)
  /\ r' = "locked"
  /\ UNCHANGED <<shared, rirq, writerVars, current_packet, rlen, rgot, rbuf, rnotified, rh, taken>>

\* Mutant of packet_read_end: the next packet is left to the next interrupt.
packet_read_end_only ==
  /\ rh = "none" /\ r = "locked"
  /\ current_packet' = current_packet - rgot
  /\ r' = "check"
  /\ UNCHANGED <<shared, wirq, rirq, writerVars, rlen, rgot, rbuf, rnotified, rh, taken>>

\* Under smd_lock, with interrupts off.
packet_read_end ==
  /\ rh = "none" /\ r = "locked"
  /\ update_packet_state(current_packet - rgot, taken)
  /\ r' = "check"
  /\ UNCHANGED <<head, data, fHEAD, open, wirq, rirq, writerVars, rlen, rgot, rbuf, rnotified, rh>>

\* The other side closes: smd_state_change has not run here yet.
peer_closes ==
  /\ Closes /\ open
  /\ open' = FALSE
  /\ UNCHANGED <<head, tail, data, fHEAD, fTAIL, wirq, rirq, writerVars, readerVars>>

FifoInit ==
  /\ head = 0 /\ tail = 0 /\ data = [k \in 0 .. FifoSize - 1 |-> 0]
  /\ fHEAD = FALSE /\ fTAIL = FALSE /\ open = TRUE
  /\ wirq = FALSE /\ rirq = FALSE
  /\ w = "idle" /\ asked = 0 /\ ret = 0 /\ piece = "data" /\ wlen = 0 /\ xfer = 0
  /\ wnotified = FALSE /\ sent = <<>> /\ written = 0
  /\ r = "wait" /\ current_packet = 0 /\ rlen = 0 /\ rgot = 0 /\ rbuf = <<>>
  /\ rnotified = FALSE /\ rh = "none" /\ taken = 0

WriterStep == client_retry \/ smd_packet_write \/ smd_stream_write \/ ch_write_done \/ stream_write_end
ReaderIrq == handle_smd_irq \/ irq_update
ReaderStep ==
  \/ client_wakes \/ \E len \in Lens : smd_packet_read(len) \/ client_waits
  \/ ch_read \/ ch_read_done \/ packet_read_notify \/ packet_read_end

FifoNext ==
  \/ \E len \in Lens : client_send(len)
  \/ WriterStep \/ writer_irq \/ ReaderIrq \/ ReaderStep
  \/ peer_closes

\* Both processors run, interrupts are taken and the clients that were told
\* of an event get to run; nobody has to send.
FifoFairness ==
  /\ WF_smdVars(WriterStep) /\ WF_smdVars(writer_irq)
  /\ WF_smdVars(ReaderIrq) /\ WF_smdVars(ReaderStep)

FifoSpec == FifoInit /\ [][FifoNext]_smdVars /\ FifoFairness

-----------------------------------------------------------------------------
(***************************************************************************)
(* Properties.                                                             *)
(***************************************************************************)

\* Between tail and head is the stream, every byte of it once and in order,
\* whatever the other side moves meanwhile; and the piece the reader has just
\* copied was not overwritten while it copied.
RingExact ==
  /\ smd_stream_read_avail = written - taken
  /\ \A k \in 0 .. written - taken - 1 : data[(tail + k) % FifoSize] = taken + k + 1
  /\ \A k \in DOMAIN rbuf : rbuf[k] = taken + k

\* The reader never takes a byte of payload for a header or the other way
\* round: what is left of the packet it is in ends where the packet ends,
\* and with no packet it stands before a header, or at the end.
Left == current_packet - (IF r = "wait" \/ r = "check" THEN 0 ELSE rgot)

PacketAligned ==
  IF Left = 0 THEN \E i \in 0 .. Len(sent) : taken = EndOf(i)
  ELSE \E i \in DOMAIN sent : taken + Left = EndOf(i) /\ Left <= sent[i].len

ChannelExact == RingExact /\ PacketAligned

SmdTypeOK ==
  /\ head \in 0 .. FifoSize - 1 /\ tail \in 0 .. FifoSize - 1
  /\ data \in [0 .. FifoSize - 1 -> Nat]
  /\ written \in Nat /\ taken \in Nat
  /\ asked \in Lens \cup {0} /\ wlen \in Nat /\ xfer \in Nat
  /\ w \in {"idle", "check", "wait", "copy", "done", "end"} /\ piece \in {"header", "data"}
  /\ r \in {"wait", "check", "read", "done", "end", "locked"}
  /\ current_packet \in Nat /\ rlen \in Nat /\ rgot \in Nat /\ rbuf \in Seq(Nat)
  /\ sent \in Seq([at : Nat, len : Lens])

\* Head and tail are as far apart as the bytes before them, and each byte of
\* the stream lies in its cell, those that the writer has copied and not yet
\* published included.
Copied == IF w = "done" THEN xfer ELSE 0

RingInv ==
  /\ taken <= written /\ written + Copied - taken <= FifoSize - 1
  /\ head - tail \in {written - taken, written - taken - FifoSize}
  /\ \A k \in 0 .. FifoSize - 1 :
       /\ k - tail \in 0 .. written + Copied - taken - 1 =>
            data[k] = taken + (k - tail) + 1
       /\ k + FifoSize - tail \in 0 .. written + Copied - taken - 1 =>
            data[k] = taken + (k + FifoSize - tail) + 1
  /\ w = "done" => xfer <= wlen /\ head + xfer <= FifoSize

\* What the reader has in its hands is still to be taken.
ReaderInv ==
  /\ r # "done" => rbuf = <<>>
  /\ Len(rbuf) <= written - taken /\ tail + Len(rbuf) <= FifoSize /\ Len(rbuf) <= rlen
  /\ \A k \in 1 .. Len(rbuf) : rbuf[k] = taken + k
  /\ r \notin {"wait", "check"} => current_packet > 0
  /\ r \in {"read", "done"} => rgot + rlen <= current_packet
  /\ r \in {"end", "locked"} => rgot <= current_packet

\* The packets lie one behind the other, and what the writer has still to write
\* belongs to the last one.
WriterInv ==
  /\ \A k \in DOMAIN sent : sent[k].at = EndOf(k - 1)
  /\ w \in {"check", "wait", "copy", "done", "end"} => asked \in Lens
  /\ IF w \in {"copy", "done", "end"}
     THEN written + wlen + (IF piece = "header" THEN asked ELSE 0) <= EndOf(Len(sent))
     ELSE written <= EndOf(Len(sent))

FifoInv == SmdTypeOK /\ RingInv /\ ReaderInv /\ WriterInv /\ PacketAligned

\* No event is lost in either direction: what was written is read, and a
\* writer that waits for room gets it.
AllRead == written > taken ~> written = taken
WriterProceeds == w = "wait" ~> w # "wait"

\* What msm_smd.h says of smd_write on a packet channel: it returns the length
\* asked for or an error, never a partial write.
NeverPartial == w = "idle" => ret \in {asked, -1}

\* What msm_smd.h says of smd_cur_packet_size: the total size of the packet
\* that is being read.
CurPacketSize ==
  r \in {"wait", "check"} /\ current_packet # 0
    => \E i \in DOMAIN sent : taken \in sent[i].at .. EndOf(i) - 1 /\ current_packet = sent[i].len
=============================================================================
