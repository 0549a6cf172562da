----------------------------- MODULE ModemProofs -----------------------------
(***************************************************************************)
(* Safety of what the application processor and the modem do with the      *)
(* memory they share, for any callers, crashes, sizes and packets: the     *)
(* call through four words (ProcComm), the ring of a packet channel        *)
(* (SmdFifo) and the lock that both take (RemoteSpinlock).                 *)
(***************************************************************************)
EXTENDS ProcComm, SmdFifo, RemoteSpinlock, TLAPS

-----------------------------------------------------------------------------
(***************************************************************************)
(* proc_comm.c                                                             *)
(***************************************************************************)

\* A command is not one of the two words the modem and the unlock write.
LEMMA CommandsDiffer ==
  ASSUME NEW t
  PROVE  Cmd(t) # PCOM_CMD_IDLE /\ Cmd(t) # PCOM_CMD_DONE /\ PCOM_CMD_IDLE # PCOM_CMD_DONE
BY DEF Cmd, PCOM_CMD_IDLE, PCOM_CMD_DONE

\* At first nobody calls and the modem is not ready.
LEMMA PcommInitInv == PcommInit => PcommInv
<1> SUFFICES ASSUME PcommInit PROVE PcommInv
  OBVIOUS
<1>1. /\ proc_comm_lock \in BOOLEAN /\ irq \in BOOLEAN /\ ~ irq
      /\ reset_called \in BOOLEAN /\ overtaken = {}
  BY DEF PcommInit
<1>2. PcommTypeOK /\ \A t \in Clients : call[t] = "idle"
  BY <1>1 DEF PcommInit, PcommTypeOK
<1>3. \A t \in Callers : t \in Clients
  BY DEF Clients
<1>4. \A x \in Resetters : x \in Clients
  BY DEF Clients
<1> QED BY <1>1, <1>2, <1>3, <1>4
        DEF PcommInit, PcommInv, OneInside, Inside, ModemBusy, AnswerIsOwn, WordsAreOwn

\* A client gets in: it is overtaken, or the modem is at rest and no reset is late.
LEMMA EnterInv ==
  ASSUME ProcCommAssumption, PcommInv, NEW t \in Clients, spin_lock_irqsave(t)
  PROVE  PcommInv'
<1> USE DEF PcommInv, PcommTypeOK, OneInside, Inside
<1>1. /\ call[t] = "idle" /\ call'[t] = "ready" /\ \A u \in Clients : u # t => call'[u] = call[u]
      /\ \A u \in Clients : ~ Inside(u)
      /\ UNCHANGED <<words, irq, result, modem>>
  BY DEF spin_lock_irqsave, CallGoto
<1>2. PcommTypeOK' /\ OneInside'
  <2>1. reset_called' \in BOOLEAN /\ proc_comm_lock' \in BOOLEAN /\ proc_comm_lock'
    BY DEF spin_lock_irqsave
  <2>2. irq' \in BOOLEAN /\ mpc' \in {"idle", "answer", "done"} /\ result' = [u \in Callers |-> result'[u]]
    BY <1>1 DEF modem
  <2>3. overtaken' \subseteq Clients
    BY DEF spin_lock_irqsave, Overtakes
  <2>4. call' \in [Clients -> {"idle", "ready", "data", "notify", "wait", "leave", "returned",
                              "late", "dead"}]
    BY DEF spin_lock_irqsave, CallGoto
  <2>5. OneInside'
    BY <1>1, <2>1
  <2> QED BY <2>1, <2>2, <2>3, <2>4, <2>5
<1>3. /\ overtaken \subseteq overtaken' /\ overtaken' \subseteq overtaken \cup {t}
      /\ t \notin overtaken' => ~ irq /\ mpc = "idle" /\ \A x \in Resetters : call[x] # "late"
      /\ ~ reset_called' => ~ reset_called /\ t \in Callers
  BY DEF spin_lock_irqsave, Overtakes, Outstanding, Clients
<1>4. ~ reset_called => ~ Outstanding
  <2>1. \A u \in Callers : call[u] \notin {"wait", "dead"}
    BY <1>1 DEF Clients
  <2> QED BY <2>1 DEF ModemBusy, Outstanding
<1>5. ModemBusy'
  BY <1>1, <1>3, <1>4 DEF ModemBusy, Outstanding, Clients, ProcCommAssumption, modem
<1>6. AnswerIsOwn'
  BY <1>1, <1>3, <1>4 DEF AnswerIsOwn, Clients, spin_lock_irqsave, Overtakes
<1>7. ASSUME NEW u \in Callers \ overtaken' PROVE WordsAreOwn(u)'
  BY <1>1, <1>3, <1>7 DEF WordsAreOwn, Clients, words, modem
<1> QED BY <1>2, <1>5, <1>6, <1>7

\* A caller goes, and a client that resets the modem unlocks and notifies.
LEMMA LeaveInv ==
  ASSUME ProcCommAssumption, PcommInv
  PROVE  /\ \A t \in Callers : spin_unlock_irqrestore(t) \/ caller_goes(t) => PcommInv'
         /\ \A x \in Resetters : reset_unlock(x) \/ reset_notify(x) => PcommInv'
<1> USE DEF PcommInv, PcommTypeOK, OneInside, Inside, ModemBusy, AnswerIsOwn, WordsAreOwn, CallGoto,
            Clients, words, modem, history
<1>1. ASSUME NEW t \in Callers, spin_unlock_irqrestore(t) PROVE PcommInv'
  <2>1. /\ call[t] = "leave" /\ call' = [call EXCEPT ![t] = "returned"]
        /\ APP_COMMAND' = PCOM_CMD_IDLE /\ proc_comm_lock' = FALSE
        /\ UNCHANGED <<APP_DATA, irq, result, mpc, mcmd, reset_called, overtaken>>
    BY <1>1 DEF spin_unlock_irqrestore
  <2>2. \A u \in Clients : u # t => ~ Inside(u)
    BY <2>1
  <2>3. PcommTypeOK' /\ OneInside'
    BY <2>1, <2>2
  <2>4. ModemBusy'
    BY <2>1
  <2>5. AnswerIsOwn'
    BY <2>1
  <2>6. \A u \in Callers \ overtaken' : WordsAreOwn(u)'
    BY <2>1, <2>2
  <2> QED BY <2>3, <2>4, <2>5, <2>6
<1>2. ASSUME NEW t \in Callers, caller_goes(t) PROVE PcommInv'
  BY <1>2 DEF caller_goes
<1>3. ASSUME NEW x \in Resetters, reset_unlock(x) PROVE PcommInv'
  <2>1. /\ call[x] = "notify" /\ call' = [call EXCEPT ![x] = "late"]
        /\ proc_comm_lock' = FALSE /\ x \notin Callers
        /\ UNCHANGED <<APP_COMMAND, APP_DATA, irq, result, mpc, mcmd, reset_called, overtaken>>
    BY <1>3 DEF reset_unlock, ProcCommAssumption
  <2>2. \A u \in Clients : u # x => ~ Inside(u)
    BY <2>1
  <2>3. PcommTypeOK' /\ OneInside'
    BY <2>1, <2>2
  <2>4. ModemBusy'
    BY <2>1
  <2>5. AnswerIsOwn'
    BY <2>1
  <2>6. \A u \in Callers \ overtaken' : WordsAreOwn(u)'
    BY <2>1, <2>2
  <2> QED BY <2>3, <2>4, <2>5, <2>6
<1>4. ASSUME NEW x \in Resetters, reset_notify(x) PROVE PcommInv'
  BY <1>4 DEF reset_notify, ProcCommAssumption
<1> QED BY <1>1, <1>2, <1>3, <1>4

\* The steps of the client inside.
LEMMA InsideInv ==
  ASSUME ProcCommAssumption, PcommInv, NEW t \in Clients,
         handle_modem_crash(t) \/ write_command(t) \/ write_data(t)
  PROVE  PcommInv'
<1> USE CommandsDiffer
    DEF PcommInv, PcommTypeOK, OneInside, Inside, ModemBusy, AnswerIsOwn, WordsAreOwn, CallGoto,
        Clients, words, modem, history
<1>1. CASE handle_modem_crash(t)
  BY <1>1 DEF handle_modem_crash, ProcCommAssumption
<1>2. CASE write_command(t)
  BY <1>2 DEF write_command
<1>3. CASE write_data(t)
  BY <1>3 DEF write_data
<1> QED BY <1>1, <1>2, <1>3

\* The caller notifies the modem and takes its answer.
LEMMA AnswerInv ==
  ASSUME ProcCommAssumption, PcommInv, NEW t \in Callers,
         notify_other_proc_comm(t) \/ wait_done(t)
  PROVE  PcommInv'
<1> USE CommandsDiffer
    DEF PcommInv, PcommTypeOK, OneInside, Inside, ModemBusy, AnswerIsOwn, WordsAreOwn, CallGoto,
        Clients, words, modem, history
<1>1. CASE notify_other_proc_comm(t)
  BY <1>1 DEF notify_other_proc_comm
<1>2. CASE wait_done(t)
  BY <1>2 DEF wait_done
<1> QED BY <1>1, <1>2

\* The steps of the modem, which crashes between any two of them.
LEMMA ModemInv ==
  ASSUME ProcCommAssumption, PcommInv, Modem \/ modem_crashes
  PROVE  PcommInv'
<1> USE CommandsDiffer
    DEF PcommInv, PcommTypeOK, OneInside, Inside, ModemBusy, AnswerIsOwn, WordsAreOwn,
        Clients, words, modem, history
<1>1. CASE modem_ready
  BY <1>1 DEF modem_ready
<1>2. CASE modem_interrupt
  BY <1>2 DEF modem_interrupt
<1>3. CASE modem_answer
  BY <1>3 DEF modem_answer
<1>4. CASE modem_done
  BY <1>4 DEF modem_done
<1>5. CASE modem_crashes
  BY <1>5 DEF modem_crashes
<1>6. CASE modem_restarts
  BY <1>6 DEF modem_restarts
<1>7. CASE modem_resets
  BY <1>7 DEF modem_resets
<1> QED BY <1>1, <1>2, <1>3, <1>4, <1>5, <1>6, <1>7 DEF Modem

\* Every step of clients and modem keeps the invariant.
LEMMA PcommNextInv ==
  ASSUME ProcCommAssumption, PcommInv, [PcommNext]_pcommVars
  PROVE  PcommInv'
<1>1. CASE UNCHANGED pcommVars
  BY <1>1 DEF pcommVars, PcommInv, PcommTypeOK, OneInside, Inside, ModemBusy, AnswerIsOwn,
     WordsAreOwn, words, modem, history
<1>2. \A t \in Callers : t \in Clients
  BY DEF Clients
<1>3. \A x \in Resetters : x \in Clients
  BY DEF Clients
<1> QED BY <1>1, <1>2, <1>3, EnterInv, LeaveInv, InsideInv, AnswerInv, ModemInv
        DEF PcommNext, Calling, Resetting

\* msm_proc_comm: for any number of callers, and a modem that crashes and
\* restarts at any moment, an answer that is returned is the one to the
\* caller's own command and data, unless the caller took the lock before the
\* modem was done with an msm_proc_comm_reset_modem_now, which any number of
\* others may call.
THEOREM AnswerAlwaysOwn ==
  ASSUME ProcCommAssumption
  PROVE  PcommSpec => []AnswerIsOwn
<1>1. PcommInv => AnswerIsOwn
  BY DEF PcommInv
<1>2. PcommInv /\ [PcommNext]_pcommVars => PcommInv'
  BY PcommNextInv
<1> QED BY <1>1, <1>2, PcommInitInv, PTL DEF PcommSpec
-----------------------------------------------------------------------------
(***************************************************************************)
(* smd.c: the ring.                                                        *)
(***************************************************************************)

\* The remainder by the size of the ring, of what is at most one lap off.
LEMMA Remainder ==
  ASSUME NEW n \in Nat \ {0}, NEW x \in -n .. n + n - 1
  PROVE  x % n = IF x < 0 THEN x + n ELSE IF x < n THEN x ELSE x - n
<1>1. CASE x < 0
  BY <1>1, Z3
<1>2. CASE x \in 0 .. n - 1
  BY <1>2, Z3
<1>3. CASE x >= n
  BY <1>3, Z3
<1> QED BY <1>1, <1>2, <1>3

\* The smaller of two numbers.
LEMMA MinOfTwo ==
  ASSUME NEW a \in Int, NEW b \in Int
  PROVE  /\ Min({a, b}) \in Int
         /\ Min({a, b}) <= a /\ Min({a, b}) <= b
         /\ Min({a, b}) = a \/ Min({a, b}) = b
<1> DEFINE IsMin(x) == x \in {a, b} /\ \A y \in {a, b} : x =< y
<1>1. IsMin(a) \/ IsMin(b)
  OBVIOUS
<1>2. IsMin(CHOOSE x : IsMin(x))
  BY <1>1
<1> QED BY <1>2 DEF Min

\* The lesser of two lengths is one that both allow.
LEMMA MinOfNats ==
  ASSUME NEW a \in Nat, NEW b \in Nat
  PROVE  Min({a, b}) \in Nat /\ Min({a, b}) <= a /\ Min({a, b}) <= b
<1>0. a \in Int /\ b \in Int
  OBVIOUS
<1>1. PICK m : m = Min({a, b})
  OBVIOUS
<1>2. m <= a /\ m <= b /\ (m = a \/ m = b)
  BY <1>0, <1>1, MinOfTwo, Zenon
<1>3. m \in Nat
  BY <1>2
<1> QED BY <1>1, <1>2, <1>3

\* The numbers of the ring.
LEMMA RingNumbers ==
  ASSUME SmdFifoAssumption, SmdTypeOK, RingInv
  PROVE  /\ FifoSize \in Nat \ {0} /\ head \in 0 .. FifoSize - 1 /\ tail \in 0 .. FifoSize - 1
         /\ written \in Nat /\ taken \in Nat /\ Copied \in Nat
         /\ taken <= written /\ written + Copied - taken <= FifoSize - 1
         /\ head - tail = written - taken \/ head - tail = written - taken - FifoSize
<1>1. FifoSize \in Nat \ {0}
  BY DEF SmdFifoAssumption
<1>2. Copied \in Nat
  BY DEF SmdTypeOK, Copied
<1> QED BY <1>1, <1>2 DEF SmdTypeOK, RingInv

\* What the driver computes from head and tail is the number of bytes written
\* and not taken.
LEMMA AvailExact ==
  ASSUME SmdFifoAssumption, SmdTypeOK, RingInv
  PROVE  smd_stream_read_avail = written - taken
<1>1. head - tail \in -FifoSize .. FifoSize + FifoSize - 1 /\ head - tail < FifoSize
  BY RingNumbers
<1>2. (head - tail) % FifoSize = IF head - tail < 0 THEN head - tail + FifoSize
                                 ELSE IF head - tail < FifoSize THEN head - tail
                                 ELSE head - tail - FifoSize
  BY <1>1, RingNumbers, Remainder
<1> QED BY <1>1, <1>2, RingNumbers DEF smd_stream_read_avail

\* A pointer that moves on, at most to the end of the ring or behind it.
LEMMA Advance ==
  ASSUME SmdFifoAssumption, NEW p \in 0 .. FifoSize - 1, NEW x \in 0 .. FifoSize
  PROVE  (p + x) % FifoSize = IF p + x < FifoSize THEN p + x ELSE p + x - FifoSize
<1>1. FifoSize \in Nat \ {0}
  BY DEF SmdFifoAssumption
<1>2. PICK y \in Int : y = p + x
  BY <1>1
<1>3. y \in -FifoSize .. FifoSize + FifoSize - 1 /\ ~ (y < 0)
  BY <1>1, <1>2
<1>4. y % FifoSize = IF y < FifoSize THEN y ELSE y - FifoSize
  BY <1>1, <1>3, Remainder
<1> QED BY <1>1, <1>2, <1>4

\* At first the ring is empty.
LEMMA FifoInitInv ==
  ASSUME SmdFifoAssumption
  PROVE  FifoInit => FifoInv
<1> SUFFICES ASSUME FifoInit PROVE FifoInv
  OBVIOUS
<1>1. SmdTypeOK
  BY DEF SmdFifoAssumption, FifoInit, SmdTypeOK
<1>2. RingInv
  BY DEF SmdFifoAssumption, FifoInit, RingInv, Copied
<1>3. ReaderInv
  BY DEF SmdFifoAssumption, FifoInit, ReaderInv
<1>4. WriterInv /\ PacketAligned
  BY DEF FifoInit, WriterInv, PacketAligned, EndOf, Left
<1> QED BY <1>1, <1>2, <1>3, <1>4 DEF FifoInv

\* A function on the first numbers is a sequence.
LEMMA FunctionIsSequence ==
  ASSUME NEW S, NEW m \in Nat, NEW f \in [1 .. m -> S]
  PROVE  f \in Seq(S) /\ Len(f) = m
OBVIOUS

\* The elements of a sequence.
LEMMA ElementInSet ==
  ASSUME NEW S, NEW s \in Seq(S), NEW k \in 1 .. Len(s)
  PROVE  s[k] \in S
OBVIOUS

\* The packets begun, and where they end.
LEMMA PacketsBegun ==
  ASSUME SmdFifoAssumption, SmdTypeOK
  PROVE  /\ Len(sent) \in Nat /\ DOMAIN sent = 1 .. Len(sent)
         /\ \A k \in 1 .. Len(sent) : sent[k].at \in Nat /\ sent[k].len \in Lens /\ sent[k].len \in Nat
         /\ \A k \in 0 .. Len(sent) : EndOf(k) \in Nat
<1>1. sent \in Seq([at : Nat, len : Lens])
  BY DEF SmdTypeOK
<1>2. Len(sent) \in Nat /\ DOMAIN sent = 1 .. Len(sent)
  BY <1>1
<1>3. ASSUME NEW k \in 1 .. Len(sent)
      PROVE  sent[k].at \in Nat /\ sent[k].len \in Lens /\ sent[k].len \in Nat
  <2>1. sent[k] \in [at : Nat, len : Lens]
    BY <1>1, ElementInSet
  <2> QED BY <2>1 DEF SmdFifoAssumption
<1>4. ASSUME NEW k \in 0 .. Len(sent)
      PROVE  EndOf(k) \in Nat
  <2>1. CASE k = 0
    BY <2>1 DEF EndOf
  <2>2. CASE k # 0
    <3>1. k \in 1 .. Len(sent) /\ HeaderSize \in Nat
      BY <1>2, <2>2 DEF SmdFifoAssumption
    <3>2. sent[k].at \in Nat /\ sent[k].len \in Nat
      BY <1>3, <3>1
    <3> QED BY <2>2, <3>1, <3>2 DEF EndOf
  <2> QED BY <2>1, <2>2
<1> QED BY <1>2, <1>3, <1>4

\* A packet that is begun lies behind the last one.
LEMMA PacketBegun ==
  ASSUME SmdFifoAssumption, FifoInv, smd_packet_write
  PROVE  FifoInv'
<1> USE DEF SmdFifoAssumption, FifoInv, shared, readerVars
<1>1. CASE w' = "wait" /\ UNCHANGED <<piece, wlen, sent>>
  BY <1>1 DEF smd_packet_write, SmdTypeOK, RingInv, Copied, ReaderInv, WriterInv, EndOf,
     PacketAligned, Left
<1>2. CASE w' = "copy" /\ sent' = Append(sent, [at |-> EndOf(Len(sent)), len |-> asked])
  <2> USE <1>2 DEF smd_packet_write
  <2>1. piece' = "header" /\ wlen' = HeaderSize
    OBVIOUS
  <2>2. PICK n \in Nat : n = Len(sent)
    BY PacketsBegun
  <2>3. PICK e \in Nat : e = EndOf(n)
    BY <2>2, PacketsBegun
  <2>4. asked \in Lens /\ asked \in Nat /\ asked' = asked
    BY DEF WriterInv
  <2>5. SmdTypeOK'
    BY <2>1, <2>2, <2>3, <2>4 DEF SmdTypeOK
  <2>6. RingInv' /\ ReaderInv'
    BY DEF RingInv, Copied, ReaderInv
  <2>7. DOMAIN sent = 1 .. n /\ DOMAIN sent' = 1 .. n + 1 /\ Len(sent') = n + 1
    BY <2>2, <2>5, PacketsBegun DEF SmdTypeOK
  <2>8. \A k \in 1 .. n : sent'[k] = sent[k]
    BY <2>2, <2>7 DEF SmdTypeOK
  <2>9. sent'[n + 1].at = e /\ sent'[n + 1].len = asked
    BY <2>2, <2>3 DEF SmdTypeOK
  <2>10. \A k \in 0 .. n : EndOf(k)' = EndOf(k)
    BY <2>2, <2>8 DEF EndOf
  <2>11. EndOf(n + 1)' = e + HeaderSize + asked
    BY <2>2, <2>3, <2>9 DEF EndOf
  <2>12. WriterInv'
    <3>1. written \in Nat /\ HeaderSize \in Nat /\ written' = written /\ written <= e
      BY <2>2, <2>3 DEF SmdTypeOK, WriterInv
    <3>2. EndOf(Len(sent))' = e + HeaderSize + asked
      BY <2>7, <2>11
    <3>3. written' + wlen' + asked' <= EndOf(Len(sent))'
      BY <2>1, <2>3, <2>4, <3>1, <3>2
    <3>4. ASSUME NEW k \in 1 .. n + 1
          PROVE  sent'[k].at = EndOf(k - 1)'
      <4>1. CASE k \in 1 .. n
        <5>1. sent[k].at = EndOf(k - 1)
          BY <2>7, <4>1 DEF WriterInv
        <5>2. k - 1 \in 0 .. n
          BY <4>1
        <5> QED BY <2>8, <2>10, <4>1, <5>1, <5>2
      <4>2. CASE k = n + 1
        <5>1. k - 1 = n
          BY <2>2, <4>2
        <5> QED BY <2>2, <2>3, <2>9, <2>10, <4>2, <5>1
      <4> QED BY <2>2, <4>1, <4>2
    <3> QED BY <2>1, <2>4, <2>7, <3>3, <3>4 DEF WriterInv
  <2>13. PacketAligned'
    <3>1. Left' = Left /\ taken' = taken
      BY DEF Left
    <3>2. CASE Left = 0
      <4>1. PICK k \in 0 .. n : taken = EndOf(k)
        BY <2>2, <3>2 DEF PacketAligned
      <4>2. k \in 0 .. n + 1 /\ EndOf(k)' = EndOf(k)
        BY <2>2, <2>10, <4>1
      <4> QED BY <2>7, <3>1, <3>2, <4>1, <4>2 DEF PacketAligned
    <3>3. CASE Left # 0
      <4>1. PICK k \in 1 .. n : taken + Left = EndOf(k) /\ Left <= sent[k].len
        BY <2>7, <3>3 DEF PacketAligned
      <4>2. k \in 1 .. n + 1 /\ EndOf(k)' = EndOf(k) /\ sent'[k] = sent[k]
        BY <2>2, <2>8, <2>10, <4>1
      <4> QED BY <2>7, <3>1, <3>3, <4>1, <4>2 DEF PacketAligned
    <3> QED BY <3>2, <3>3
  <2> QED BY <2>5, <2>6, <2>12, <2>13
<1> QED BY <1>1, <1>2 DEF smd_packet_write

\* The writer copies to cells that hold nothing more to read.
LEMMA PieceCopied ==
  ASSUME SmdFifoAssumption, FifoInv, smd_stream_write
  PROVE  FifoInv'
<1> USE DEF SmdFifoAssumption, FifoInv, readerVars
<1>1. CASE w' = "end" /\ UNCHANGED <<data, xfer>>
  BY <1>1 DEF smd_stream_write, SmdTypeOK, RingInv, Copied, ReaderInv, WriterInv, EndOf,
     PacketAligned, Left
<1>2. CASE /\ xfer' = Min({ch_write_buffer, wlen}) /\ w' = "done"
           /\ ch_write_buffer # 0
           /\ data' = [k \in DOMAIN data |->
                IF k - head \in 0 .. xfer' - 1 THEN written + (k - head) + 1 ELSE data[k]]
  <2> USE <1>2 DEF smd_stream_write
  <2>1. /\ ch_write_buffer \in Nat
        /\ head + ch_write_buffer <= FifoSize
        /\ written + ch_write_buffer - taken <= FifoSize - 1
    BY DEF ch_write_buffer, SmdTypeOK, RingInv, Copied
  <2>2. xfer' \in Nat /\ xfer' <= ch_write_buffer /\ xfer' <= wlen
    <3>1. wlen \in Nat
      BY DEF SmdTypeOK
    <3> QED BY <2>1, <3>1, MinOfTwo
  <2>3. SmdTypeOK'
    BY <2>2 DEF SmdTypeOK
  <2>4. RingInv'
    <3>1. ASSUME NEW k \in 0 .. FifoSize - 1
          PROVE  /\ k - tail \in 0 .. written + xfer' - taken - 1 =>
                      data'[k] = taken + (k - tail) + 1
                 /\ k + FifoSize - tail \in 0 .. written + xfer' - taken - 1 =>
                      data'[k] = taken + (k + FifoSize - tail) + 1
      <4>0. Copied = 0
        BY DEF Copied
      <4>1. CASE k - head \in 0 .. xfer' - 1
        <5>1. data'[k] = written + (k - head) + 1
          BY <4>1 DEF SmdTypeOK
        <5> QED BY <2>1, <2>2, <4>0, <4>1, <5>1, RingNumbers
      <4>2. CASE k - head \notin 0 .. xfer' - 1
        <5>1. data'[k] = data[k]
          BY <4>2 DEF SmdTypeOK
        <5>2. /\ k - tail \in 0 .. written - taken - 1 =>
                    data[k] = taken + (k - tail) + 1
              /\ k + FifoSize - tail \in 0 .. written - taken - 1 =>
                    data[k] = taken + (k + FifoSize - tail) + 1
          BY <4>0 DEF RingInv, SmdTypeOK
        <5>3. /\ k - tail \in 0 .. written + xfer' - taken - 1 =>
                    k - tail \in 0 .. written - taken - 1
              /\ k + FifoSize - tail \in 0 .. written + xfer' - taken - 1 =>
                    k + FifoSize - tail \in 0 .. written - taken - 1
          BY <2>1, <2>2, <4>0, <4>2, RingNumbers
        <5> QED BY <5>1, <5>2, <5>3
      <4> QED BY <4>1, <4>2
    <3>2. Copied' = xfer'
      BY DEF Copied
    <3>3. head + xfer' <= FifoSize /\ written + xfer' - taken <= FifoSize - 1
      BY <2>1, <2>2, RingNumbers
    <3> QED BY <2>2, <3>1, <3>2, <3>3 DEF RingInv
  <2>5. ReaderInv' /\ WriterInv' /\ PacketAligned'
    BY DEF ReaderInv, WriterInv, EndOf, PacketAligned, Left
  <2> QED BY <2>3, <2>4, <2>5
<1> QED BY <1>1, <1>2 DEF smd_stream_write

\* The head moves over what was copied.
LEMMA PiecePublished ==
  ASSUME SmdFifoAssumption, FifoInv, ch_write_done
  PROVE  FifoInv'
<1> USE DEF SmdFifoAssumption, FifoInv, ch_write_done, readerVars
<1>1. xfer \in 0 .. FifoSize /\ head + xfer <= FifoSize /\ xfer <= wlen
  BY DEF SmdTypeOK, RingInv
<1>2. head' = IF head + xfer < FifoSize THEN head + xfer ELSE head + xfer - FifoSize
  BY <1>1, Advance DEF SmdTypeOK
<1>3. SmdTypeOK'
  BY <1>1, <1>2 DEF SmdTypeOK
<1>4. RingInv'
  BY <1>1, <1>2, <1>3 DEF SmdTypeOK, RingInv, Copied
<1>5. ReaderInv' /\ PacketAligned'
  BY DEF SmdTypeOK, ReaderInv, PacketAligned, EndOf, Left
<1>6. WriterInv'
  <2>1. \A k : EndOf(k)' = EndOf(k)
    BY DEF EndOf
  <2>2. written' + wlen' = written + wlen /\ wlen' \in Nat
    BY <1>1 DEF SmdTypeOK
  <2>3. w' = "end" \/ w' = "copy"
    OBVIOUS
  <2> QED BY <2>1, <2>2, <2>3 DEF WriterInv, SmdTypeOK
<1> QED BY <1>3, <1>4, <1>5, <1>6
\* The steps that leave the ring, the packets and what is left to read alone.
LEMMA StepsAside ==
  ASSUME SmdFifoAssumption, FifoInv,
         \/ \E len \in Lens : client_send(len)
         \/ client_retry \/ stream_write_end \/ writer_irq
         \/ handle_smd_irq \/ client_wakes \/ client_waits \/ packet_read_notify
         \/ peer_closes
  PROVE  FifoInv'
<1> USE DEF FifoInv, shared, readerVars, writerVars
<1>1. ASSUME NEW len \in Lens, client_send(len) PROVE FifoInv'
  BY <1>1 DEF client_send, SmdTypeOK, RingInv, Copied, ReaderInv, WriterInv, EndOf, PacketAligned,
     Left
<1>2. CASE client_retry
  BY <1>2 DEF client_retry, SmdTypeOK, RingInv, Copied, ReaderInv, WriterInv, EndOf,
     PacketAligned, Left
<1>3. CASE stream_write_end
  <2>1. SmdTypeOK'
    BY <1>3 DEF stream_write_end, SmdTypeOK, SmdFifoAssumption
  <2>2. RingInv' /\ ReaderInv' /\ PacketAligned'
    BY <1>3 DEF stream_write_end, RingInv, Copied, ReaderInv, EndOf, PacketAligned, Left
  <2>3. WriterInv'
    <3>1. \A k : EndOf(k)' = EndOf(k)
      BY <1>3 DEF stream_write_end, EndOf
    <3>2. /\ sent' = sent /\ written' = written /\ asked' = asked
          /\ asked \in Lens /\ asked \in Nat /\ written \in Nat /\ wlen \in Nat
          /\ EndOf(Len(sent)) \in Nat
      BY <1>3, PacketsBegun, SMTT(40) DEF stream_write_end, SmdTypeOK, WriterInv, SmdFifoAssumption
    <3>3. CASE piece = "header" /\ wlen = 0
      <4>1. w' = "copy" /\ piece' = "data" /\ wlen' = asked
        BY <1>3, <3>3 DEF stream_write_end
      <4>2. written + wlen + asked <= EndOf(Len(sent))
        BY <1>3, <3>3 DEF stream_write_end, WriterInv
      <4> QED BY <3>1, <3>2, <3>3, <4>1, <4>2 DEF WriterInv
    <3>4. CASE ~ (piece = "header" /\ wlen = 0)
      <4>1. w' = "idle"
        BY <1>3, <3>4 DEF stream_write_end
      <4>2. written <= EndOf(Len(sent))
        BY <1>3, <3>2 DEF stream_write_end, WriterInv
      <4> QED BY <3>1, <3>2, <4>1, <4>2 DEF WriterInv
    <3> QED BY <3>3, <3>4
  <2> QED BY <2>1, <2>2, <2>3
<1>4. CASE writer_irq
  BY <1>4 DEF writer_irq, SmdTypeOK, RingInv, Copied, ReaderInv, WriterInv, EndOf,
     PacketAligned, Left
<1>5. CASE handle_smd_irq
  BY <1>5 DEF handle_smd_irq, SmdTypeOK, RingInv, Copied, ReaderInv, WriterInv, EndOf,
     PacketAligned, Left
<1>6. CASE client_wakes \/ client_waits
  BY <1>6 DEF client_wakes, client_waits, SmdTypeOK, RingInv, Copied, ReaderInv, WriterInv,
     EndOf, PacketAligned, Left
<1>7. CASE packet_read_notify
  BY <1>7 DEF packet_read_notify, SmdTypeOK, RingInv, Copied, ReaderInv, WriterInv, EndOf,
     PacketAligned, Left
<1>8. CASE peer_closes
  BY <1>8 DEF peer_closes, SmdTypeOK, RingInv, Copied, ReaderInv, WriterInv, EndOf,
     PacketAligned, Left
<1> QED BY <1>1, <1>2, <1>3, <1>4, <1>5, <1>6, <1>7, <1>8

\* A read begins in a packet.
LEMMA ReadBegun ==
  ASSUME SmdFifoAssumption, FifoInv, NEW len \in Lens, smd_packet_read(len)
  PROVE  FifoInv'
<1>0. SmdTypeOK /\ RingInv
  BY DEF FifoInv
<1>1. smd_stream_read_avail \in Nat
  BY <1>0, AvailExact, RingNumbers
<1>2. current_packet \in Nat /\ len \in Nat
  BY <1>0 DEF SmdTypeOK, SmdFifoAssumption
<1>3. current_packet > 0
  <2>1. smd_packet_read_avail > 0
    BY DEF smd_packet_read
  <2>2. smd_packet_read_avail \in Nat /\ smd_packet_read_avail <= current_packet
    BY <1>1, <1>2, MinOfNats, Zenon DEF smd_packet_read_avail
  <2> QED BY <1>2, <2>1, <2>2
<1>4. rlen' \in Nat /\ rlen' <= current_packet /\ rgot' = 0 /\ current_packet' = current_packet
  <2>1. Min({len, current_packet}) \in Nat /\ Min({len, current_packet}) <= current_packet
    BY <1>2, MinOfNats, Zenon
  <2> QED BY <2>1 DEF smd_packet_read
<1> USE DEF FifoInv, smd_packet_read, shared, writerVars
<1>5. SmdTypeOK'
  BY <1>4 DEF SmdTypeOK
<1>6. RingInv' /\ WriterInv'
  BY DEF RingInv, Copied, WriterInv, EndOf
<1>7. rbuf = <<>> /\ rbuf' = <<>> /\ r' = "read"
  BY DEF ReaderInv
<1>8. ReaderInv'
  <2>1. Len(rbuf') = 0 /\ written' = written /\ taken' = taken /\ tail' = tail
    BY <1>7
  <2> QED BY <1>3, <1>4, <1>7, <2>1, RingNumbers DEF ReaderInv
<1>9. Left' = Left /\ taken' = taken
  BY <1>2, <1>4 DEF Left
<1>10. PacketAligned'
  BY <1>9 DEF PacketAligned, EndOf
<1> QED BY <1>5, <1>6, <1>8, <1>10

\* The reader copies from cells that the writer leaves alone.
LEMMA PieceRead ==
  ASSUME SmdFifoAssumption, FifoInv, ch_read
  PROVE  FifoInv'
<1> USE DEF FifoInv, ch_read, shared, writerVars
<1>1. RingInv' /\ WriterInv'
  BY DEF RingInv, Copied, WriterInv, EndOf
<1>2. PacketAligned'
  BY DEF PacketAligned, Left, EndOf
<1>3. CASE r' = "end" /\ UNCHANGED rbuf
  <2>1. rbuf = <<>>
    BY DEF ReaderInv
  <2>2. SmdTypeOK'
    BY <1>3 DEF SmdTypeOK
  <2>3. rgot <= current_packet
    BY DEF ReaderInv, SmdTypeOK
  <2>4. ReaderInv'
    BY <1>3, <2>1, <2>3 DEF ReaderInv
  <2> QED BY <1>1, <1>2, <2>2, <2>4
<1>4. CASE /\ r' = "done"
           /\ rbuf' = [k \in 1 .. Min({ch_read_buffer, rlen}) |-> data[tail + k - 1]]
  <2>1. ch_read_buffer \in Nat /\ ch_read_buffer <= written - taken /\ tail + ch_read_buffer <= FifoSize
    BY RingNumbers, SMTT(40) DEF ch_read_buffer
  <2>2. rlen \in Nat
    BY DEF SmdTypeOK
  <2>3. PICK m : /\ m = Min({ch_read_buffer, rlen})
                 /\ m \in Nat /\ m <= ch_read_buffer /\ m <= rlen
    BY <2>1, <2>2, MinOfNats, Zenon
  <2>4. m <= rlen /\ m <= written - taken /\ tail + m <= FifoSize
    BY <2>1, <2>2, <2>3, RingNumbers, SMTT(40)
  <2>5. \A k \in 1 .. m : data[tail + k - 1] = taken + k
    <3> TAKE k \in 1 .. m
    <3> DEFINE j == tail + k - 1
    <3>1. j \in 0 .. FifoSize - 1 /\ j - tail \in 0 .. written + Copied - taken - 1
      <4>1. /\ tail \in Nat /\ written \in Nat /\ taken \in Nat /\ Copied \in Nat
            /\ FifoSize \in Nat
        BY RingNumbers
      <4>2. k \in Nat /\ 1 <= k /\ k <= m
        BY <2>3
      <4>3. tail + k - 1 \in 0 .. FifoSize - 1
        BY <2>3, <2>4, <4>1, <4>2
      <4>4. (tail + k - 1) - tail \in 0 .. written + Copied - taken - 1
        BY <2>3, <2>4, <4>1, <4>2
      <4> QED BY <4>3, <4>4
    <3>2. j - tail + 1 = k
      BY <2>3, RingNumbers
    <3> HIDE DEF j
    <3>3. data[j] = taken + (j - tail) + 1
      BY <3>1 DEF RingInv
    <3>4. data[j] = taken + k
      BY <3>1, <3>2, <3>3, RingNumbers
    <3> QED BY <3>4 DEF j
  <2>6. \A k \in 1 .. m : taken + k \in Nat
    BY <2>3, RingNumbers
  <2>7. /\ rbuf' \in [1 .. m -> Nat]
        /\ \A k \in 1 .. m : rbuf'[k] = taken + k
    <3>1. rbuf' = [k \in 1 .. m |-> data[tail + k - 1]]
      BY <1>4, <2>3
    <3>2. rbuf' = [k \in 1 .. m |-> taken + k]
      BY <2>5, <3>1, Zenon
    <3> QED BY <2>6, <3>2, Zenon
  <2>8. rbuf' \in Seq(Nat) /\ Len(rbuf') = m
    BY <2>3, <2>7, FunctionIsSequence
  <2>9. SmdTypeOK'
    BY <1>4, <2>8 DEF SmdTypeOK
  <2>10. ReaderInv'
    <3>1. current_packet > 0 /\ rgot + rlen <= current_packet
      BY DEF ReaderInv
    <3> QED BY <1>4, <2>4, <2>7, <2>8, <3>1 DEF ReaderInv
  <2> QED BY <1>1, <1>2, <2>9, <2>10
<1> QED BY <1>3, <1>4
\* The tail moves on over bytes that are in the ring: the rest stays where it is.
LEMMA TailMoved ==
  ASSUME SmdFifoAssumption, SmdTypeOK, RingInv, NEW x \in Nat, x <= written - taken,
         tail' = (tail + x) % FifoSize, taken' = taken + x,
         UNCHANGED <<head, data, w, wlen, xfer, written>>
  PROVE  RingInv' /\ tail' \in 0 .. FifoSize - 1 /\ taken' \in Nat
<1>1. x \in 0 .. FifoSize
  BY RingNumbers
<1>2. tail' = IF tail + x < FifoSize THEN tail + x ELSE tail + x - FifoSize
  BY <1>1, Advance, RingNumbers
<1>3. tail' \in 0 .. FifoSize - 1 /\ taken' \in Nat
  BY <1>1, <1>2, RingNumbers
<1>4. Copied' = Copied
  BY DEF Copied
<1>5. /\ taken' <= written' /\ written' + Copied' - taken' <= FifoSize - 1
      /\ head' - tail' = written' - taken' \/ head' - tail' = written' - taken' - FifoSize
  BY <1>1, <1>2, <1>4, RingNumbers, SMTT(40)
<1>6. ASSUME NEW k \in 0 .. FifoSize - 1
      PROVE  /\ k - tail' \in 0 .. written' + Copied' - taken' - 1 =>
                  data'[k] = taken' + (k - tail') + 1
             /\ k + FifoSize - tail' \in 0 .. written' + Copied' - taken' - 1 =>
                  data'[k] = taken' + (k + FifoSize - tail') + 1
  <2>1. /\ k - tail \in 0 .. written + Copied - taken - 1 =>
             data[k] = taken + (k - tail) + 1
        /\ k + FifoSize - tail \in 0 .. written + Copied - taken - 1 =>
             data[k] = taken + (k + FifoSize - tail) + 1
    BY DEF RingInv
  <2>2. data'[k] = data[k] /\ written' = written
    OBVIOUS
  <2>3. CASE tail + x < FifoSize
    <3>1. tail' = tail + x
      BY <1>2, <2>3
    <3>2. k - tail' \in 0 .. written' + Copied' - taken' - 1 =>
            /\ k - tail \in 0 .. written + Copied - taken - 1
            /\ taken' + (k - tail') + 1 = taken + (k - tail) + 1
      BY <1>1, <1>4, <2>2, <3>1, RingNumbers
    <3>3. k + FifoSize - tail' \in 0 .. written' + Copied' - taken' - 1 =>
            /\ k + FifoSize - tail \in 0 .. written + Copied - taken - 1
            /\ taken' + (k + FifoSize - tail') + 1 = taken + (k + FifoSize - tail) + 1
      BY <1>1, <1>4, <2>2, <3>1, RingNumbers
    <3> QED BY <2>1, <2>2, <3>2, <3>3
  <2>4. CASE ~ (tail + x < FifoSize)
    BY <1>1, <1>2, <1>4, <2>1, <2>2, <2>4, RingNumbers
  <2> QED BY <2>3, <2>4
<1>7. w' = "done" => xfer' <= wlen' /\ head' + xfer' <= FifoSize
  BY DEF RingInv
<1> QED BY <1>3, <1>5, <1>6, <1>7 DEF RingInv

\* With nothing in its hands the reader keeps its part of the invariant.
LEMMA NothingInHand ==
  ASSUME NEW n \in Nat, NEW f \in Nat, NEW h \in Nat, f <= n, h <= FifoSize, FifoSize \in Nat,
         written' = n, taken' = f, tail' = h, rbuf' = <<>>, NEW l \in Nat, rlen' = l,
         \/ r' \in {"wait", "check"}
         \/ r' = "read" /\ current_packet' > 0 /\ rgot' + rlen' <= current_packet'
  PROVE  ReaderInv'
<1>1. Len(rbuf') = 0
  OBVIOUS
<1>2. 0 <= n - f /\ h + 0 <= FifoSize /\ 0 <= l
  OBVIOUS
<1>3. Len(rbuf') <= written' - taken' /\ tail' + Len(rbuf') <= FifoSize /\ Len(rbuf') <= rlen'
  BY <1>1, <1>2, Zenon
<1>4. \A k \in 1 .. Len(rbuf') : rbuf'[k] = taken' + k
  BY <1>1
<1> QED BY <1>3, <1>4 DEF ReaderInv

\* The reader gives the cells back that it has copied.
LEMMA PieceTaken ==
  ASSUME SmdFifoAssumption, FifoInv, ch_read_done
  PROVE  FifoInv'
<1> USE DEF ch_read_done, writerVars
<1>1. SmdTypeOK /\ RingInv /\ ReaderInv /\ WriterInv /\ PacketAligned
  BY DEF FifoInv
<1>2. PICK n \in Nat : n = Len(rbuf)
  BY <1>1 DEF SmdTypeOK
<1>3. n <= written - taken /\ n <= rlen /\ rgot + rlen <= current_packet /\ current_packet > 0
  BY <1>1, <1>2 DEF ReaderInv
<1>4. RingInv' /\ tail' \in 0 .. FifoSize - 1 /\ taken' \in Nat
  BY <1>1, <1>2, <1>3, TailMoved
<1>5. /\ rlen \in Nat /\ rgot \in Nat /\ current_packet \in Nat /\ taken \in Nat
      /\ rlen' = rlen - n /\ rgot' = rgot + n /\ taken' = taken + n
      /\ current_packet' = current_packet
  BY <1>1, <1>2 DEF SmdTypeOK
<1>6. rlen' \in Nat /\ rgot' \in Nat /\ rgot' + rlen' <= current_packet'
  BY <1>2, <1>3, <1>5
<1>7. rbuf' = <<>> /\ r' = "read" /\ Len(rbuf') = 0
  OBVIOUS
<1>8. SmdTypeOK'
  BY <1>1, <1>4, <1>5, <1>6, <1>7 DEF SmdTypeOK
<1> HIDE DEF ch_read_done
<1>9. ReaderInv'
  <2>1. written' = written /\ written \in Nat /\ FifoSize \in Nat /\ taken + n <= written
    BY <1>1, <1>2, <1>3, RingNumbers DEF ch_read_done
  <2>2. PICK h \in Nat : h = tail' /\ h <= FifoSize
    BY <1>4, <2>1
  <2>3. PICK f \in Nat : f = taken' /\ f <= written
    BY <1>2, <1>5, <2>1
  <2>4. rlen - n \in Nat /\ rlen' = rlen - n
    BY <1>2, <1>3, <1>5
  <2> QED BY <1>3, <1>5, <1>6, <1>7, <2>1, <2>2, <2>3, <2>4, NothingInHand
<1>10. WriterInv'
  BY <1>1 DEF WriterInv, EndOf, ch_read_done
<1>11. PacketAligned'
  <2>1. \A k : EndOf(k)' = EndOf(k)
    BY DEF EndOf, ch_read_done
  <2>0. Left = current_packet - rgot /\ Left' = current_packet - rgot - n
    <3>1. r = "done"
      BY DEF ch_read_done
    <3> QED BY <1>2, <1>5, <1>7, <3>1 DEF Left
  <2>2. PICK l \in Nat : l = Left
    BY <1>2, <1>3, <1>5, <2>0
  <2>3. PICK l2 \in Nat : l2 = Left' /\ taken + n + l2 = taken + l /\ l2 <= l
    <3>1. current_packet - rgot - n \in Nat
      BY <1>2, <1>3, <1>5
    <3>2. taken + n + (current_packet - rgot - n) = taken + l /\ current_packet - rgot - n <= l
      BY <1>2, <1>3, <1>5, <2>0, <2>2
    <3> QED BY <2>0, <3>1, <3>2
  <2>4. Len(sent) \in Nat /\ DOMAIN sent = 1 .. Len(sent) /\ sent' = sent
    BY <1>1, PacketsBegun DEF ch_read_done
  <2>5. CASE l = 0
    <3>1. l2 = 0 /\ n = 0
      BY <1>2, <1>5, <2>2, <2>3, <2>5
    <3>2. taken' = taken
      BY <1>5, <3>1
    <3> QED BY <1>1, <2>1, <2>2, <2>3, <2>4, <2>5, <3>1, <3>2 DEF PacketAligned
  <2>6. CASE l # 0
    <3>1. PICK k \in 1 .. Len(sent) : taken + l = EndOf(k) /\ l <= sent[k].len
      BY <1>1, <2>2, <2>4, <2>6 DEF PacketAligned
    <3>2. CASE l2 = 0
      <4>1. taken' = EndOf(k) /\ k \in 0 .. Len(sent)
        BY <1>2, <1>5, <2>2, <2>3, <2>4, <3>1, <3>2
      <4> QED BY <2>1, <2>3, <2>4, <3>2, <4>1 DEF PacketAligned
    <3>3. CASE l2 # 0
      <4>1. sent[k].len \in Nat
        BY <1>1, <3>1, PacketsBegun
      <4>2. taken' + l2 = EndOf(k) /\ l2 <= sent[k].len
        <5>1. taken + n + l2 = EndOf(k)
          BY <2>3, <3>1
        <5>2. l2 <= sent[k].len
          BY <2>2, <2>3, <3>1, <4>1
        <5> QED BY <1>5, <5>1, <5>2
      <4> QED BY <2>1, <2>3, <2>4, <3>1, <3>3, <4>2 DEF PacketAligned
    <3> QED BY <3>2, <3>3
  <2> QED BY <2>5, <2>6
<1> QED BY <1>4, <1>8, <1>9, <1>10, <1>11 DEF FifoInv

\* The reader takes a header for the next packet only where there is one, whole,
\* and then knows where the packet ends.
LEMMA HeaderTaken ==
  ASSUME SmdFifoAssumption, FifoInv, NEW p \in Nat, Left = p, rbuf = <<>>,
         update_packet_state(p, taken), r' \in {"wait", "check"},
         UNCHANGED <<head, data, writerVars, rlen, rgot, rbuf>>
  PROVE  FifoInv'
<1> USE DEF writerVars
<1>1. SmdTypeOK /\ RingInv /\ ReaderInv /\ WriterInv /\ PacketAligned
  BY DEF FifoInv
<1>2. \A k : EndOf(k)' = EndOf(k)
  BY DEF EndOf
<1>3. PICK n \in Nat : n = Len(sent) /\ DOMAIN sent = 1 .. n /\ n = Len(sent')
  BY <1>1, PacketsBegun
<1>4. WriterInv'
  BY <1>1, <1>2 DEF WriterInv
<1>5. HeaderSize \in Nat \ {0}
  BY DEF SmdFifoAssumption
<1>6. CASE p = 0 /\ smd_stream_read_avail >= HeaderSize
  <2>1. /\ tail' = (tail + HeaderSize) % FifoSize /\ taken' = taken + HeaderSize
        /\ current_packet' = IF HeaderAt(data[tail] - 1) THEN PacketLen(data[tail] - 1) ELSE 0
    BY <1>6 DEF update_packet_state
  <2>2. HeaderSize <= written - taken
    <3>1. smd_stream_read_avail = written - taken
      BY <1>1, AvailExact
    <3> QED BY <1>1, <1>5, <1>6, <3>1, RingNumbers
  <2>3. RingInv' /\ tail' \in 0 .. FifoSize - 1 /\ taken' \in Nat
    BY <1>1, <1>5, <2>1, <2>2, TailMoved
  <2>4. data[tail] - 1 = taken
    <3>1. tail \in 0 .. FifoSize - 1 /\ tail - tail \in 0 .. written + Copied - taken - 1
      BY <1>1, <1>5, <2>2, RingNumbers
    <3>2. data[tail] = taken + (tail - tail) + 1
      BY <1>1, <3>1 DEF RingInv
    <3> QED BY <1>1, <3>1, <3>2, RingNumbers
  <2>5. PICK i \in 0 .. n : taken = EndOf(i)
    BY <1>1, <1>3, <1>6 DEF PacketAligned
  <2>6. i # n
    <3>1. written \in Nat /\ taken \in Nat /\ wlen \in Nat /\ asked \in Nat
      BY <1>1 DEF SmdTypeOK, SmdFifoAssumption
    <3>2. EndOf(n) \in Nat
      BY <1>1, <1>3, PacketsBegun
    <3>3. written <= EndOf(n)
      BY <1>1, <1>3, <3>1, <3>2 DEF WriterInv
    <3> QED BY <1>5, <2>2, <2>5, <3>1, <3>2, <3>3
  <2>7. i + 1 \in 1 .. n /\ i + 1 - 1 = i
    BY <1>3, <2>5, <2>6
  <2>8. sent[i + 1].at = taken
    BY <1>1, <1>3, <2>5, <2>7 DEF WriterInv
  <2>9. HeaderAt(taken)
    BY <1>3, <2>7, <2>8 DEF HeaderAt
  <2>10. PICK j \in 1 .. n : taken = sent[j].at /\ PacketLen(taken) = sent[j].len
    BY <1>3, <2>9 DEF HeaderAt, PacketLen
  <2>11. sent[j].len \in Nat \ {0} /\ sent[j].at \in Nat
    BY <1>1, <1>3, <2>10, PacketsBegun DEF SmdFifoAssumption
  <2>12. current_packet' = sent[j].len /\ Left' = sent[j].len
    <3>1. current_packet' = sent[j].len
      BY <2>1, <2>4, <2>9, <2>10
    <3> QED BY <2>11, <3>1 DEF Left
  <2>13. EndOf(j) = sent[j].at + HeaderSize + sent[j].len
    BY <1>3, <2>10 DEF EndOf
  <2>14. PacketAligned'
    <3>1. taken' + Left' = EndOf(j) /\ Left' # 0 /\ Left' <= sent[j].len
      BY <1>5, <2>1, <2>10, <2>11, <2>12, <2>13
    <3>2. j \in DOMAIN sent' /\ sent'[j] = sent[j]
      BY <1>3, <2>10
    <3> QED BY <1>2, <3>1, <3>2 DEF PacketAligned
  <2>15. SmdTypeOK'
    BY <1>1, <2>3, <2>11, <2>12 DEF SmdTypeOK
  <2>16. ReaderInv'
    <3>1. rbuf' = <<>> /\ rlen' = rlen /\ rlen \in Nat /\ FifoSize \in Nat
      BY <1>1 DEF SmdTypeOK, SmdFifoAssumption
    <3>2. written' = written /\ written \in Nat /\ taken + HeaderSize \in Nat
      <4>1. written \in Nat /\ taken \in Nat
        BY <1>1 DEF SmdTypeOK
      <4> QED BY <1>5, <4>1
    <3>3. taken + HeaderSize <= written
      BY <1>1, <1>5, <2>2, RingNumbers
    <3>4. PICK h \in Nat : h = tail' /\ h <= FifoSize
      BY <2>3, <3>1
    <3> QED BY <2>1, <3>1, <3>2, <3>3, <3>4, NothingInHand
  <2> QED BY <1>4, <2>3, <2>14, <2>15, <2>16 DEF FifoInv
<1>7. CASE ~ (p = 0 /\ smd_stream_read_avail >= HeaderSize)
  <2>1. current_packet' = p /\ UNCHANGED <<tail, taken>>
    BY <1>7 DEF update_packet_state
  <2>2. SmdTypeOK'
    BY <1>1, <2>1 DEF SmdTypeOK
  <2>3. RingInv'
    BY <1>1, <2>1 DEF RingInv, Copied
  <2>4. ReaderInv'
    BY <1>1, <2>1 DEF ReaderInv
  <2>5. Left' = Left
    BY <2>1 DEF Left
  <2>6. PacketAligned'
    BY <1>1, <1>2, <2>1, <2>5 DEF PacketAligned
  <2> QED BY <1>4, <2>2, <2>3, <2>4, <2>6 DEF FifoInv
<1> QED BY <1>6, <1>7
\* The interrupt handler finds the reader between two reads, or in a packet of
\* which it leaves everything to the thread.
LEMMA IrqUpdates ==
  ASSUME SmdFifoAssumption, FifoInv, irq_update
  PROVE  FifoInv'
<1>1. SmdTypeOK /\ RingInv /\ ReaderInv /\ WriterInv /\ PacketAligned
  BY DEF FifoInv
<1>2. current_packet \in Nat /\ update_packet_state(current_packet, taken) /\ r' = r
  BY <1>1 DEF irq_update, SmdTypeOK
<1>3. CASE r \in {"wait", "check"}
  <2>1. Left = current_packet
    BY <1>2, <1>3 DEF Left
  <2>2. rbuf = <<>>
    BY <1>1, <1>3 DEF ReaderInv
  <2>3. UNCHANGED <<head, data, writerVars, rlen, rgot, rbuf>>
    BY DEF irq_update
  <2> QED BY <1>2, <1>3, <2>1, <2>2, <2>3, HeaderTaken
<1>4. CASE r \notin {"wait", "check"}
  <2>1. current_packet > 0
    BY <1>1, <1>4 DEF ReaderInv
  <2>2. current_packet' = current_packet /\ tail' = tail /\ taken' = taken
    BY <1>2, <2>1 DEF update_packet_state
  <2>3. UNCHANGED <<head, data, writerVars, r, rlen, rgot, rbuf>>
    BY DEF irq_update
  <2> QED BY <1>1, <2>2, <2>3 DEF FifoInv, SmdTypeOK, RingInv, Copied, ReaderInv, WriterInv, EndOf,
             PacketAligned, Left, writerVars
<1> QED BY <1>3, <1>4

\* The end of a read.
LEMMA ReadEnded ==
  ASSUME SmdFifoAssumption, FifoInv, packet_read_end
  PROVE  FifoInv'
<1>1. SmdTypeOK /\ ReaderInv
  BY DEF FifoInv
<1>2. /\ r = "locked" /\ r' = "check" /\ update_packet_state(current_packet - rgot, taken)
      /\ UNCHANGED <<head, data, writerVars, rlen, rgot, rbuf>>
  BY DEF packet_read_end
<1>3. current_packet - rgot \in Nat /\ Left = current_packet - rgot
  BY <1>1, <1>2 DEF SmdTypeOK, ReaderInv, Left
<1>4. rbuf = <<>>
  BY <1>1, <1>2 DEF ReaderInv
<1> QED BY <1>2, <1>3, <1>4, HeaderTaken

\* Every step of the writer, of the reader, of their interrupts and of the close keeps
\* the invariant of the channel.
LEMMA FifoNextInv ==
  ASSUME SmdFifoAssumption, FifoInv, [FifoNext]_smdVars
  PROVE  FifoInv'
<1>1. CASE UNCHANGED smdVars
  BY <1>1 DEF smdVars, shared, readerVars, writerVars, FifoInv, SmdTypeOK, RingInv, Copied,
     ReaderInv, WriterInv, EndOf, PacketAligned, Left
<1>2. CASE \/ \E len \in Lens : client_send(len)
           \/ client_retry \/ stream_write_end \/ writer_irq
           \/ handle_smd_irq \/ client_wakes \/ client_waits \/ packet_read_notify
           \/ peer_closes
  BY <1>2, StepsAside
<1>3. CASE smd_packet_write \/ smd_stream_write \/ ch_write_done
  BY <1>3, PacketBegun, PieceCopied, PiecePublished
<1>4. CASE ch_read \/ ch_read_done \/ packet_read_end \/ irq_update
  BY <1>4, PieceRead, PieceTaken, ReadEnded, IrqUpdates
<1>5. ASSUME NEW len \in Lens, smd_packet_read(len) PROVE FifoInv'
  BY <1>5, ReadBegun
<1> QED BY <1>1, <1>2, <1>3, <1>4, <1>5
        DEF FifoNext, WriterStep, ReaderIrq, ReaderStep

\* The invariant in the words of ChannelExact.
LEMMA InvExact ==
  ASSUME SmdFifoAssumption, FifoInv
  PROVE  ChannelExact
<1>1. SmdTypeOK /\ RingInv /\ ReaderInv /\ PacketAligned
  BY DEF FifoInv
<1>2. smd_stream_read_avail = written - taken
  BY <1>1, AvailExact
<1>3. ASSUME NEW k \in 0 .. written - taken - 1
      PROVE  data[(tail + k) % FifoSize] = taken + k + 1
  <2>1. k \in 0 .. FifoSize
    BY <1>1, RingNumbers
  <2>2. PICK j \in Int : j = IF tail + k < FifoSize THEN tail + k ELSE tail + k - FifoSize
    BY <1>1, <2>1, RingNumbers
  <2>3. (tail + k) % FifoSize = j
    BY <1>1, <2>1, <2>2, Advance, RingNumbers
  <2>4. j \in 0 .. FifoSize - 1
    BY <1>1, <2>1, <2>2, RingNumbers
  <2>5. \/ j - tail = k /\ j - tail \in 0 .. written + Copied - taken - 1
        \/ j + FifoSize - tail = k /\ j + FifoSize - tail \in 0 .. written + Copied - taken - 1
    BY <1>1, <2>1, <2>2, RingNumbers
  <2>6. data[j] = taken + k + 1
    BY <1>1, <2>4, <2>5 DEF RingInv
  <2> QED BY <2>3, <2>6
<1>4. \A k \in DOMAIN rbuf : rbuf[k] = taken + k
  <2>1. rbuf \in Seq(Nat)
    BY <1>1 DEF SmdTypeOK
  <2>2. DOMAIN rbuf = 1 .. Len(rbuf)
    BY <2>1
  <2> QED BY <1>1, <2>2 DEF ReaderInv
<1> QED BY <1>1, <1>2, <1>3, <1>4 DEF ChannelExact, RingExact

\* For every size of the ring, of the header and of the packets, and whatever the
\* order of the steps of the two processors and of their interrupts: between tail
\* and head lies the stream, byte for byte, what smd_stream_read_avail computes is
\* what there is to read, the piece copied out of the ring was not overwritten
\* meanwhile, and the reader never loses the boundary of a packet.
THEOREM ChannelAlwaysExact ==
  ASSUME SmdFifoAssumption
  PROVE  FifoSpec => []ChannelExact
<1>1. FifoInv => ChannelExact
  BY InvExact
<1> QED BY <1>1, FifoInitInv, FifoNextInv, PTL DEF FifoSpec
-----------------------------------------------------------------------------
(***************************************************************************)
(* remote_spinlock: mutual exclusion for any number of threads on the two  *)
(* processors, whichever way each of them takes the lock.                  *)
(***************************************************************************)

\* There are two processors.
LEMMA OtherCpu ==
  ASSUME NEW c \in Cpus, NEW d \in Cpus, c # d
  PROVE  d = Other(c)
BY DEF Cpus, Other

\* Nothing is claimed and nobody contends at first.
LEMMA InitInv == RemoteInit => RemoteInv
BY RemoteAssumption DEF RemoteInit, RemoteInv, TypeOK, OneContender, RequestStands,
   MutualExclusion, Holding, Steps, Cpus

\* The steps keep the types.
LEMMA StepType ==
  ASSUME TypeOK, NEW t \in Threads, remote_lock(t) \/ InCall(t)
  PROVE  TypeOK'
<1> USE RemoteAssumption DEF TypeOK, Steps, Goto, Store
<1>1. CASE remote_lock(t) BY <1>1 DEF remote_lock
<1>2. CASE dek_request(t) BY <1>2 DEF dek_request
<1>3. CASE dek_test(t) BY <1>3 DEF dek_test
<1>4. CASE dek_turn(t) BY <1>4 DEF dek_turn
<1>5. CASE dek_yield(t) BY <1>5 DEF dek_yield
<1>6. CASE dek_spin(t) BY <1>6 DEF dek_spin
<1>7. CASE dek_take(t) BY <1>7 DEF dek_take
<1>8. CASE dek_try_request(t) BY <1>8 DEF dek_try_request
<1>9. CASE dek_try_test(t) BY <1>9 DEF dek_try_test
<1>10. CASE dek_try_back(t) BY <1>10 DEF dek_try_back
<1>11. CASE mutex_delay(t) BY <1>11 DEF mutex_delay
<1>12. CASE dek_unlock(t) BY <1>12 DEF dek_unlock
<1>13. CASE local_unlock(t) BY <1>13 DEF local_unlock
<1> QED BY <1>1, <1>2, <1>3, <1>4, <1>5, <1>6, <1>7, <1>8, <1>9, <1>10, <1>11, <1>12, <1>13
        DEF InCall

\* One contender on each side: only the local lock's holder moves.
LEMMA StepContender ==
  ASSUME TypeOK, OneContender, NEW t \in Threads, remote_lock(t) \/ InCall(t)
  PROVE  OneContender'
<1> USE RemoteAssumption DEF TypeOK, OneContender, Goto
<1>1. CASE remote_lock(t) BY <1>1 DEF remote_lock
<1>2. CASE local_unlock(t) BY <1>2 DEF local_unlock
<1>3. CASE InCall(t) /\ ~ local_unlock(t)
  BY <1>3, ZenonT(40) DEF InCall, dek_request, dek_test, dek_turn, dek_yield, dek_spin, dek_take,
     dek_try_request, dek_try_test, dek_try_back, mutex_delay, dek_unlock
<1> QED BY <1>1, <1>2, <1>3

\* A contender's word is its own: the other side never clears it, and no
\* second thread of its side can.
LEMMA StepRequest ==
  ASSUME TypeOK, OneContender, RequestStands, NEW t \in Threads, remote_lock(t) \/ InCall(t)
  PROVE  RequestStands'
<1> USE RemoteAssumption DEF TypeOK, OneContender, RequestStands, Goto, Holding, Store
<1>1. CASE remote_lock(t) BY <1>1 DEF remote_lock
<1>2. CASE dek_request(t) BY <1>2 DEF dek_request
<1>3. CASE dek_test(t) BY <1>3 DEF dek_test
<1>4. CASE dek_turn(t) BY <1>4 DEF dek_turn
<1>5. CASE dek_yield(t) BY <1>5 DEF dek_yield
<1>6. CASE dek_spin(t) BY <1>6 DEF dek_spin
<1>7. CASE dek_take(t) BY <1>7 DEF dek_take
<1>8. CASE dek_try_request(t) BY <1>8 DEF dek_try_request
<1>9. CASE dek_try_test(t) BY <1>9 DEF dek_try_test
<1>10. CASE dek_try_back(t) BY <1>10 DEF dek_try_back
<1>11. CASE mutex_delay(t) BY <1>11 DEF mutex_delay
<1>12. CASE dek_unlock(t) BY <1>12 DEF dek_unlock
<1>13. CASE local_unlock(t) BY <1>13 DEF local_unlock
<1> QED BY <1>1, <1>2, <1>3, <1>4, <1>5, <1>6, <1>7, <1>8, <1>9, <1>10, <1>11, <1>12, <1>13
        DEF InCall

\* Whoever finds the other word clear is alone: a holder of the other side
\* would have its word set, one of the same side the local lock.
LEMMA ClearMeansAlone ==
  ASSUME RemoteInv, NEW t \in Threads, pc[t] # "idle", ~ OtherLock(t),
         NEW u \in Threads, pc[u] \in Holding
  PROVE  u = t
<1>1. CpuOf[t] \in Cpus /\ CpuOf[u] \in Cpus
  BY RemoteAssumption
<1>2. CASE CpuOf[u] = CpuOf[t]
  BY <1>2, RemoteAssumption DEF RemoteInv, OneContender, Holding
<1>3. CASE CpuOf[u] # CpuOf[t]
  <2>1. CpuOf[u] = Other(CpuOf[t])
    BY <1>1, <1>3, OtherCpu
  <2>2. self_lock[CpuOf[u]]
    BY DEF RemoteInv, RequestStands
  <2> QED BY <2>1, <2>2 DEF OtherLock
<1> QED BY <1>2, <1>3

\* Only the two tests let a thread in.
LEMMA StepExclusion ==
  ASSUME RemoteInv, NEW t \in Threads, remote_lock(t) \/ InCall(t)
  PROVE  MutualExclusion'
<1>1. ASSUME NEW u \in Threads, u # t
      PROVE  pc'[u] = pc[u]
  BY <1>1 DEF RemoteInv, TypeOK, InCall, Goto, remote_lock, dek_request, dek_test, dek_turn,
     dek_yield, dek_spin, dek_take, dek_try_request, dek_try_test, dek_try_back, mutex_delay,
     dek_unlock, local_unlock
<1>2. pc'[t] \in Holding => pc[t] \in Holding \/ (pc[t] # "idle" /\ ~ OtherLock(t))
  BY DEF RemoteInv, TypeOK, InCall, Goto, Holding, remote_lock, dek_request, dek_test, dek_turn,
     dek_yield, dek_spin, dek_take, dek_try_request, dek_try_test, dek_try_back, mutex_delay,
     dek_unlock, local_unlock
<1>3. CASE pc'[t] \in Holding /\ pc[t] \notin Holding
  <2>1. \A u \in Threads : pc[u] \in Holding => u = t
    BY <1>2, <1>3, ClearMeansAlone
  <2> QED BY <1>1, <2>1 DEF MutualExclusion
<1>4. CASE pc'[t] \in Holding => pc[t] \in Holding
  BY <1>1, <1>4 DEF RemoteInv, MutualExclusion
<1> QED BY <1>3, <1>4

\* Every step of the lock keeps the invariant.
LEMMA NextInv == RemoteInv /\ [RemoteNext]_remoteVars => RemoteInv'
<1> SUFFICES ASSUME RemoteInv, [RemoteNext]_remoteVars PROVE RemoteInv'
  OBVIOUS
<1>1. CASE UNCHANGED remoteVars
  BY <1>1 DEF remoteVars, RemoteInv, TypeOK, OneContender, RequestStands, MutualExclusion
<1>2. CASE RemoteNext
  <2>1. PICK t \in Threads : remote_lock(t) \/ InCall(t)
    BY <1>2 DEF RemoteNext
  <2>2. TypeOK' BY <2>1, StepType DEF RemoteInv
  <2>3. OneContender' BY <2>1, StepContender DEF RemoteInv
  <2>4. RequestStands' BY <2>1, StepRequest DEF RemoteInv
  <2>5. MutualExclusion' BY <2>1, StepExclusion
  <2> QED BY <2>2, <2>3, <2>4, <2>5 DEF RemoteInv
<1> QED BY <1>1, <1>2

\* The inductive invariant of the remote lock: the local lock leaves one
\* contender on each side, and the word of a contender stands while it counts
\* on it.
THEOREM RemoteInvariant == RemoteSpec => []RemoteInv
BY InitInv, NextInv, PTL DEF RemoteSpec

\* The section between remote_spin_lock, remote_spin_trylock or
\* remote_mutex_lock and the unlock excludes all others, of any number of
\* threads on both processors.
THEOREM RemoteExclusion == RemoteSpec => []MutualExclusion
<1>1. RemoteInv => MutualExclusion
  BY DEF RemoteInv
<1> QED BY <1>1, RemoteInvariant, PTL
=============================================================================
