---------------------------- MODULE RecordProofs -----------------------------
(***************************************************************************)
(* The records that the system keeps of itself: proofs for any number of   *)
(* readers, walkers and locks.                                             *)
(*                                                                         *)
(* First, the walks over the readers of a log in logger.c come by every    *)
(* reader that stays on the list, as long as neither of two races has      *)
(* happened.  The list is a ring that every list_add_tail and list_del     *)
(* leaves a ring, also under a walk, and no way back along it goes round   *)
(* without the head.                                                       *)
(*                                                                         *)
(* Then, the statistics of wakelock.c show what happened.  Each call       *)
(* changes the records of the locks one by one, so that the lemmas are     *)
(* about one record.                                                       *)
(*                                                                         *)
(* Last, the RAM console of ram_console.c: no write leaves the buffer, and *)
(* a boot between two writes saves the end of what was printed.  The bytes *)
(* are in the ring in order, counted back from start.                      *)
(***************************************************************************)
EXTENDS LoggerReaders, WakeLockStats, RamConsole, LoopLemmas, TLAPS

-----------------------------------------------------------------------------
\* The head of the list is no reader, and the mark of a free mutex is nobody.
LEMMA NodeFacts ==
  ASSUME ReadersAssumption
  PROVE  /\ ListHead \notin ListReaders /\ ListHead \in Nodes /\ ListHead # Free
         /\ Free \notin ListReaders
         /\ Free \notin Walkers /\ ListHead \notin Walkers
         /\ \A r \in ListReaders : r \in Nodes /\ r \notin Walkers /\ r # Free /\ r # ListHead
         /\ Linked \subseteq ListReaders /\ Ring \subseteq Nodes /\ ListHead \notin Linked /\ ListHead \in Ring
         /\ \A n \in Ring : n # ListHead => n \in Linked
         /\ \A r \in Linked : r \in Ring
BY DEF ReadersAssumption, Nodes, Linked, Ring, ListHead, Free

\* Every step of the list of readers keeps the types.
LEMMA Types ==
  ASSUME ReadersAssumption, RLTypeOK, [RLNext]_rlVars
  PROVE  RLTypeOK'
<1> USE NodeFacts DEF RLTypeOK
<1>1. ASSUME NEW r \in ListReaders, open_lock(r) PROVE RLTypeOK'
  BY <1>1 DEF open_lock
<1>2. ASSUME NEW r \in ListReaders, list_add_back(r) PROVE RLTypeOK'
  BY <1>2 DEF list_add_back
<1>3. ASSUME NEW r \in ListReaders, open_unlock(r) PROVE RLTypeOK'
  BY <1>3 DEF open_unlock
<1>4. ASSUME NEW r \in ListReaders, release_start(r) PROVE RLTypeOK'
  BY <1>4 DEF release_start
<1>5. ASSUME NEW r \in ListReaders, list_del_back(r) PROVE RLTypeOK'
  BY <1>5 DEF list_del_back
<1>11. ASSUME NEW r \in ListReaders, list_del_forward(r) PROVE RLTypeOK'
  BY <1>11 DEF list_del_forward
<1>6. ASSUME NEW r \in ListReaders, release_free(r) PROVE RLTypeOK'
  BY <1>6 DEF release_free
<1>7. ASSUME NEW w \in Walkers, walk_lock(w) PROVE RLTypeOK'
  BY <1>7 DEF walk_lock
<1>8. ASSUME NEW w \in Walkers, walk_reader(w) PROVE RLTypeOK'
  BY <1>8 DEF walk_reader
<1>9. ASSUME NEW w \in Walkers, walk_unlock(w) PROVE RLTypeOK'
  BY <1>9 DEF walk_unlock
<1>10. CASE UNCHANGED rlVars
  BY <1>10 DEF rlVars
<1> QED BY <1>1, <1>2, <1>3, <1>4, <1>5, <1>6, <1>7, <1>8, <1>9, <1>10, <1>11
        DEF RLNext, release_oops, walk_oops

\* A reader's file moves on: what becomes of the list and of who is on it.
LEMMA FileMoves ==
  ASSUME ReadersAssumption, RLTypeOK, NEW r \in ListReaders,
         NEW v \in {"closed", "adding", "added", "open", "deleting", "deleted", "unlinked"},
         file' = [file EXCEPT ![r] = v]
  PROVE  /\ file'[r] = v /\ \A q \in ListReaders : q # r => file'[q] = file[q]
         /\ Linked' = IF v \in {"open", "deleting", "deleted"} THEN Linked \cup {r} ELSE Linked \ {r}
BY DEF RLTypeOK, Linked

\* A race is never forgotten.
LEMMA RacedStays ==
  ASSUME RLTypeOK, [RLNext]_rlVars, ~ raced'
  PROVE  ~ raced
BY DEF RLTypeOK, RLNext, rlVars, open_lock, list_add_back, open_unlock, release_start,
       list_del_back, list_del_forward, release_free, release_oops,
       walk_lock, walk_reader, walk_unlock, walk_oops

\* Without a race one reader at a time is added or released.
LEMMA OneNext ==
  ASSUME ReadersAssumption, ~ raced', RLTypeOK, OneAtATime, [RLNext]_rlVars
  PROVE  OneAtATime'
<1> USE NodeFacts DEF OneAtATime, Busy
<1>1. ASSUME NEW r \in ListReaders, open_lock(r) PROVE OneAtATime'
  <2>1. /\ mutex = Free /\ mutex' = r /\ file' = [file EXCEPT ![r] = "adding"]
        /\ \A q \in ListReaders : file[q] \in {"closed", "open"}
    BY <1>1 DEF open_lock
  <2>2. file'[r] = "adding" /\ \A q \in ListReaders : q # r => file'[q] = file[q]
    BY <2>1, FileMoves
  <2> QED BY <2>1, <2>2
<1>2. ASSUME NEW r \in ListReaders, list_add_back(r) PROVE OneAtATime'
  BY <1>2, FileMoves DEF list_add_back
<1>3. ASSUME NEW r \in ListReaders, open_unlock(r) PROVE OneAtATime'
  BY <1>3, FileMoves DEF open_unlock
<1>4. ASSUME NEW r \in ListReaders, release_start(r) PROVE OneAtATime'
  <2>1. /\ mutex' = mutex /\ file' = [file EXCEPT ![r] = "deleting"]
        /\ \A q \in ListReaders : file[q] \in {"closed", "open"}
    BY <1>4 DEF release_start
  <2>2. file'[r] = "deleting" /\ \A q \in ListReaders : q # r => file'[q] = file[q]
    BY <2>1, FileMoves
  <2> QED BY <2>1, <2>2
<1>5. ASSUME NEW r \in ListReaders, list_del_back(r) PROVE OneAtATime'
  BY <1>5, FileMoves, SMTT(40) DEF list_del_back
<1>9. ASSUME NEW r \in ListReaders, list_del_forward(r) PROVE OneAtATime'
  BY <1>9, FileMoves, SMTT(40) DEF list_del_forward
<1>6. ASSUME NEW r \in ListReaders, release_free(r) PROVE OneAtATime'
  BY <1>6, FileMoves DEF release_free
<1>7. ASSUME NEW w \in Walkers, walk_lock(w) \/ walk_reader(w) \/ walk_unlock(w) PROVE OneAtATime'
  BY <1>7 DEF walk_lock, walk_reader, walk_unlock
<1>8. CASE UNCHANGED rlVars
  BY <1>8 DEF rlVars
<1> QED BY <1>1, <1>2, <1>3, <1>4, <1>5, <1>6, <1>7, <1>8, <1>9 DEF RLNext, release_oops, walk_oops
-----------------------------------------------------------------------------
(***************************************************************************)
(* The ring.                                                               *)
(***************************************************************************)
LEMMA RingStays ==
  ASSUME ReadersAssumption, Linked' = Linked, \A n \in Ring : next'[n] = next[n],
         NEW back \in [Ring -> Ring], RingWith(back)
  PROVE  Ring' = Ring /\ RingWith(back)'
<1>1. Ring' = Ring
  BY DEF Ring
<1>2. \A n \in Ring : back[n] \in Ring
  OBVIOUS
<1> QED BY <1>1, <1>2 DEF RingWith

\* With nobody on the list, prev is the way back.
LEMMA PrevIsBack ==
  ASSUME NEW back, BackPointers(back), \A r \in ListReaders : ~ Busy(r)
  PROVE  \A n \in Ring : prev[n] = back[n]
BY DEF BackPointers, Busy

\* No reader is its own neighbour.
LEMMA NotItself ==
  ASSUME ReadersAssumption, NEW back \in [Ring -> Ring], RingWith(back), NEW r \in Linked
  PROVE  back[r] # r /\ next[r] # r
<1>1. {r} \in SUBSET Linked /\ {r} # {}
  OBVIOUS
<1>2. back[r] # r
  BY <1>1 DEF RingWith
<1>3. r \in Ring
  BY NodeFacts
<1> QED BY <1>2, <1>3 DEF RingWith

\* A walk at a moment when no other reader is released is on the ring.
LEMMA WalkOnRing ==
  ASSUME ReadersAssumption, NEW back \in [Ring -> Ring], WalkWith(back),
         \A q \in ListReaders : file[q] # "unlinked"
  PROVE  \A w \in Walkers : mutex = w => pos[w] \in Ring /\ Cursor(w) = pos[w]
BY DEF WalkWith, Cursor

\* logger_open before list_add_tail: the new reader points to itself.
LEMMA OpenLock ==
  ASSUME ReadersAssumption, ~ raced', RLTypeOK, OneAtATime, RingInv,
         NEW r \in ListReaders, open_lock(r)
  PROVE  RingInv'
<1>1. PICK back \in [Ring -> Ring] : RingWith(back) /\ BackPointers(back) /\ WalkWith(back)
  BY DEF RingInv
<1>2. \A q \in ListReaders : ~ Busy(q)
  BY DEF open_lock
<1>3. \A n \in Ring : prev[n] = back[n]
  BY <1>1, <1>2, PrevIsBack
<1>4. r \notin Linked /\ r \notin Ring /\ file' = [file EXCEPT ![r] = "adding"]
  BY NodeFacts DEF open_lock, Linked, Ring
<1>5. Linked' = Linked /\ file'[r] = "adding" /\ \A q \in ListReaders : q # r => file'[q] = file[q]
  <2>1. Linked' = Linked \ {r}
    BY <1>4, FileMoves
  <2>2. Linked \ {r} = Linked
    BY <1>4
  <2>3. \A q \in ListReaders : q # r => file'[q] = file[q]
    BY <1>4, FileMoves
  <2> QED BY <1>4, <2>1, <2>2, <2>3 DEF RLTypeOK
<1>6. \A n \in Ring : next'[n] = next[n] /\ prev'[n] = prev[n]
  BY <1>4, NodeFacts DEF open_lock, RLTypeOK
<1>7. Ring' = Ring /\ RingWith(back)'
  BY <1>1, <1>5, <1>6, RingStays
<1>8. before'[r] = back[ListHead]
  BY <1>3, NodeFacts DEF open_lock, RLTypeOK
<1>9. BackPointers(back)'
  BY <1>2, <1>3, <1>5, <1>6, <1>7, <1>8 DEF BackPointers, Busy
<1>10. WalkWith(back)'
  BY NodeFacts DEF open_lock, WalkWith
<1> QED BY <1>1, <1>7, <1>9, <1>10 DEF RingInv

\* list_add_tail: the ring of prev pointers goes through the new reader.
LEMMA AddBack ==
  ASSUME ReadersAssumption, ~ raced', RLTypeOK, OneAtATime, RingInv,
         NEW r \in ListReaders, list_add_back(r)
  PROVE  RingInv'
<1>1. PICK back \in [Ring -> Ring] : RingWith(back) /\ BackPointers(back) /\ WalkWith(back)
  BY DEF RingInv
<1>2. \A q \in ListReaders : q # r => ~ Busy(q)
  BY DEF list_add_back, OneAtATime, Busy
<1>3. r \notin Linked /\ r \notin Ring /\ file[r] = "adding" /\ file' = [file EXCEPT ![r] = "added"]
  BY NodeFacts DEF list_add_back, Linked, Ring
<1>4. \A n \in Ring : prev[n] = back[n]
  BY <1>1, <1>2, <1>3 DEF BackPointers, Busy
<1>5. Linked' = Linked /\ file'[r] = "added" /\ \A q \in ListReaders : q # r => file'[q] = file[q]
  <2>1. Linked' = Linked \ {r}
    BY <1>3, FileMoves
  <2>2. Linked \ {r} = Linked
    BY <1>3
  <2>3. \A q \in ListReaders : q # r => file'[q] = file[q]
    BY <1>3, FileMoves
  <2> QED BY <1>3, <2>1, <2>2, <2>3 DEF RLTypeOK
<1>6. \A n \in Ring : next'[n] = next[n] /\ (n # ListHead => prev'[n] = prev[n])
  BY <1>3, NodeFacts DEF list_add_back, RLTypeOK
<1>7. Ring' = Ring /\ RingWith(back)'
  BY <1>1, <1>5, <1>6, RingStays
<1>8. before[r] = back[ListHead] /\ before' = before
  BY <1>1, <1>3 DEF BackPointers, list_add_back
<1>9. prev'[ListHead] = r /\ prev'[r] = before[r] /\ next'[r] = ListHead
  BY NodeFacts DEF list_add_back, RLTypeOK
<1>10. BackPointers(back)'
  BY <1>2, <1>4, <1>5, <1>6, <1>7, <1>8, <1>9 DEF BackPointers, Busy
<1>11. WalkWith(back)'
  BY <1>3, NodeFacts DEF list_add_back, WalkWith, OneAtATime
<1> QED BY <1>1, <1>7, <1>10, <1>11 DEF RingInv

\* The new reader is the last one.
LEMMA OpenUnlock ==
  ASSUME ReadersAssumption, ~ raced', RLTypeOK, OneAtATime, RingInv,
         NEW r \in ListReaders, open_unlock(r)
  PROVE  RingInv'
<1>1. PICK back \in [Ring -> Ring] : RingWith(back) /\ BackPointers(back) /\ WalkWith(back)
  BY DEF RingInv
<1>2. \A q \in ListReaders : q # r => ~ Busy(q)
  BY DEF open_unlock, OneAtATime, Busy
<1>3. r \notin Linked /\ r \notin Ring /\ file[r] = "added" /\ file' = [file EXCEPT ![r] = "open"]
  BY NodeFacts DEF open_unlock, Linked, Ring
<1>4. PICK b \in Ring : b = back[ListHead] /\ next[b] = ListHead /\ b # r
  BY <1>1, <1>3, NodeFacts DEF RingWith
<1>5. before[r] = b /\ prev[ListHead] = r /\ prev[r] = b /\ next[r] = ListHead
  BY <1>1, <1>3, <1>4 DEF BackPointers
<1>6. \A n \in Ring : n # ListHead => prev[n] = back[n]
  BY <1>1, <1>2, <1>3 DEF BackPointers, Busy
<1>7. /\ Linked' = Linked \cup {r}
      /\ file'[r] = "open"
      /\ \A q \in ListReaders : q # r => file'[q] = file[q]
  BY <1>3, FileMoves
<1>8. Ring' = Ring \cup {r}
  BY <1>7 DEF Ring
<1>9. /\ next'[b] = r /\ next'[r] = ListHead /\ \A n \in Ring : n # b => next'[n] = next[n]
      /\ prev' = prev
  BY <1>3, <1>4, <1>5, NodeFacts DEF open_unlock, RLTypeOK
<1>10. PICK back2 \in [Ring \cup {r} -> Ring \cup {r}] :
         /\ back2[ListHead] = r /\ back2[r] = b
         /\ \A n \in Ring : n # ListHead => back2[n] = back[n]
  <2> DEFINE f == [n \in Ring \cup {r} |-> IF n = ListHead THEN r ELSE IF n = r THEN b ELSE back[n]]
  <2>1. /\ f \in [Ring \cup {r} -> Ring \cup {r}] /\ f[ListHead] = r /\ f[r] = b
        /\ \A n \in Ring : n # ListHead => f[n] = back[n]
    BY <1>3, <1>4, NodeFacts
  <2> QED BY <2>1
<1>11. \A n \in Ring \cup {r} :
         next'[n] \in Ring \cup {r} /\ back2[next'[n]] = n /\ next'[back2[n]] = n
  <2> TAKE n \in Ring \cup {r}
  <2>1. CASE n = r
    BY <1>4, <1>9, <1>10, <2>1, NodeFacts
  <2>2. CASE n = b
    <3>1. next'[n] = r /\ back2[r] = n
      BY <1>9, <1>10, <2>2
    <3>2. CASE n = ListHead
      BY <1>5, <1>9, <1>10, <2>2, <3>1, <3>2
    <3>3. CASE n # ListHead
      <4>1. back2[n] = back[n] /\ back[n] \in Ring /\ next[back[n]] = n
        BY <1>1, <1>10, <2>2, <3>3 DEF RingWith
      <4>2. back[n] # b
        BY <1>4, <2>2, <3>3, <4>1
      <4> QED BY <1>9, <3>1, <4>1, <4>2
    <3> QED BY <3>2, <3>3
  <2>3. CASE n \in Ring /\ n # b
    <3>1. next'[n] = next[n] /\ next[n] \in Ring /\ back[next[n]] = n
      BY <1>1, <1>9, <2>3 DEF RingWith
    <3>2. next[n] # ListHead
      BY <1>4, <2>3, <3>1
    <3>3. back2[next'[n]] = n
      BY <1>10, <3>1, <3>2
    <3>4. CASE n = ListHead
      BY <1>9, <1>10, <3>1, <3>3, <3>4
    <3>5. CASE n # ListHead
      <4>1. back2[n] = back[n] /\ back[n] \in Ring /\ next[back[n]] = n
        BY <1>1, <1>10, <2>3, <3>5 DEF RingWith
      <4>2. back[n] # b
        BY <1>4, <3>5, <4>1
      <4> QED BY <1>9, <3>1, <3>3, <4>1, <4>2
    <3> QED BY <3>4, <3>5
  <2> QED BY <2>1, <2>2, <2>3
<1>12. ASSUME NEW S \in SUBSET (Linked \cup {r}), S # {}
       PROVE  \E n \in S : back2[n] \notin S
  <2>1. CASE S = {r}
    BY <1>4, <1>10, <2>1
  <2>2. CASE S # {r}
    <3>1. S \ {r} \in SUBSET Linked /\ S \ {r} # {}
      BY <1>12, <2>2
    <3>2. PICK n \in S \ {r} : back[n] \notin S \ {r}
      BY <1>1, <3>1 DEF RingWith
    <3>3. n \in Ring /\ n # ListHead /\ back[n] \in Ring
      BY <3>1, <3>2, NodeFacts
    <3> QED BY <1>3, <1>10, <3>2, <3>3
  <2> QED BY <2>1, <2>2
<1>13. RingWith(back2)'
  BY <1>7, <1>8, <1>11, <1>12 DEF RingWith
<1>14. \A n \in Ring \cup {r} : prev[n] = back2[n]
  BY <1>5, <1>6, <1>10
<1>15. BackPointers(back2)'
  BY <1>2, <1>7, <1>8, <1>9, <1>14 DEF BackPointers, Busy
<1>16. WalkWith(back2)'
  BY NodeFacts DEF open_unlock, WalkWith
<1> QED BY <1>8, <1>10, <1>13, <1>15, <1>16 DEF RingInv

\* logger_release before list_del: the neighbours are read.
LEMMA ReleaseStart ==
  ASSUME ReadersAssumption, ~ raced', RLTypeOK, OneAtATime, RingInv,
         NEW r \in ListReaders, release_start(r)
  PROVE  RingInv'
<1>1. PICK back \in [Ring -> Ring] : RingWith(back) /\ BackPointers(back) /\ WalkWith(back)
  BY DEF RingInv
<1>2. \A q \in ListReaders : ~ Busy(q)
  BY DEF release_start
<1>3. \A n \in Ring : prev[n] = back[n]
  BY <1>1, <1>2, PrevIsBack
<1>4. r \in Linked /\ r \in Ring /\ file' = [file EXCEPT ![r] = "deleting"]
  BY NodeFacts DEF release_start, Linked, Ring
<1>5. /\ Linked' = Linked
      /\ file'[r] = "deleting"
      /\ \A q \in ListReaders : q # r => file'[q] = file[q]
  <2>1. Linked' = Linked \cup {r}
    BY <1>4, FileMoves
  <2>2. Linked \cup {r} = Linked
    BY <1>4
  <2>3. \A q \in ListReaders : q # r => file'[q] = file[q]
    BY <1>4, FileMoves
  <2> QED BY <1>4, <2>1, <2>2, <2>3 DEF RLTypeOK
<1>6. next' = next /\ prev' = prev
  BY DEF release_start
<1>7. Ring' = Ring /\ RingWith(back)'
  BY <1>1, <1>5, <1>6, RingStays
<1>8. before'[r] = back[r] /\ after'[r] = next[r]
  BY <1>3, <1>4 DEF release_start, RLTypeOK
<1>9. BackPointers(back)'
  BY <1>2, <1>3, <1>5, <1>6, <1>7, <1>8 DEF BackPointers, Busy
<1>10. WalkWith(back)'
  BY <1>1, <1>2, <1>5, <1>7, WalkOnRing DEF release_start, WalkWith, Cursor, Busy
<1> QED BY <1>1, <1>7, <1>9, <1>10 DEF RingInv

\* list_del: the ring of prev pointers goes past the reader.
LEMMA DelBack ==
  ASSUME ReadersAssumption, ~ raced', RLTypeOK, OneAtATime, RingInv,
         NEW r \in ListReaders, list_del_back(r)
  PROVE  RingInv'
<1>1. PICK back \in [Ring -> Ring] : RingWith(back) /\ BackPointers(back) /\ WalkWith(back)
  BY DEF RingInv
<1>2. \A q \in ListReaders : q # r => ~ Busy(q)
  BY DEF list_del_back, OneAtATime, Busy
<1>3. r \in Linked /\ r \in Ring /\ file[r] = "deleting" /\ file' = [file EXCEPT ![r] = "deleted"]
  BY NodeFacts DEF list_del_back, Linked, Ring
<1>4. \A n \in Ring : prev[n] = back[n]
  BY <1>1, <1>2, <1>3 DEF BackPointers, Busy
<1>5. Linked' = Linked /\ file'[r] = "deleted" /\ \A q \in ListReaders : q # r => file'[q] = file[q]
  <2>1. Linked' = Linked \cup {r}
    BY <1>3, FileMoves
  <2>2. Linked \cup {r} = Linked
    BY <1>3
  <2>3. \A q \in ListReaders : q # r => file'[q] = file[q]
    BY <1>3, FileMoves
  <2> QED BY <1>3, <2>1, <2>2, <2>3 DEF RLTypeOK
<1>6. next' = next /\ before' = before /\ after' = after
  BY DEF list_del_back
<1>7. Ring' = Ring /\ RingWith(back)'
  BY <1>1, <1>5, <1>6, RingStays
<1>8. before[r] = back[r] /\ after[r] = next[r] /\ after[r] \in Ring
  BY <1>1, <1>3 DEF BackPointers, RingWith
<1>9. prev'[after[r]] = before[r] /\ \A n \in Ring : n # after[r] => prev'[n] = prev[n]
  BY <1>8, NodeFacts DEF list_del_back, RLTypeOK
<1>10. BackPointers(back)'
  BY <1>2, <1>4, <1>5, <1>6, <1>7, <1>8, <1>9 DEF BackPointers, Busy
<1>11. WalkWith(back)'
  BY <1>1, <1>2, <1>3, <1>5, <1>6, <1>7, WalkOnRing DEF list_del_back, WalkWith, Cursor, Busy
<1> QED BY <1>1, <1>7, <1>10, <1>11 DEF RingInv

\* The neighbours of the reader that goes are neighbours then.
LEMMA DelForward ==
  ASSUME ReadersAssumption, ~ raced', RLTypeOK, OneAtATime, RingInv,
         NEW r \in ListReaders, list_del_forward(r)
  PROVE  RingInv'
<1>1. PICK back \in [Ring -> Ring] : RingWith(back) /\ BackPointers(back) /\ WalkWith(back)
  BY DEF RingInv
<1>2. \A q \in ListReaders : q # r => ~ Busy(q)
  BY DEF list_del_forward, OneAtATime, Busy
<1>3. r \in Linked /\ r \in Ring /\ file[r] = "deleted" /\ file' = [file EXCEPT ![r] = "unlinked"]
  BY NodeFacts DEF list_del_forward, Linked, Ring
<1>4. PICK b \in Ring, a \in Ring : /\ b = back[r] /\ a = next[r] /\ next[b] = r /\ back[a] = r
                                    /\ a # r /\ b # r
  BY <1>1, <1>3, NotItself DEF RingWith
<1>5. before[r] = b /\ after[r] = a /\ prev[a] = b
  BY <1>1, <1>3, <1>4 DEF BackPointers
<1>6. \A n \in Ring : n # a => prev[n] = back[n]
  BY <1>1, <1>2, <1>3, <1>5 DEF BackPointers, Busy
<1>7. /\ Linked' = Linked \ {r}
      /\ file'[r] = "unlinked"
      /\ \A q \in ListReaders : q # r => file'[q] = file[q]
  BY <1>3, FileMoves
<1>8. Ring' = Ring \ {r}
  BY <1>7, NodeFacts DEF Ring
<1>9. /\ next'[b] = a /\ \A n \in Ring \ {r} : n # b => next'[n] = next[n]
      /\ next'[r] = a /\ after' = after
      /\ \A n \in Ring \ {r} : prev'[n] = prev[n]
  BY <1>3, <1>4, <1>5, NodeFacts DEF list_del_forward, RLTypeOK
<1>10. \A n \in Ring : /\ next[n] = r => n = b
                       /\ back[n] = r => n = a
                       /\ next[n] \in Ring /\ back[next[n]] = n /\ next[back[n]] = n
                       /\ back[n] \in Ring
  BY <1>1, <1>3, <1>4 DEF RingWith
<1>11. PICK back2 \in [Ring \ {r} -> Ring \ {r}] :
         back2[a] = b /\ \A n \in Ring \ {r} : n # a => back2[n] = back[n]
  <2> DEFINE f == [n \in Ring \ {r} |-> IF n = a THEN b ELSE back[n]]
  <2>1. f \in [Ring \ {r} -> Ring \ {r}] /\ f[a] = b /\ \A n \in Ring \ {r} : n # a => f[n] = back[n]
    BY <1>4, <1>10
  <2> QED BY <2>1
<1>12. \A n \in Ring \ {r} :
         next'[n] \in Ring \ {r} /\ back2[next'[n]] = n /\ next'[back2[n]] = n
  <2> TAKE n \in Ring \ {r}
  <2>1. next'[n] \in Ring \ {r} /\ back2[next'[n]] = n
    <3>1. CASE n = b
      BY <1>4, <1>9, <1>11, <3>1
    <3>2. CASE n # b
      <4>1. next'[n] = next[n] /\ next[n] \in Ring \ {r} /\ back[next[n]] = n
        BY <1>9, <1>10, <3>2
      <4>2. next[n] # a
        BY <1>4, <4>1
      <4> QED BY <1>11, <4>1, <4>2
    <3> QED BY <3>1, <3>2
  <2>2. next'[back2[n]] = n
    <3>1. CASE n = a
      BY <1>4, <1>9, <1>11, <3>1
    <3>2. CASE n # a
      <4>1. back2[n] = back[n] /\ back[n] \in Ring \ {r} /\ next[back[n]] = n
        BY <1>10, <1>11, <3>2
      <4>2. back[n] # b
        BY <1>4, <4>1
      <4> QED BY <1>9, <4>1, <4>2
    <3> QED BY <3>1, <3>2
  <2> QED BY <2>1, <2>2
<1>13. ASSUME NEW S \in SUBSET (Linked \ {r}), S # {}
       PROVE  \E n \in S : back2[n] \notin S
  <2>1. \A n \in S : n \in Ring \ {r} /\ (n # a => back2[n] = back[n])
    BY <1>11, <1>13, NodeFacts
  <2>2. CASE a \notin S
    <3>1. S \in SUBSET Linked
      BY <1>13
    <3>2. PICK n \in S : back[n] \notin S
      BY <1>1, <1>13, <3>1 DEF RingWith
    <3> QED BY <2>1, <2>2, <3>2
  <2>3. CASE a \in S
    <3>1. S \cup {r} \in SUBSET Linked /\ S \cup {r} # {}
      BY <1>3, <1>13
    <3>2. PICK n \in S \cup {r} : back[n] \notin S \cup {r}
      BY <1>1, <3>1 DEF RingWith
    <3>3. CASE n = r
      BY <1>4, <1>11, <2>3, <3>2, <3>3
    <3>4. CASE n # r
      <4>1. n # a /\ n \in S
        BY <1>4, <3>2, <3>4
      <4> QED BY <2>1, <3>2, <4>1
    <3> QED BY <3>3, <3>4
  <2> QED BY <2>2, <2>3
<1>14. RingWith(back2)'
  BY <1>7, <1>8, <1>12, <1>13 DEF RingWith
<1>15. \A n \in Ring \ {r} : prev'[n] = back2[n]
  BY <1>5, <1>6, <1>9, <1>11
<1>16. BackPointers(back2)'
  BY <1>2, <1>4, <1>5, <1>7, <1>8, <1>9, <1>15 DEF BackPointers, Busy
<1>17. WalkWith(back2)'
  <2> SUFFICES ASSUME NEW w \in Walkers, mutex = w
               PROVE  /\ pos[w] \in Ring
                      /\ \A q \in (Linked \ {r}) \ visited[w] :
                           \/ q = (IF pos[w] = r THEN a ELSE pos[w])
                           \/ back2[q] \in (Linked \ {r}) \ visited[w]
    <3>1. UNCHANGED <<mutex, pos, visited>>
      BY DEF list_del_forward
    <3>2. ASSUME NEW w \in Walkers, pos[w] \in Ring
          PROVE  /\ pos[w] \in Ring' \cup {q \in ListReaders : file'[q] = "unlinked"}
                 /\ Cursor(w)' = IF pos[w] = r THEN a ELSE pos[w]
      BY <1>3, <1>5, <1>7, <1>8, <1>9, <3>1, <3>2 DEF Cursor
    <3> QED BY <1>7, <3>1, <3>2 DEF WalkWith
  <2>1. pos[w] \in Ring /\ Cursor(w) = pos[w]
    <3>1. \A q \in ListReaders : file[q] # "unlinked"
      BY <1>2, <1>3 DEF Busy
    <3> QED BY <1>1, <3>1, WalkOnRing
  <2>2. \A q \in Linked \ visited[w] : q = pos[w] \/ back[q] \in Linked \ visited[w]
    BY <1>1, <2>1 DEF WalkWith
  <2>3. ASSUME NEW q \in (Linked \ {r}) \ visited[w], q # (IF pos[w] = r THEN a ELSE pos[w])
        PROVE  back2[q] \in (Linked \ {r}) \ visited[w]
    <3>1. q \in Ring \ {r} /\ q \in Linked \ visited[w]
      BY <2>3, NodeFacts
    <3>2. CASE q = a
      <4>1. q # pos[w] /\ back[q] = r
        BY <1>4, <2>3, <3>1, <3>2
      <4>2. r \in Linked \ visited[w] /\ r # pos[w]
        BY <2>2, <2>3, <3>1, <3>2, <4>1
      <4>3. b \in Linked \ visited[w]
        BY <1>4, <2>2, <4>2
      <4> QED BY <1>4, <1>11, <3>2, <4>3
    <3>3. CASE q # a
      <4>1. back2[q] = back[q] /\ back[q] # r
        BY <1>10, <1>11, <3>1, <3>3
      <4>2. q # pos[w]
        BY <2>3, <3>1
      <4> QED BY <2>2, <3>1, <4>1, <4>2
    <3> QED BY <3>2, <3>3
  <2> QED BY <2>1, <2>3
<1> QED BY <1>8, <1>11, <1>14, <1>16, <1>17 DEF RingInv

\* kfree: the reader is off the list, and no walk is at it.
LEMMA ReleaseFree ==
  ASSUME ReadersAssumption, ~ raced', RLTypeOK, OneAtATime, RingInv,
         NEW r \in ListReaders, release_free(r)
  PROVE  RingInv'
<1>1. PICK back \in [Ring -> Ring] : RingWith(back) /\ BackPointers(back) /\ WalkWith(back)
  BY DEF RingInv
<1>2. \A q \in ListReaders : q # r => ~ Busy(q)
  BY DEF release_free, OneAtATime, Busy
<1>3. r \notin Linked /\ r \notin Ring /\ file[r] = "unlinked" /\ file' = [file EXCEPT ![r] = "closed"]
  BY NodeFacts DEF release_free, Linked, Ring
<1>4. \A n \in Ring : prev[n] = back[n]
  BY <1>1, <1>2, <1>3 DEF BackPointers, Busy
<1>5. Linked' = Linked /\ file'[r] = "closed" /\ \A q \in ListReaders : q # r => file'[q] = file[q]
  <2>1. Linked' = Linked \ {r}
    BY <1>3, FileMoves
  <2>2. Linked \ {r} = Linked
    BY <1>3
  <2>3. \A q \in ListReaders : q # r => file'[q] = file[q]
    BY <1>3, FileMoves
  <2> QED BY <1>3, <2>1, <2>2, <2>3 DEF RLTypeOK
<1>6. \A n \in Ring : next'[n] = next[n] /\ prev'[n] = prev[n]
  BY <1>3, NodeFacts DEF release_free, RLTypeOK
<1>7. Ring' = Ring /\ RingWith(back)'
  BY <1>1, <1>5, <1>6, RingStays
<1>8. BackPointers(back)'
  BY <1>2, <1>4, <1>5, <1>6, <1>7 DEF BackPointers, Busy
<1>9. WalkWith(back)'
  <2>1. UNCHANGED <<mutex, pos, visited>> /\ \A w \in Walkers : mutex = w => pos[w] # r
    BY DEF release_free
  <2>2. \A w \in Walkers : mutex = w => pos[w] \in Ring
    BY <1>1, <1>2, <2>1 DEF WalkWith, Busy
  <2> QED BY <1>1, <1>5, <1>7, <2>1, <2>2 DEF WalkWith, Cursor
<1> QED BY <1>1, <1>7, <1>8, <1>9 DEF RingInv

-----------------------------------------------------------------------------
\* A walk goes on, also when its reader was taken off the list.
LEMMA WalkStep ==
  ASSUME ReadersAssumption, RLTypeOK, RingInv,
         NEW w \in Walkers, walk_lock(w) \/ walk_reader(w) \/ walk_unlock(w)
  PROVE  RingInv'
<1>1. UNCHANGED <<next, prev, file, before, after>>
  BY DEF walk_lock, walk_reader, walk_unlock
<1>2. Linked' = Linked /\ Ring' = Ring
  BY <1>1 DEF Linked, Ring
<1>3. PICK back \in [Ring -> Ring] : RingWith(back) /\ BackPointers(back) /\ WalkWith(back)
  BY DEF RingInv
<1>4. RingWith(back)' /\ BackPointers(back)'
  BY <1>1, <1>2, <1>3 DEF RingWith, BackPointers
<1>5. \A n \in Ring : next[n] \in Ring /\ back[n] \in Ring /\ next[back[n]] = n
  BY <1>3 DEF RingWith
<1>6. WalkWith(back)'
  <2>1. CASE walk_lock(w)
    <3>1. mutex' = w /\ pos'[w] = next[ListHead] /\ visited'[w] = {}
      BY <2>1 DEF walk_lock, RLTypeOK
    <3>2. pos'[w] \in Ring /\ Cursor(w)' = next[ListHead]
      BY <1>2, <1>5, <3>1, NodeFacts DEF Cursor
    <3>3. ASSUME NEW r \in Linked PROVE r = next[ListHead] \/ back[r] \in Linked
      BY <1>5, NodeFacts
    <3> QED BY <1>1, <1>2, <3>1, <3>2, <3>3 DEF WalkWith
  <2>2. CASE walk_reader(w)
    <3>1. /\ mutex = w /\ mutex' = w /\ pos[w] \in ListReaders
          /\ visited'[w] = visited[w] \cup {pos[w]} /\ pos'[w] = next[pos[w]]
      BY <2>2 DEF walk_reader, RLTypeOK
    <3>2. /\ pos[w] \in Linked \/ (pos[w] \notin Ring /\ file[pos[w]] = "unlinked")
          /\ \A r \in Linked \ visited[w] : r = Cursor(w) \/ back[r] \in Linked \ visited[w]
      BY <1>3, <3>1, NodeFacts DEF WalkWith, Linked, Ring
    <3>3. pos'[w] \in Ring /\ Cursor(w)' = next[pos[w]]
      <4>1. next[pos[w]] \in Ring
        BY <1>3, <1>5, <3>1, <3>2, NodeFacts DEF BackPointers
      <4> QED BY <1>2, <3>1, <4>1 DEF Cursor
    <3>4. ASSUME NEW r \in Linked \ (visited[w] \cup {pos[w]})
          PROVE  r = next[pos[w]] \/ back[r] \in Linked \ (visited[w] \cup {pos[w]})
      <4>1. CASE pos[w] \in Linked
        <5>1. Cursor(w) = pos[w]
          BY <4>1, NodeFacts DEF Cursor
        <5> QED BY <1>5, <3>2, <5>1, NodeFacts
      <4>2. CASE pos[w] \notin Ring /\ file[pos[w]] = "unlinked"
        <5>1. Cursor(w) = next[pos[w]] /\ pos[w] \notin Linked
          BY <1>3, <3>1, <4>2, NodeFacts DEF Cursor, BackPointers
        <5> QED BY <3>2, <5>1
      <4> QED BY <3>2, <4>1, <4>2
    <3> QED BY <1>1, <1>2, <3>1, <3>3, <3>4 DEF WalkWith
  <2>3. CASE walk_unlock(w)
    BY <2>3, NodeFacts DEF walk_unlock, WalkWith
  <2> QED BY <2>1, <2>2, <2>3
<1> QED BY <1>2, <1>3, <1>4, <1>6 DEF RingInv

\* Every step keeps the list a ring and the walks on it, unless it is a race.
LEMMA ReadersNext ==
  ASSUME ReadersAssumption, ReadersInv, [RLNext]_rlVars
  PROVE  ReadersInv'
<1>1. RLTypeOK'
  BY Types DEF ReadersInv
<1> SUFFICES ASSUME ~ raced' PROVE OneAtATime' /\ RingInv'
  BY <1>1 DEF ReadersInv
<1>2. RLTypeOK /\ OneAtATime /\ RingInv
  BY RacedStays DEF ReadersInv
<1>3. OneAtATime'
  BY <1>2, OneNext
<1>4. ASSUME NEW r \in ListReaders,
             \/ open_lock(r) \/ list_add_back(r) \/ open_unlock(r) \/ release_start(r)
             \/ list_del_back(r) \/ list_del_forward(r) \/ release_free(r)
      PROVE  RingInv'
  BY <1>2, <1>4, OpenLock, AddBack, OpenUnlock, ReleaseStart, DelBack, DelForward, ReleaseFree
<1>5. ASSUME NEW w \in Walkers, walk_lock(w) \/ walk_reader(w) \/ walk_unlock(w)
      PROVE  RingInv'
  BY <1>2, <1>5, WalkStep
<1>6. CASE UNCHANGED rlVars
  <2>1. Linked' = Linked /\ Ring' = Ring
    BY <1>6 DEF rlVars, Linked, Ring
  <2>2. \A back : /\ RingWith(back) => RingWith(back)'
                  /\ BackPointers(back) => BackPointers(back)'
                  /\ WalkWith(back) => WalkWith(back)'
    BY <1>6, <2>1 DEF rlVars, RingWith, BackPointers, WalkWith, Cursor
  <2>3. PICK back \in [Ring -> Ring] : RingWith(back) /\ BackPointers(back) /\ WalkWith(back)
    BY <1>2 DEF RingInv
  <2>4. RingWith(back)' /\ BackPointers(back)' /\ WalkWith(back)'
    BY <2>2, <2>3
  <2> QED BY <1>3, <2>1, <2>3, <2>4 DEF RingInv
<1> QED BY <1>3, <1>4, <1>5, <1>6 DEF RLNext, release_oops, walk_oops

\* The list of a new log is its head alone.
LEMMA ReadersStart ==
  ASSUME ReadersAssumption, RLInit
  PROVE  ReadersInv
<1>1. Linked = {} /\ Ring = {ListHead} /\ mutex \notin Walkers /\ mutex \notin ListReaders
  BY NodeFacts DEF RLInit, Linked, Ring
<1>2. RLTypeOK
  BY NodeFacts DEF RLInit, RLTypeOK
<1>3. OneAtATime
  BY <1>1 DEF RLInit, OneAtATime, Busy
<1>4. RingInv
  <2>1. PICK back \in [Ring -> Ring] : back[ListHead] = ListHead
    <3> DEFINE f == [n \in Ring |-> ListHead]
    <3>1. f \in [Ring -> Ring] /\ f[ListHead] = ListHead
      BY <1>1
    <3> QED BY <3>1
  <2>2. next[ListHead] = ListHead /\ prev[ListHead] = ListHead
    BY NodeFacts DEF RLInit
  <2>3. RingWith(back)
    BY <1>1, <2>1, <2>2 DEF RingWith
  <2>4. BackPointers(back)
    BY <1>1, <2>1, <2>2 DEF BackPointers, RLInit
  <2>5. WalkWith(back)
    BY <1>1 DEF WalkWith
  <2> QED BY <2>1, <2>3, <2>4, <2>5 DEF RingInv
<1> QED BY <1>2, <1>3, <1>4 DEF ReadersInv

\* Without a race the list is a ring, and a walk has come by all readers behind it.
LEMMA ReadersAlways ==
  ASSUME ReadersAssumption
  PROVE  RLSpec => []ReadersInv
<1>1. RLInit => ReadersInv
  BY ReadersStart
<1>2. ReadersInv /\ [RLNext]_rlVars => ReadersInv'
  BY ReadersNext
<1> QED BY <1>1, <1>2, PTL DEF RLSpec

\* Such a walk is at a reader that was not freed, or at the head of the list.
LEMMA AtLiveReader ==
  ASSUME ReadersAssumption, ReadersInv, ~ raced
  PROVE  WalkedReadersLive
<1>1. PICK back \in [Ring -> Ring] : WalkWith(back)
  BY DEF ReadersInv, RingInv
<1> QED BY <1>1 DEF WalkWith, WalkedReadersLive, Ring, Linked, Live

(***************************************************************************)
(* For any number of readers that are opened and released in any order and *)
(* at any time, of which logger_release takes no lock: as long as no       *)
(* change of the list overlapped another and no reader was freed under a   *)
(* cursor, a walk of fix_up_readers or LOGGER_FLUSH_LOG is never at freed  *)
(* memory, and at its end it has come by every reader on the list          *)
(* (logger_open's list_add_tail, logger_release's list_del).               *)
(***************************************************************************)
THEOREM WalkAlwaysComplete ==
  ASSUME ReadersAssumption
  PROVE  RLSpec => []WalkComplete
<1>1. ASSUME ReadersInv PROVE WalkComplete
  <2> SUFFICES ASSUME ~ raced, NEW w \in Walkers, mutex = w, pos[w] = ListHead
               PROVE  Linked \subseteq visited[w]
    BY <1>1, AtLiveReader DEF WalkComplete
  <2>1. PICK back \in [Ring -> Ring] : RingWith(back) /\ WalkWith(back)
    BY <1>1 DEF ReadersInv, RingInv
  <2>2. \A r \in Linked \ visited[w] : back[r] \in Linked \ visited[w]
    BY <2>1, NodeFacts DEF WalkWith, Cursor
  <2>3. Linked \ visited[w] = {}
    <3> SUFFICES ASSUME Linked \ visited[w] # {} PROVE FALSE
      OBVIOUS
    <3>1. PICK n \in Linked \ visited[w] : back[n] \notin Linked \ visited[w]
      BY <2>1 DEF RingWith
    <3> QED BY <2>2, <3>1
  <2> QED BY <2>3
<1> QED BY <1>1, ReadersAlways, PTL
-----------------------------------------------------------------------------
(***************************************************************************)
(* The statistics: one lock.                                               *)
(***************************************************************************)
Over(k, n) == k.auto /\ k.expires <= n
EndAt(k, n) == IF Over(k, n) THEN k.expires ELSE n

\* The record k at the time n shows the time h of use, of which p were charged, c
\* uses and o of them timed out; u is last_sleep_time_update.
ShowsAt(k, n, u, h, p, c, o) ==
  /\ k.total + (IF k.active THEN EndAt(k, n) - k.last ELSE 0) = h
  /\ k.prevent + (IF k.active /\ k.preventing THEN EndAt(k, n) - u ELSE 0) = p
  /\ k.count + (IF k.active THEN 1 ELSE 0) = c
  /\ k.expire_count + (IF k.active /\ Over(k, n) THEN 1 ELSE 0) = o

SettledAt(k, n) ==
  /\ ~ k.active => ~ k.auto /\ ~ k.preventing
  /\ 0 <= k.max /\ k.max <= k.total
  /\ k.active => k.last <= EndAt(k, n)

\* The record k is charged for the present exactly if main_wake_lock, active if m,
\* is not held.
ChargedAt(k, n, m) == k.active => IF m THEN ~ k.preventing ELSE Over(k, n) \/ k.preventing

\* The fields of a record.
LEMMA RecordFields ==
  ASSUME NEW k \in LockRecords
  PROVE  /\ k.init \in BOOLEAN /\ k.active \in BOOLEAN /\ k.auto \in BOOLEAN /\ k.preventing \in BOOLEAN
         /\ k.expires \in Int /\ k.count \in Int /\ k.expire_count \in Int /\ k.wakeup_count \in Int
         /\ k.total \in Int /\ k.prevent \in Int /\ k.max \in Int /\ k.last \in Int
BY DEF LockRecords

\* The use of a lock ends now, or ended when its timeout did.
LEMMA EndIsNumber ==
  ASSUME NEW k \in LockRecords, NEW n \in Int
  PROVE  EndAt(k, n) \in Int /\ EndAt(k, n) <= n
BY RecordFields DEF EndAt, Over

\* get_expired_time, as the model and as the invariant write it.
LEMMA EndsNow ==
  ASSUME NEW k
  PROVE  EndTime(k) = EndAt(k, now) /\ (IsExpired(k) <=> Over(k, now))
BY DEF EndTime, EndAt, IsExpired, Over

\* wake_unlock_stat_locked
LEMMA UnlockFields ==
  ASSUME NEW k \in LockRecords, k.active, now \in Int, last_update \in Int, NEW e \in BOOLEAN
  PROVE  LET y == UnlockStat(k, e) IN
         /\ y \in LockRecords
         /\ y.init = k.init /\ y.active = k.active /\ y.auto = k.auto /\ y.expires = k.expires
         /\ y.count = k.count + 1
         /\ y.expire_count = IF e \/ Over(k, now) THEN k.expire_count + 1 ELSE k.expire_count
         /\ y.total = k.total + (EndAt(k, now) - k.last)
         /\ y.max = IF EndAt(k, now) - k.last > k.max THEN EndAt(k, now) - k.last ELSE k.max
         /\ y.last = now /\ y.preventing = FALSE
         /\ y.prevent = IF k.preventing THEN k.prevent + (EndAt(k, now) - last_update) ELSE k.prevent
<1>1. PICK x \in Int : x = EndAt(k, now) /\ x = EndTime(k)
  BY EndIsNumber, EndsNow
<1>2. PICK q : q = IF e \/ IsExpired(k) THEN k.expire_count + 1 ELSE k.expire_count
  OBVIOUS
<1>3. q = IF e \/ Over(k, now) THEN k.expire_count + 1 ELSE k.expire_count
  BY <1>2, EndsNow
<1>4. q \in Int
  BY <1>3, RecordFields
<1>5. UnlockStat(k, e) =
        [k EXCEPT !.count = @ + 1, !.expire_count = q, !.total = @ + (x - k.last),
                  !.max = IF x - k.last > @ THEN x - k.last ELSE @, !.last = now,
                  !.prevent = IF k.preventing THEN @ + (x - last_update) ELSE @,
                  !.preventing = FALSE]
  BY <1>1, <1>2 DEF UnlockStat
<1>6. PICK g, m, v :
        /\ g = k.total + (x - k.last)
        /\ m = IF x - k.last > k.max THEN x - k.last ELSE k.max
        /\ v = IF k.preventing THEN k.prevent + (x - last_update) ELSE k.prevent
  OBVIOUS
<1>7. g \in Int /\ m \in Int /\ v \in Int /\ k.count + 1 \in Int
  BY <1>1, <1>6, RecordFields
<1>8. PICK c : c = k.count + 1 /\ c \in Int
  BY <1>7
<1>9. UnlockStat(k, e) =
        [k EXCEPT !.count = c, !.expire_count = q, !.total = g, !.max = m, !.last = now,
                  !.prevent = v, !.preventing = FALSE]
  BY <1>5, <1>6, <1>8
<1>10. UnlockStat(k, e) \in LockRecords
  BY <1>4, <1>7, <1>8, <1>9 DEF LockRecords
<1> QED BY <1>1, <1>3, <1>6, <1>8, <1>9, <1>10, ZenonT(40) DEF LockRecords
\* wake_unlock_stat_locked and the flags of a lock that is not active any more, for
\* wake_unlock and expire_wake_lock
Ended(k, e) == [UnlockStat(k, e) EXCEPT !.active = FALSE, !.auto = FALSE]

\* A use that ends, unlocked or timed out, is shown after it as it was before.
LEMMA EndedKeeps ==
  ASSUME now \in Int, last_update \in Int, NEW k \in LockRecords, SettledAt(k, now),
         NEW e \in BOOLEAN, e => Over(k, now),
         NEW u, u = last_update \/ ~ k.preventing, NEW v \in Int,
         NEW h \in Int, NEW p \in Int, NEW c \in Int, NEW o \in Int
  PROVE  LET y == Ended(k, e) IN
         /\ y \in LockRecords
         /\ y.init = k.init /\ ~ y.active /\ ~ y.auto
         /\ SettledAt(y, now)
         /\ ShowsAt(k, now, u, h, p, c, o) => ShowsAt(y, now, v, h, p, c, o)
<1>1. CASE ~ k.active
  <2>1. UnlockStat(k, e) = k
    BY <1>1 DEF UnlockStat
  <2>2. PICK y : y = Ended(k, e) /\ y = [k EXCEPT !.active = FALSE, !.auto = FALSE]
    BY <2>1 DEF Ended
  <2>3. /\ y \in LockRecords /\ y.init = k.init /\ ~ y.active /\ ~ y.auto
        /\ y.preventing = k.preventing /\ y.total = k.total /\ y.prevent = k.prevent
        /\ y.max = k.max /\ y.count = k.count /\ y.expire_count = k.expire_count
    BY <2>2 DEF LockRecords
  <2>4. SettledAt(y, now)
    BY <1>1, <2>3 DEF SettledAt
  <2>5. ShowsAt(k, now, u, h, p, c, o) => ShowsAt(y, now, v, h, p, c, o)
    BY <1>1, <2>3 DEF ShowsAt
  <2> QED BY <2>2, <2>3, <2>4, <2>5
<1>2. CASE k.active
  <2>1. PICK z : z = UnlockStat(k, e)
    OBVIOUS
  <2>2. PICK x \in Int : x = EndAt(k, now)
    BY EndIsNumber
  <2>3. /\ z \in LockRecords /\ z.init = k.init
        /\ z.count = k.count + 1
        /\ z.expire_count = IF e \/ Over(k, now) THEN k.expire_count + 1 ELSE k.expire_count
        /\ z.total = k.total + (x - k.last)
        /\ z.max = IF x - k.last > k.max THEN x - k.last ELSE k.max
        /\ z.preventing = FALSE
        /\ z.prevent = IF k.preventing THEN k.prevent + (x - last_update) ELSE k.prevent
    BY <1>2, <2>1, <2>2, UnlockFields
  <2>4. PICK y : y = Ended(k, e) /\ y = [z EXCEPT !.active = FALSE, !.auto = FALSE]
    BY <2>1 DEF Ended
  <2>5. /\ y \in LockRecords /\ y.init = k.init /\ y.active = FALSE /\ y.auto = FALSE
        /\ y.preventing = z.preventing /\ y.total = z.total /\ y.prevent = z.prevent
        /\ y.max = z.max /\ y.count = z.count /\ y.expire_count = z.expire_count
    BY <2>3, <2>4 DEF LockRecords
  <2>6. k.last <= x /\ 0 <= k.max /\ k.max <= k.total
    BY <1>2, <2>2 DEF SettledAt
  <2>7. 0 <= y.max /\ y.max <= y.total
    BY <2>3, <2>5, <2>6, RecordFields
  <2>8. SettledAt(y, now)
    BY <2>3, <2>5, <2>7 DEF SettledAt
  <2>9. ASSUME ShowsAt(k, now, u, h, p, c, o) PROVE ShowsAt(y, now, v, h, p, c, o)
    <3>1. k.total + (x - k.last) = h
      BY <1>2, <2>2, <2>9 DEF ShowsAt
    <3>2. k.prevent + (IF k.preventing THEN x - u ELSE 0) = p
      BY <1>2, <2>2, <2>9 DEF ShowsAt
    <3>3. k.count + 1 = c
      BY <1>2, <2>9 DEF ShowsAt
    <3>4. k.expire_count + (IF Over(k, now) THEN 1 ELSE 0) = o
      BY <1>2, <2>9 DEF ShowsAt
    <3>5. y.total = h /\ y.count = c
      BY <2>3, <2>5, <3>1, <3>3
    <3>6. y.prevent = p
      BY <2>3, <2>5, <3>2, RecordFields
    <3>7. y.expire_count = o
      BY <2>3, <2>5, <3>4, RecordFields
    <3> QED BY <2>5, <3>5, <3>6, <3>7, RecordFields DEF ShowsAt
  <2> QED BY <2>4, <2>5, <2>8, <2>9
<1> QED BY <1>1, <1>2, RecordFields

\* update_sleep_wait_stats_locked on one record
Updated(k, done) ==
  IF ~ k.active THEN k
  ELSE [k EXCEPT !.prevent = IF k.preventing THEN @ + EndTime(k) - last_update ELSE @,
                 !.preventing = ~ (done \/ IsExpired(k))]

\* update_sleep_wait_stats moves time into prevent that was shown before.
LEMMA UpdatedKeeps ==
  ASSUME now \in Int, last_update \in Int, NEW k \in LockRecords, SettledAt(k, now),
         NEW done \in BOOLEAN,
         NEW h \in Int, NEW p \in Int, NEW c \in Int, NEW o \in Int
  PROVE  LET z == Updated(k, done) IN
         /\ z \in LockRecords
         /\ z.init = k.init /\ z.active = k.active /\ z.auto = k.auto /\ z.expires = k.expires
         /\ SettledAt(z, now) /\ ChargedAt(z, now, done)
         /\ Over(z, now) => ~ z.preventing
         /\ ShowsAt(k, now, last_update, h, p, c, o) => ShowsAt(z, now, now, h, p, c, o)
<1>1. CASE ~ k.active
  <2>1. Updated(k, done) = k
    BY <1>1 DEF Updated
  <2>2. ~ k.preventing
    BY <1>1 DEF SettledAt
  <2> QED BY <1>1, <2>1, <2>2 DEF ChargedAt, ShowsAt
<1>2. CASE k.active
  <2>1. PICK x \in Int : x = EndAt(k, now) /\ x = EndTime(k)
    BY EndIsNumber, EndsNow
  <2>2. PICK v : v = IF k.preventing THEN k.prevent + (x - last_update) ELSE k.prevent
    OBVIOUS
  <2>3. v \in Int
    BY <2>2, RecordFields
  <2>4. PICK b \in BOOLEAN : b = ~ (done \/ IsExpired(k))
    OBVIOUS
  <2>5. b <=> ~ done /\ ~ Over(k, now)
    BY <2>4, EndsNow
  <2>6. PICK z : z = Updated(k, done) /\ z = [k EXCEPT !.prevent = v, !.preventing = b]
    BY <1>2, <2>1, <2>2, <2>4 DEF Updated
  <2>7. /\ z \in LockRecords /\ z.init = k.init /\ z.active = k.active /\ z.auto = k.auto
        /\ z.expires = k.expires /\ z.preventing = b /\ z.prevent = v /\ z.total = k.total
        /\ z.max = k.max /\ z.last = k.last /\ z.count = k.count /\ z.expire_count = k.expire_count
    BY <2>3, <2>6 DEF LockRecords
  <2>8. (Over(z, now) <=> Over(k, now)) /\ EndAt(z, now) = x
    BY <2>1, <2>7 DEF Over, EndAt
  <2>9. SettledAt(z, now)
    BY <1>2, <2>1, <2>7, <2>8 DEF SettledAt
  <2>10. ChargedAt(z, now, done) /\ (Over(z, now) => ~ z.preventing)
    BY <2>5, <2>7, <2>8 DEF ChargedAt
  <2>11. ASSUME ShowsAt(k, now, last_update, h, p, c, o) PROVE ShowsAt(z, now, now, h, p, c, o)
    <3>1. z.total + (IF z.active THEN EndAt(z, now) - z.last ELSE 0) = h
      BY <2>1, <2>7, <2>8, <2>11 DEF ShowsAt
    <3>2. z.prevent + (IF z.active /\ z.preventing THEN EndAt(z, now) - now ELSE 0) = p
      <4>1. k.prevent + (IF k.preventing THEN x - last_update ELSE 0) = p
        BY <1>2, <2>1, <2>11 DEF ShowsAt
      <4>2. v = p
        BY <2>2, <4>1, RecordFields
      <4>3. z.preventing => EndAt(z, now) = now
        BY <2>5, <2>7, <2>8 DEF EndAt
      <4> QED BY <2>7, <2>8, <4>2, <4>3
    <3>3. z.count + (IF z.active THEN 1 ELSE 0) = c
      BY <2>7, <2>11 DEF ShowsAt
    <3>4. z.expire_count + (IF z.active /\ Over(z, now) THEN 1 ELSE 0) = o
      BY <2>7, <2>8, <2>11 DEF ShowsAt
    <3> QED BY <3>1, <3>2, <3>3, <3>4 DEF ShowsAt
  <2> QED BY <2>6, <2>7, <2>9, <2>10, <2>11
<1> QED BY <1>1, <1>2, RecordFields
\* What w shows if it is active at the present, which ends no use.
ShowsNow(w, u, h, p, c, o) ==
  /\ w.total + (now - w.last) = h
  /\ w.prevent + (IF w.preventing THEN now - u ELSE 0) = p
  /\ w.count + 1 = c
  /\ w.expire_count = o

\* A lock taken again settles the use before, if that had timed out unnoticed.
LEMMA RetakenShows ==
  ASSUME now \in Int, last_update \in Int, NEW k \in LockRecords, SettledAt(k, now),
         NEW h \in Int, NEW p \in Int, NEW c \in Int, NEW o \in Int
  PROVE  LET w == Retaken(k) IN
         /\ w \in LockRecords
         /\ w.init = k.init /\ w.active
         /\ w.last <= now /\ 0 <= w.max /\ w.max <= w.total
         /\ w.preventing => k.preventing
         /\ ShowsAt(k, now, last_update, h, p, c, o) =>
              ShowsNow(w, last_update, h, p, IF k.active /\ ~ Over(k, now) THEN c ELSE c + 1, o)
<1>1. CASE k.active /\ ~ Over(k, now)
  <2>1. Retaken(k) = k
    BY <1>1, EndsNow DEF Retaken
  <2>2. EndAt(k, now) = now
    BY <1>1 DEF EndAt
  <2>3. k.last <= now /\ 0 <= k.max /\ k.max <= k.total
    BY <1>1, <2>2 DEF SettledAt
  <2>4. ASSUME ShowsAt(k, now, last_update, h, p, c, o) PROVE ShowsNow(k, last_update, h, p, c, o)
    BY <1>1, <2>2, <2>4, RecordFields DEF ShowsAt, ShowsNow
  <2> QED BY <1>1, <2>1, <2>3, <2>4
<1>2. CASE k.active /\ Over(k, now)
  <2>1. PICK z : z = UnlockStat(k, FALSE)
    OBVIOUS
  <2>2. PICK x \in Int : x = EndAt(k, now)
    BY EndIsNumber
  <2>3. /\ z \in LockRecords /\ z.init = k.init /\ z.active = k.active
        /\ z.count = k.count + 1
        /\ z.expire_count = k.expire_count + 1
        /\ z.total = k.total + (x - k.last)
        /\ z.max = IF x - k.last > k.max THEN x - k.last ELSE k.max
        /\ z.preventing = FALSE
        /\ z.prevent = IF k.preventing THEN k.prevent + (x - last_update) ELSE k.prevent
    BY <1>2, <2>1, <2>2, UnlockFields
  <2>4. PICK w : w = Retaken(k) /\ w = [z EXCEPT !.last = now]
    <3>1. PICK w : w = [z EXCEPT !.last = now]
      OBVIOUS
    <3>2. w.active
      BY <1>2, <2>3, <3>1 DEF LockRecords
    <3>3. Retaken(k) = IF w.active THEN w ELSE [w EXCEPT !.active = TRUE, !.last = now]
      BY <1>2, <2>1, <3>1, EndsNow DEF Retaken
    <3> QED BY <3>1, <3>2, <3>3
  <2>5. /\ w \in LockRecords /\ w.init = k.init /\ w.active = TRUE /\ w.last = now
        /\ w.preventing = z.preventing /\ w.total = z.total /\ w.prevent = z.prevent
        /\ w.max = z.max /\ w.count = z.count /\ w.expire_count = z.expire_count
    BY <1>2, <2>3, <2>4 DEF LockRecords
  <2>6. k.last <= x /\ 0 <= k.max /\ k.max <= k.total
    BY <1>2, <2>2 DEF SettledAt
  <2>7. 0 <= w.max /\ w.max <= w.total
    BY <2>3, <2>5, <2>6, RecordFields
  <2>8. ASSUME ShowsAt(k, now, last_update, h, p, c, o)
        PROVE  ShowsNow(w, last_update, h, p, c + 1, o)
    <3>1. k.total + (x - k.last) = h
      BY <1>2, <2>2, <2>8 DEF ShowsAt
    <3>2. k.prevent + (IF k.preventing THEN x - last_update ELSE 0) = p
      BY <1>2, <2>2, <2>8 DEF ShowsAt
    <3>3. k.count + 1 = c
      BY <1>2, <2>8 DEF ShowsAt
    <3>4. k.expire_count + 1 = o
      BY <1>2, <2>8 DEF ShowsAt
    <3>5. w.total + (now - w.last) = h
      BY <2>3, <2>5, <3>1
    <3>6. w.prevent + (IF w.preventing THEN now - last_update ELSE 0) = p
      BY <2>3, <2>5, <3>2, RecordFields
    <3>7. w.count + 1 = c + 1 /\ w.expire_count = o
      BY <2>3, <2>5, <3>3, <3>4, RecordFields
    <3> QED BY <3>5, <3>6, <3>7 DEF ShowsNow
  <2>9. w.last <= now /\ ~ w.preventing
    BY <2>3, <2>5
  <2>10. (IF k.active /\ ~ Over(k, now) THEN c ELSE c + 1) = c + 1
    BY <1>2
  <2> QED BY <2>4, <2>5, <2>7, <2>8, <2>9, <2>10
<1>3. CASE ~ k.active
  <2>1. ~ k.auto /\ ~ k.preventing /\ 0 <= k.max /\ k.max <= k.total
    BY <1>3 DEF SettledAt
  <2>2. PICK w : w = Retaken(k) /\ w = [k EXCEPT !.active = TRUE, !.last = now]
    BY <1>3, <2>1 DEF Retaken, IsExpired
  <2>3. /\ w \in LockRecords /\ w.init = k.init /\ w.active = TRUE /\ w.last = now
        /\ w.preventing = k.preventing /\ w.total = k.total /\ w.prevent = k.prevent
        /\ w.max = k.max /\ w.count = k.count /\ w.expire_count = k.expire_count
    BY <2>2 DEF LockRecords
  <2>4. ASSUME ShowsAt(k, now, last_update, h, p, c, o)
        PROVE  ShowsNow(w, last_update, h, p, c + 1, o)
    <3>1. k.total = h /\ k.prevent = p /\ k.count = c /\ k.expire_count = o
      BY <1>3, <2>4, RecordFields DEF ShowsAt
    <3> QED BY <2>1, <2>3, <3>1 DEF ShowsNow
  <2>5. (IF k.active /\ ~ Over(k, now) THEN c ELSE c + 1) = c + 1
    BY <1>3
  <2> QED BY <2>1, <2>2, <2>3, <2>4, <2>5
<1> QED BY <1>1, <1>2, <1>3, RecordFields

\* The record k when wake_lock_internal has set its timeout; b: it has one.
TakenUntil(k, b, x) ==
  LET w == IF wait_for_wakeup THEN [Retaken(k) EXCEPT !.wakeup_count = @ + 1] ELSE Retaken(k)
  IN  [w EXCEPT !.auto = b, !.expires = x]

\* A lock that is taken counts one use more unless it was in use, and one timeout more
\* if its timeout is zero.
LEMMA TakenKeeps ==
  ASSUME now \in Int, last_update \in Int, NEW k \in LockRecords, SettledAt(k, now),
         NEW b \in BOOLEAN, NEW x \in Int, b => now <= x,
         NEW h \in Int, NEW p \in Int, NEW c \in Int, NEW o \in Int
  PROVE  LET y == TakenUntil(k, b, x) IN
         /\ y \in LockRecords
         /\ y.init = k.init /\ y.active /\ y.auto = b
         /\ SettledAt(y, now)
         /\ y.preventing => k.preventing
         /\ ShowsAt(k, now, last_update, h, p, c, o) =>
              ShowsAt(y, now, last_update, h, p,
                      IF k.active /\ ~ Over(k, now) THEN c ELSE c + 1,
                      IF b /\ x = now THEN o + 1 ELSE o)
<1>1. PICK d \in Int : d = IF k.active /\ ~ Over(k, now) THEN c ELSE c + 1
  OBVIOUS
<1>2. PICK w : w = Retaken(k)
  OBVIOUS
<1>3. /\ w \in LockRecords
      /\ w.init = k.init /\ w.active
      /\ w.last <= now /\ 0 <= w.max /\ w.max <= w.total
      /\ w.preventing => k.preventing
      /\ ShowsAt(k, now, last_update, h, p, c, o) => ShowsNow(w, last_update, h, p, d, o)
  BY <1>1, <1>2, RetakenShows
<1>4. PICK n : n = w.wakeup_count + 1 /\ n \in Int
  BY <1>3, RecordFields
<1>5. PICK v : v = IF wait_for_wakeup THEN [w EXCEPT !.wakeup_count = n] ELSE w
  OBVIOUS
<1>6. PICK y : y = TakenUntil(k, b, x) /\ y = [v EXCEPT !.auto = b, !.expires = x]
  BY <1>2, <1>4, <1>5 DEF TakenUntil
<1>7. /\ v \in LockRecords /\ v.init = w.init /\ v.active = w.active
      /\ v.preventing = w.preventing /\ v.total = w.total /\ v.prevent = w.prevent
      /\ v.max = w.max /\ v.last = w.last /\ v.count = w.count /\ v.expire_count = w.expire_count
  BY <1>3, <1>4, <1>5 DEF LockRecords
<1>8. /\ y \in LockRecords /\ y.init = w.init /\ y.active = w.active /\ y.auto = b /\ y.expires = x
      /\ y.preventing = w.preventing /\ y.total = w.total /\ y.prevent = w.prevent
      /\ y.max = w.max /\ y.last = w.last /\ y.count = w.count /\ y.expire_count = w.expire_count
  BY <1>6, <1>7 DEF LockRecords
<1>9. (Over(y, now) <=> b /\ x = now) /\ EndAt(y, now) = now
  BY <1>8 DEF Over, EndAt
<1>10. SettledAt(y, now)
  BY <1>3, <1>8, <1>9 DEF SettledAt
<1>11. ASSUME ShowsAt(k, now, last_update, h, p, c, o)
       PROVE  ShowsAt(y, now, last_update, h, p, d, IF b /\ x = now THEN o + 1 ELSE o)
  <2>1. ShowsNow(w, last_update, h, p, d, o)
    BY <1>3, <1>11
  <2>2. y.total + (IF y.active THEN EndAt(y, now) - y.last ELSE 0) = h
    BY <1>3, <1>8, <1>9, <2>1 DEF ShowsNow
  <2>3. y.prevent + (IF y.active /\ y.preventing THEN EndAt(y, now) - last_update ELSE 0) = p
    BY <1>3, <1>8, <1>9, <2>1 DEF ShowsNow
  <2>4. y.count + (IF y.active THEN 1 ELSE 0) = d
    BY <1>3, <1>8, <2>1 DEF ShowsNow
  <2>5. y.expire_count + (IF y.active /\ Over(y, now) THEN 1 ELSE 0) = IF b /\ x = now THEN o + 1 ELSE o
    BY <1>3, <1>8, <1>9, <2>1, RecordFields DEF ShowsNow
  <2> QED BY <2>2, <2>3, <2>4, <2>5 DEF ShowsAt
<1> QED BY <1>1, <1>3, <1>6, <1>8, <1>10, <1>11

\* A jiffy passes; m: main_wake_lock is active.
LEMMA TickKeeps ==
  ASSUME NEW n \in Int, NEW u \in Int, NEW k \in LockRecords, SettledAt(k, n),
         NEW m \in BOOLEAN, ChargedAt(k, n, m),
         NEW h \in Int, NEW p \in Int, NEW c \in Int, NEW o \in Int
  PROVE  /\ SettledAt(k, n + 1) /\ ChargedAt(k, n + 1, m)
         /\ ShowsAt(k, n, u, h, p, c, o) =>
              ShowsAt(k, n + 1, u,
                      IF k.active /\ ~ Over(k, n) THEN h + 1 ELSE h,
                      IF k.active /\ ~ Over(k, n) /\ ~ m THEN p + 1 ELSE p, c,
                      IF k.active /\ ~ Over(k, n) /\ k.auto /\ k.expires = n + 1 THEN o + 1 ELSE o)
<1>1. Over(k, n) => Over(k, n + 1) /\ EndAt(k, n + 1) = EndAt(k, n)
  BY RecordFields DEF Over, EndAt
<1>2. ~ Over(k, n) => EndAt(k, n) = n /\ EndAt(k, n + 1) = n + 1
  BY RecordFields DEF Over, EndAt
<1>3. ~ Over(k, n) => (Over(k, n + 1) <=> k.auto /\ k.expires = n + 1)
  BY RecordFields DEF Over
<1>4. EndAt(k, n) \in Int
  BY EndIsNumber
<1>5. SettledAt(k, n + 1)
  BY <1>1, <1>2, RecordFields DEF SettledAt
<1>6. ChargedAt(k, n + 1, m)
  BY <1>1 DEF ChargedAt
<1>7. ASSUME ShowsAt(k, n, u, h, p, c, o)
      PROVE  ShowsAt(k, n + 1, u,
                      IF k.active /\ ~ Over(k, n) THEN h + 1 ELSE h,
                      IF k.active /\ ~ Over(k, n) /\ ~ m THEN p + 1 ELSE p, c,
                      IF k.active /\ ~ Over(k, n) /\ k.auto /\ k.expires = n + 1 THEN o + 1 ELSE o)
  <2>1. CASE ~ k.active
    BY <1>7, <2>1 DEF ShowsAt
  <2>2. CASE k.active /\ Over(k, n)
    BY <1>1, <1>7, <2>2 DEF ShowsAt
  <2>3. CASE k.active /\ ~ Over(k, n)
    <3>1. k.total + ((n + 1) - k.last) = h + 1
      BY <1>2, <1>7, <2>3, RecordFields DEF ShowsAt
    <3>2. k.preventing <=> ~ m
      BY <2>3 DEF ChargedAt
    <3>3. k.prevent + (IF k.preventing THEN (n + 1) - u ELSE 0) = IF ~ m THEN p + 1 ELSE p
      <4>1. k.prevent + (IF k.preventing THEN n - u ELSE 0) = p
        BY <1>2, <1>7, <2>3 DEF ShowsAt
      <4>2. CASE m
        BY <3>2, <4>1, <4>2
      <4>3. CASE ~ m
        <5>1. k.prevent + (n - u) = p
          BY <3>2, <4>1, <4>3
        <5>2. k.prevent + ((n + 1) - u) = p + 1
          BY <5>1, RecordFields
        <5> QED BY <3>2, <4>3, <5>2
      <4> QED BY <4>2, <4>3
    <3>4. k.count + 1 = c
      BY <1>7, <2>3 DEF ShowsAt
    <3>5. k.expire_count + (IF Over(k, n + 1) THEN 1 ELSE 0)
            = IF k.auto /\ k.expires = n + 1 THEN o + 1 ELSE o
      BY <1>3, <1>7, <2>3, RecordFields DEF ShowsAt
    <3>6. EndAt(k, n + 1) = n + 1
      BY <1>2, <2>3
    <3>7. ShowsAt(k, n + 1, u, h + 1, IF ~ m THEN p + 1 ELSE p, c,
                  IF k.auto /\ k.expires = n + 1 THEN o + 1 ELSE o)
      <4>1. PICK r, y : /\ r = IF ~ m THEN p + 1 ELSE p
                        /\ y = IF k.auto /\ k.expires = n + 1 THEN o + 1 ELSE o
        OBVIOUS
      <4>2. k.total + (IF k.active THEN EndAt(k, n + 1) - k.last ELSE 0) = h + 1
        BY <2>3, <3>1, <3>6
      <4>3. k.prevent + (IF k.active /\ k.preventing THEN EndAt(k, n + 1) - u ELSE 0) = r
        BY <2>3, <3>3, <3>6, <4>1
      <4>4. k.count + (IF k.active THEN 1 ELSE 0) = c
        BY <2>3, <3>4
      <4>5. k.expire_count + (IF k.active /\ Over(k, n + 1) THEN 1 ELSE 0) = y
        BY <2>3, <3>5, <4>1
      <4>6. ShowsAt(k, n + 1, u, h + 1, r, c, y)
        BY <4>2, <4>3, <4>4, <4>5 DEF ShowsAt
      <4> QED BY <4>1, <4>6
    <3> QED BY <2>3, <3>7
  <2> QED BY <2>1, <2>2, <2>3, RecordFields
<1> QED BY <1>5, <1>6, <1>7

-----------------------------------------------------------------------------
(***************************************************************************)
(* The statistics: the table of all locks.                                 *)
(***************************************************************************)
\* The records t show at the time n what h, p, c and o say of each lock.
TableShows(t, n, u, h, p, c, o) ==
  /\ t \in [Locks -> LockRecords]
  /\ t[MainLock].init /\ ~ t[MainLock].auto
  /\ \A l \in Locks :
       /\ SettledAt(t[l], n)
       /\ t[l].init => ShowsAt(t[l], n, u, h[l], p[l], c[l], o[l])

TableCharged(t, n) == \A l \in Locks : ChargedAt(t[l], n, t[MainLock].active)

Numbers == [Locks -> Int]

RecordsInv ==
  /\ StatTypeOK
  /\ TableShows(lock, now, last_update, held, prevented, taken, timedOut)
  /\ TableCharged(lock, now)

\* update_sleep_wait_stats over all locks keeps what they show, and charges those that
\* prevent sleep from now on.
LEMMA UpdatedTable ==
  ASSUME now \in Int, last_update \in Int,
         NEW h \in Numbers, NEW p \in Numbers, NEW c \in Numbers, NEW o \in Numbers,
         NEW t, TableShows(t, now, last_update, h, p, c, o)
  PROVE  LET r == update_sleep_wait_stats(t, t[MainLock].active) IN
         /\ TableShows(r, now, now, h, p, c, o) /\ TableCharged(r, now)
         /\ r[MainLock].active = t[MainLock].active
         /\ \A l \in Locks : Over(r[l], now) => ~ r[l].preventing
<1>1. PICK done \in BOOLEAN : done = t[MainLock].active
  BY RecordFields DEF TableShows, Locks
<1>2. PICK r : r = update_sleep_wait_stats(t, done) /\ r = [l \in Locks |-> Updated(t[l], done)]
  BY DEF update_sleep_wait_stats, Updated
<1>3. ASSUME NEW l \in Locks
      PROVE  /\ r[l] \in LockRecords
             /\ r[l].init = t[l].init /\ r[l].active = t[l].active /\ r[l].auto = t[l].auto
             /\ SettledAt(r[l], now) /\ ChargedAt(r[l], now, done)
             /\ Over(r[l], now) => ~ r[l].preventing
             /\ r[l].init => ShowsAt(r[l], now, now, h[l], p[l], c[l], o[l])
  <2>1. PICK k \in LockRecords : k = t[l]
    BY DEF TableShows
  <2>2. SettledAt(k, now) /\ (k.init => ShowsAt(k, now, last_update, h[l], p[l], c[l], o[l]))
    BY <2>1 DEF TableShows
  <2>3. h[l] \in Int /\ p[l] \in Int /\ c[l] \in Int /\ o[l] \in Int
    BY DEF Numbers
  <2>4. r[l] = Updated(k, done)
    BY <1>2, <2>1
  <2> QED BY <2>1, <2>2, <2>3, <2>4, UpdatedKeeps
<1>4. r \in [Locks -> LockRecords]
  BY <1>2, <1>3
<1>5. MainLock \in Locks
  BY DEF Locks
<1>6. r[MainLock].init /\ ~ r[MainLock].auto /\ r[MainLock].active = done
  BY <1>1, <1>3, <1>5 DEF TableShows
<1>7. TableShows(r, now, now, h, p, c, o)
  BY <1>3, <1>4, <1>6 DEF TableShows
<1>8. TableCharged(r, now)
  BY <1>3, <1>6 DEF TableCharged
<1> QED BY <1>1, <1>2, <1>3, <1>6, <1>7, <1>8

\* has_wake_lock drops the locks that timed out, and the table shows what it showed.
LEMMA ReapedTable ==
  ASSUME now \in Int, last_update \in Int,
         NEW h \in Numbers, NEW p \in Numbers, NEW c \in Numbers, NEW o \in Numbers,
         NEW u \in Int, NEW t, TableShows(t, now, u, h, p, c, o),
         u = last_update \/ \A l \in Locks : Over(t[l], now) => ~ t[l].preventing
  PROVE  LET r == Reaped(t) IN
         /\ TableShows(r, now, u, h, p, c, o)
         /\ r[MainLock].active = t[MainLock].active
         /\ TableCharged(t, now) => TableCharged(r, now)
<1>1. CASE \E l \in Locks : t[l].active /\ ~ t[l].auto
  BY <1>1 DEF Reaped
<1>2. CASE ~ \E l \in Locks : t[l].active /\ ~ t[l].auto
  <2>1. PICK r : /\ r = Reaped(t)
                 /\ r = [l \in Locks |->
                           IF t[l].active /\ Over(t[l], now) THEN Ended(t[l], TRUE) ELSE t[l]]
    BY <1>2, EndsNow DEF Reaped, expire_wake_lock, Ended
  <2>2. ASSUME NEW l \in Locks
        PROVE  /\ r[l] \in LockRecords
               /\ r[l].init = t[l].init
               /\ SettledAt(r[l], now)
               /\ r[l].init => ShowsAt(r[l], now, u, h[l], p[l], c[l], o[l])
               /\ r[l] = t[l] \/ ~ r[l].active
    <3>1. PICK k \in LockRecords : k = t[l]
      BY DEF TableShows
    <3>2. SettledAt(k, now) /\ (k.init => ShowsAt(k, now, u, h[l], p[l], c[l], o[l]))
      BY <3>1 DEF TableShows
    <3>3. h[l] \in Int /\ p[l] \in Int /\ c[l] \in Int /\ o[l] \in Int
      BY DEF Numbers
    <3>4. CASE k.active /\ Over(k, now)
      <4>1. r[l] = Ended(k, TRUE)
        BY <2>1, <3>1, <3>4
      <4>2. u = last_update \/ ~ k.preventing
        BY <3>1, <3>4
      <4>3. PICK e \in BOOLEAN : e = TRUE /\ (e => Over(k, now))
        BY <3>4
      <4>4. PICK y : y = Ended(k, e)
        OBVIOUS
      <4>5. /\ y \in LockRecords /\ y.init = k.init /\ ~ y.active
            /\ SettledAt(y, now)
            /\ ShowsAt(k, now, u, h[l], p[l], c[l], o[l]) => ShowsAt(y, now, u, h[l], p[l], c[l], o[l])
        BY <3>2, <3>3, <4>2, <4>3, <4>4, EndedKeeps, ZenonT(40)
      <4> QED BY <3>1, <3>2, <4>1, <4>3, <4>4, <4>5
    <3>5. CASE ~ (k.active /\ Over(k, now))
      <4>1. r[l] = k
        BY <2>1, <3>1, <3>5
      <4> QED BY <3>1, <3>2, <4>1
    <3> QED BY <3>4, <3>5
  <2>3. r \in [Locks -> LockRecords]
    BY <2>1, <2>2
  <2>4. MainLock \in Locks
    BY DEF Locks
  <2>5. r[MainLock] = t[MainLock]
    BY <2>1, <2>4 DEF TableShows, Over
  <2>6. TableShows(r, now, u, h, p, c, o)
    BY <2>2, <2>3, <2>5 DEF TableShows
  <2>7. TableCharged(t, now) => TableCharged(r, now)
    BY <2>2, <2>5 DEF TableCharged, ChargedAt
  <2> QED BY <2>1, <2>5, <2>6, <2>7
<1> QED BY <1>1, <1>2

\* One record is replaced.
LEMMA OneReplaced ==
  ASSUME NEW t \in [Locks -> LockRecords], NEW l \in Locks, NEW y \in LockRecords
  PROVE  LET r == [t EXCEPT ![l] = y] IN
         /\ r \in [Locks -> LockRecords]
         /\ r[l] = y
         /\ l # MainLock => r[MainLock] = t[MainLock]
         /\ \A i \in Locks : i # l => r[i] = t[i]
BY DEF Locks

\* The parts of the invariant, by their names.
LEMMA StatFacts ==
  ASSUME TimeoutsAssumption, RecordsInv
  PROVE  /\ now \in Int /\ last_update \in Int /\ MainLock \in Locks
         /\ held \in Numbers /\ prevented \in Numbers /\ taken \in Numbers /\ timedOut \in Numbers
         /\ lock \in [Locks -> LockRecords]
         /\ TableShows(lock, now, last_update, held, prevented, taken, timedOut)
         /\ TableCharged(lock, now)
<1>1. now \in Int
  BY DEF RecordsInv, StatTypeOK, TimeoutsAssumption
<1> QED BY <1>1 DEF RecordsInv, StatTypeOK, Numbers, Locks

\* The invariant after a step, from its parts.
LEMMA NewRecords ==
  ASSUME now' \in 0 .. MaxTime, last_update' \in Int, wait_for_wakeup' \in BOOLEAN,
         taken' \in Numbers, timedOut' \in Numbers, held' \in Numbers, prevented' \in Numbers,
         TableShows(lock', now', last_update', held', prevented', taken', timedOut'),
         TableCharged(lock', now')
  PROVE  RecordsInv'
<1>1. lock' \in [Locks -> LockRecords]
  BY DEF TableShows
<1>2. StatTypeOK'
  BY <1>1 DEF StatTypeOK, Numbers
<1> QED BY <1>2 DEF RecordsInv, TableShows, TableCharged

\* What a step that leaves the time and what happened alone has to show.
LEMMA NewTable ==
  ASSUME TimeoutsAssumption, RecordsInv, NEW t, NEW u \in Int,
         lock' = t, last_update' = u, now' = now, held' = held, prevented' = prevented,
         taken' \in Numbers, timedOut' \in Numbers, wait_for_wakeup' \in BOOLEAN,
         TableShows(t, now, u, held, prevented, taken', timedOut'), TableCharged(t, now)
  PROVE  RecordsInv'
<1>1. TableShows(lock', now', last_update', held', prevented', taken', timedOut') /\ TableCharged(lock', now')
  OBVIOUS
<1>2. now' \in 0 .. MaxTime /\ last_update' \in Int /\ held' \in Numbers /\ prevented' \in Numbers
  BY DEF RecordsInv, StatTypeOK, Numbers
<1> QED BY <1>1, <1>2, NewRecords

\* wake_lock_internal
LEMMA TakeStep ==
  ASSUME TimeoutsAssumption, RecordsInv, NEW l \in Locks,
         NEW b \in BOOLEAN, NEW x \in Int, b => now <= x, l = MainLock => ~ b,
         NEW timeout, timeout = 0 <=> b /\ x = now,
         SleepStats([lock EXCEPT ![l] = TakenUntil(lock[l], b, x)], l), TakeHistory(l, timeout), Woken
  PROVE  RecordsInv'
<1> USE StatFacts
<1>1. PICK k \in LockRecords : k = lock[l]
  OBVIOUS
<1>2. /\ SettledAt(k, now)
      /\ k.init => ShowsAt(k, now, last_update, held[l], prevented[l], taken[l], timedOut[l])
  BY <1>1 DEF TableShows
<1>3. /\ held[l] \in Int /\ prevented[l] \in Int /\ taken[l] \in Int /\ timedOut[l] \in Int
  BY DEF Numbers
<1>4. PICK y : y = TakenUntil(k, b, x)
  OBVIOUS
<1>5. /\ y \in LockRecords /\ y.init = k.init /\ y.active /\ y.auto = b
      /\ SettledAt(y, now)
      /\ y.preventing => k.preventing
      /\ y.init => ShowsAt(y, now, last_update, held[l], prevented[l],
                           IF k.active /\ ~ Over(k, now) THEN taken[l] ELSE taken[l] + 1,
                           IF b /\ x = now THEN timedOut[l] + 1 ELSE timedOut[l])
  BY <1>2, <1>3, <1>4, TakenKeeps
<1>6. PICK c2, o2 : /\ c2 = taken' /\ o2 = timedOut'
                    /\ c2 = [taken EXCEPT ![l] = IF Held(l) THEN @ ELSE @ + 1]
                    /\ o2 = [timedOut EXCEPT ![l] = IF timeout = 0 THEN @ + 1 ELSE @]
  BY DEF TakeHistory
<1>7. Held(l) <=> k.active /\ ~ Over(k, now)
  BY <1>1, EndsNow DEF Held
<1>8. /\ c2[l] = IF k.active /\ ~ Over(k, now) THEN taken[l] ELSE taken[l] + 1
      /\ o2[l] = IF b /\ x = now THEN timedOut[l] + 1 ELSE timedOut[l]
  BY <1>6, <1>7 DEF Numbers
<1>9. c2 \in Numbers /\ o2 \in Numbers
  BY <1>3, <1>6 DEF Numbers
<1>10. \A i \in Locks : i # l => c2[i] = taken[i] /\ o2[i] = timedOut[i]
  BY <1>6 DEF Numbers
<1>11. PICK t : t = [lock EXCEPT ![l] = y]
  OBVIOUS
<1>12. /\ TableShows(t, now, last_update, held, prevented, c2, o2)
       /\ t[l] = y
       /\ l # MainLock => t[MainLock] = lock[MainLock]
       /\ \A i \in Locks : i # l => t[i] = lock[i]
  <2>1. l = MainLock => y.init /\ ~ y.auto
    BY <1>1, <1>5 DEF TableShows
  <2>2. y.init => ShowsAt(y, now, last_update, held[l], prevented[l], c2[l], o2[l])
    BY <1>5, <1>8
  <2>3. /\ t \in [Locks -> LockRecords] /\ t[l] = y
        /\ l # MainLock => t[MainLock] = lock[MainLock]
        /\ \A i \in Locks : i # l => t[i] = lock[i]
    BY <1>5, <1>11, OneReplaced
  <2>4. t[MainLock].init /\ ~ t[MainLock].auto
    BY <2>1, <2>3 DEF TableShows
  <2>5. ASSUME NEW i \in Locks
        PROVE  /\ SettledAt(t[i], now)
               /\ t[i].init => ShowsAt(t[i], now, last_update, held[i], prevented[i], c2[i], o2[i])
    <3>1. CASE i = l
      BY <1>5, <2>2, <2>3, <3>1
    <3>2. CASE i # l
      BY <1>10, <2>3, <3>2 DEF TableShows
    <3> QED BY <3>1, <3>2
  <2> QED BY <2>3, <2>4, <2>5 DEF TableShows
<1>13. SleepStats(t, l)
  BY <1>1, <1>4, <1>11
<1>14. /\ now' = now /\ held' = held /\ prevented' = prevented /\ wait_for_wakeup' \in BOOLEAN
       /\ taken' = c2 /\ timedOut' = o2
  BY <1>6 DEF TakeHistory, Woken
<1>15. PICK a \in BOOLEAN : a = t[MainLock].active
  BY <1>12, RecordFields DEF TableShows
<1>16. PICK r : r = update_sleep_wait_stats(t, a)
  OBVIOUS
<1>17. /\ TableShows(r, now, now, held, prevented, c2, o2) /\ TableCharged(r, now)
       /\ \A i \in Locks : Over(r[i], now) => ~ r[i].preventing
  BY <1>9, <1>12, <1>15, <1>16, UpdatedTable
<1>18. CASE l = MainLock
  <2>1. a = TRUE
    BY <1>5, <1>12, <1>15, <1>18
  <2>2. lock' = r /\ last_update' = now
    BY <1>13, <1>16, <1>18, <2>1 DEF SleepStats
  <2> QED BY <1>9, <1>14, <1>17, <2>2, NewTable
<1>19. CASE l # MainLock /\ ~ a
  <2>1. a = FALSE
    BY <1>19
  <2>2. last_update' = now /\ (lock' = Reaped(r) \/ lock' = r)
    BY <1>13, <1>15, <1>16, <1>19, <2>1 DEF SleepStats
  <2>3. PICK q : q = Reaped(r)
    OBVIOUS
  <2>4. TableShows(q, now, now, held, prevented, c2, o2) /\ TableCharged(q, now)
    BY <1>9, <1>17, <2>3, ReapedTable
  <2> QED BY <1>9, <1>14, <1>17, <2>2, <2>3, <2>4, NewTable
<1>20. CASE l # MainLock /\ a
  <2>1. lock' = t /\ last_update' = last_update
    BY <1>13, <1>15, <1>20 DEF SleepStats
  <2>2. lock[MainLock].active
    BY <1>12, <1>15, <1>20
  <2>3. ASSUME NEW i \in Locks PROVE ChargedAt(t[i], now, t[MainLock].active)
    <3>1. ChargedAt(lock[i], now, lock[MainLock].active)
      BY DEF TableCharged
    <3>2. CASE i = l
      <4>1. ~ k.preventing
        BY <1>1, <1>2, <2>2, <3>1, <3>2 DEF ChargedAt, SettledAt
      <4> QED BY <1>5, <1>12, <1>15, <1>20, <3>2, <4>1 DEF ChargedAt
    <3>3. CASE i # l
      BY <1>12, <1>20, <3>1, <3>3
    <3> QED BY <3>2, <3>3
  <2>4. TableCharged(t, now)
    BY <2>3 DEF TableCharged
  <2> QED BY <1>9, <1>12, <1>14, <2>1, <2>4, NewTable
<1> QED BY <1>18, <1>19, <1>20

\* The step of wake_lock keeps the invariant of the statistics.
LEMMA WakeLockStep ==
  ASSUME TimeoutsAssumption, RecordsInv, NEW l \in Locks, wake_lock(l)
  PROVE  RecordsInv'
<1>1. PICK b \in BOOLEAN : b = FALSE
  OBVIOUS
<1>2. PICK x \in Int : x = 0
  OBVIOUS
<1>3. [Taken(l) EXCEPT !.auto = FALSE, !.expires = 0] = TakenUntil(lock[l], b, x)
  BY <1>1, <1>2 DEF Taken, TakenUntil
<1>4. /\ SleepStats([lock EXCEPT ![l] = TakenUntil(lock[l], b, x)], l)
      /\ TakeHistory(l, MaxTime + 1) /\ Woken
  BY <1>3 DEF wake_lock
<1>5. MaxTime + 1 # 0
  BY DEF TimeoutsAssumption
<1> QED BY <1>1, <1>4, <1>5, TakeStep

\* The step of wake_lock_timeout keeps the invariant of the statistics.
LEMMA WakeLockTimeoutStep ==
  ASSUME TimeoutsAssumption, RecordsInv, NEW l \in Locks,
         NEW timeout \in Timeouts, wake_lock_timeout(l, timeout)
  PROVE  RecordsInv'
<1>1. PICK b \in BOOLEAN : b = TRUE
  OBVIOUS
<1>2. timeout \in Nat /\ now \in Int
  BY StatFacts DEF TimeoutsAssumption
<1>3. PICK x \in Int : x = now + timeout
  BY <1>2
<1>4. [Taken(l) EXCEPT !.auto = TRUE, !.expires = now + timeout] = TakenUntil(lock[l], b, x)
  BY <1>1, <1>3 DEF Taken, TakenUntil
<1>5. /\ SleepStats([lock EXCEPT ![l] = TakenUntil(lock[l], b, x)], l)
      /\ TakeHistory(l, timeout) /\ Woken /\ l # MainLock
  BY <1>4 DEF wake_lock_timeout
<1>6. now <= x /\ (timeout = 0 <=> b /\ x = now)
  BY <1>1, <1>2, <1>3
<1> QED BY <1>5, <1>6, TakeStep

\* The step of wake_unlock keeps the invariant of the statistics.
LEMMA WakeUnlockStep ==
  ASSUME TimeoutsAssumption, RecordsInv, NEW l \in Locks, wake_unlock(l)
  PROVE  RecordsInv'
<1> USE StatFacts
<1>1. PICK k \in LockRecords : k = lock[l]
  OBVIOUS
<1>2. /\ SettledAt(k, now)
      /\ k.init => ShowsAt(k, now, last_update, held[l], prevented[l], taken[l], timedOut[l])
  BY <1>1 DEF TableShows
<1>3. held[l] \in Int /\ prevented[l] \in Int /\ taken[l] \in Int /\ timedOut[l] \in Int
  BY DEF Numbers
<1>4. PICK e \in BOOLEAN : e = FALSE
  OBVIOUS
<1>5. PICK y : y = Ended(k, e)
  OBVIOUS
<1>6. /\ y \in LockRecords /\ y.init = k.init /\ ~ y.active /\ ~ y.auto
      /\ SettledAt(y, now)
      /\ y.init => ShowsAt(y, now, last_update, held[l], prevented[l], taken[l], timedOut[l])
  BY <1>2, <1>3, <1>4, <1>5, EndedKeeps
<1>7. PICK t : t = [lock EXCEPT ![l] = y]
  OBVIOUS
<1>8. /\ t \in [Locks -> LockRecords] /\ t[l] = y
      /\ l # MainLock => t[MainLock] = lock[MainLock]
      /\ \A i \in Locks : i # l => t[i] = lock[i]
  BY <1>6, <1>7, OneReplaced
<1>9. TableShows(t, now, last_update, held, prevented, taken, timedOut)
  <2>1. t[MainLock].init /\ ~ t[MainLock].auto
    BY <1>1, <1>6, <1>8 DEF TableShows
  <2>2. ASSUME NEW i \in Locks
        PROVE  /\ SettledAt(t[i], now)
               /\ t[i].init => ShowsAt(t[i], now, last_update, held[i], prevented[i], taken[i], timedOut[i])
    <3>1. CASE i = l
      BY <1>6, <1>8, <3>1
    <3>2. CASE i # l
      BY <1>8, <3>2 DEF TableShows
    <3> QED BY <3>1, <3>2
  <2> QED BY <1>8, <2>1, <2>2 DEF TableShows
<1>10. PICK q : q = Reaped(t)
  OBVIOUS
<1>11. /\ TableShows(q, now, last_update, held, prevented, taken, timedOut)
       /\ q[MainLock].active = t[MainLock].active
       /\ TableCharged(t, now) => TableCharged(q, now)
  BY <1>9, <1>10, ReapedTable
<1>12. /\ now' = now /\ held' = held /\ prevented' = prevented /\ wait_for_wakeup' \in BOOLEAN
       /\ taken' = taken /\ timedOut' = timedOut /\ taken' \in Numbers /\ timedOut' \in Numbers
  BY DEF wake_unlock, wakeupVars, RecordsInv, StatTypeOK
<1>13. IF l = MainLock THEN lock' = update_sleep_wait_stats(q, FALSE) /\ last_update' = now
                       ELSE lock' = q /\ UNCHANGED last_update
  <2>1. y = [UnlockStat(lock[l], FALSE) EXCEPT !.active = FALSE, !.auto = FALSE]
    BY <1>1, <1>4, <1>5 DEF Ended
  <2>2. t = [lock EXCEPT ![l] = [UnlockStat(@, FALSE) EXCEPT !.active = FALSE, !.auto = FALSE]]
    BY <1>7, <2>1
  <2> QED BY <1>10, <2>2 DEF wake_unlock
<1>14. CASE l = MainLock
  <2>1. q[MainLock].active = FALSE
    <3>1. q[MainLock] \in LockRecords
      BY <1>11 DEF TableShows
    <3> QED BY <1>6, <1>8, <1>11, <1>14, <3>1, RecordFields
  <2>2. PICK r : r = update_sleep_wait_stats(q, q[MainLock].active)
    OBVIOUS
  <2>3. TableShows(r, now, now, held, prevented, taken, timedOut) /\ TableCharged(r, now)
    BY <1>11, <2>2, UpdatedTable
  <2>4. lock' = r /\ last_update' = now
    BY <1>13, <1>14, <2>1, <2>2
  <2> QED BY <1>12, <2>3, <2>4, NewTable
<1>15. CASE l # MainLock
  <2>1. ASSUME NEW i \in Locks PROVE ChargedAt(t[i], now, t[MainLock].active)
    <3>1. ChargedAt(lock[i], now, lock[MainLock].active)
      BY DEF TableCharged
    <3> QED BY <1>6, <1>8, <1>15, <3>1 DEF ChargedAt
  <2>2. TableCharged(q, now)
    BY <1>11, <2>1 DEF TableCharged
  <2>3. lock' = q /\ last_update' = last_update
    BY <1>13, <1>15
  <2> QED BY <1>11, <1>12, <2>2, <2>3, NewTable
<1> QED BY <1>14, <1>15

\* has_wake_lock and power_suspend_late
LEMMA ReapStep ==
  ASSUME TimeoutsAssumption, RecordsInv, has_wake_lock \/ power_suspend_late
  PROVE  RecordsInv'
<1> USE StatFacts
<1>1. PICK q : q = Reaped(lock)
  OBVIOUS
<1>2. /\ TableShows(q, now, last_update, held, prevented, taken, timedOut)
      /\ TableCharged(q, now)
  BY <1>1, ReapedTable
<1>3. /\ lock' = q /\ last_update' = last_update
      /\ now' = now /\ held' = held /\ prevented' = prevented /\ wait_for_wakeup' \in BOOLEAN
      /\ taken' = taken /\ timedOut' = timedOut /\ taken' \in Numbers /\ timedOut' \in Numbers
  BY <1>1 DEF has_wake_lock, power_suspend_late, wakeupVars, RecordsInv, StatTypeOK
<1> QED BY <1>2, <1>3, NewTable

\* wake_lock_init leaves a record that shows nothing.
LEMMA FreshShows ==
  ASSUME NEW n \in Int, NEW u \in Int
  PROVE  /\ Fresh \in LockRecords /\ Fresh.init /\ ~ Fresh.active /\ ~ Fresh.auto
         /\ SettledAt(Fresh, n) /\ ShowsAt(Fresh, n, u, 0, 0, 0, 0)
<1>1. Fresh \in LockRecords /\ Fresh.init /\ ~ Fresh.active /\ ~ Fresh.auto
  BY DEF Fresh, LockRecords
<1>2. SettledAt(Fresh, n)
  BY DEF Fresh, SettledAt
<1>3. ShowsAt(Fresh, n, u, 0, 0, 0, 0)
  BY DEF Fresh, ShowsAt
<1> QED BY <1>1, <1>2, <1>3

\* The step of wake_lock_init keeps the invariant of the statistics.
LEMMA InitStep ==
  ASSUME TimeoutsAssumption, RecordsInv, NEW l \in Locks, wake_lock_init(l)
  PROVE  RecordsInv'
<1> USE StatFacts
<1>1. l # MainLock
  BY DEF wake_lock_init, TableShows
<1>2. PICK t, h, p, c, o :
        /\ t = [lock EXCEPT ![l] = Fresh] /\ lock' = t
        /\ h = [held EXCEPT ![l] = 0] /\ held' = h
        /\ p = [prevented EXCEPT ![l] = 0] /\ prevented' = p
        /\ c = [taken EXCEPT ![l] = 0] /\ taken' = c
        /\ o = [timedOut EXCEPT ![l] = 0] /\ timedOut' = o
  BY DEF wake_lock_init
<1>3. /\ h \in Numbers /\ h[l] = 0 /\ \A i \in Locks : i # l => h[i] = held[i]
      /\ p \in Numbers /\ p[l] = 0 /\ \A i \in Locks : i # l => p[i] = prevented[i]
      /\ c \in Numbers /\ c[l] = 0 /\ \A i \in Locks : i # l => c[i] = taken[i]
      /\ o \in Numbers /\ o[l] = 0 /\ \A i \in Locks : i # l => o[i] = timedOut[i]
  BY <1>2 DEF Numbers
<1>4. /\ Fresh \in LockRecords /\ ~ Fresh.active
      /\ SettledAt(Fresh, now) /\ ShowsAt(Fresh, now, last_update, 0, 0, 0, 0)
  BY FreshShows
<1>5. /\ t \in [Locks -> LockRecords] /\ t[l] = Fresh /\ t[MainLock] = lock[MainLock]
      /\ \A i \in Locks : i # l => t[i] = lock[i]
  BY <1>1, <1>2, <1>4, OneReplaced
<1>6. TableShows(t, now, last_update, h, p, c, o)
  <2>1. ASSUME NEW i \in Locks
        PROVE  /\ SettledAt(t[i], now)
               /\ t[i].init => ShowsAt(t[i], now, last_update, h[i], p[i], c[i], o[i])
    <3>1. CASE i = l
      BY <1>3, <1>4, <1>5, <3>1
    <3>2. CASE i # l
      <4>1. /\ SettledAt(lock[i], now)
            /\ lock[i].init => ShowsAt(lock[i], now, last_update, held[i], prevented[i], taken[i], timedOut[i])
        BY DEF TableShows
      <4> QED BY <1>3, <1>5, <3>2, <4>1
    <3> QED BY <3>1, <3>2
  <2>2. t[MainLock].init /\ ~ t[MainLock].auto
    BY <1>5 DEF TableShows
  <2> QED BY <1>5, <2>1, <2>2 DEF TableShows
<1>7. TableCharged(t, now)
  BY <1>4, <1>5 DEF TableCharged, ChargedAt
<1>8. /\ now' = now /\ last_update' = last_update /\ wait_for_wakeup' \in BOOLEAN
      /\ now \in 0 .. MaxTime
  BY DEF wake_lock_init, wakeupVars, RecordsInv, StatTypeOK
<1> QED BY <1>2, <1>3, <1>6, <1>7, <1>8, NewRecords

\* The step of wake_lock_destroy keeps the invariant of the statistics.
LEMMA DestroyStep ==
  ASSUME TimeoutsAssumption, RecordsInv, NEW l \in Locks, wake_lock_destroy(l)
  PROVE  RecordsInv'
<1> USE StatFacts
<1>1. l # MainLock
  BY DEF wake_lock_destroy
<1>2. PICK y : y = [Fresh EXCEPT !.init = FALSE]
  OBVIOUS
<1>3. y \in LockRecords /\ ~ y.init /\ ~ y.active /\ SettledAt(y, now)
  <2>1. Fresh \in LockRecords /\ ~ Fresh.active /\ SettledAt(Fresh, now)
    BY FreshShows
  <2>2. /\ y \in LockRecords /\ y.init = FALSE /\ y.active = Fresh.active /\ y.auto = Fresh.auto
        /\ y.preventing = Fresh.preventing /\ y.max = Fresh.max /\ y.total = Fresh.total
    BY <1>2, <2>1 DEF LockRecords
  <2> QED BY <2>1, <2>2 DEF SettledAt
<1>4. PICK t : t = [lock EXCEPT ![l] = y]
  OBVIOUS
<1>5. /\ t \in [Locks -> LockRecords] /\ t[l] = y /\ t[MainLock] = lock[MainLock]
      /\ \A i \in Locks : i # l => t[i] = lock[i]
  BY <1>1, <1>3, <1>4, OneReplaced
<1>6. TableShows(t, now, last_update, held, prevented, taken, timedOut)
  BY <1>3, <1>5 DEF TableShows
<1>7. TableCharged(t, now)
  BY <1>3, <1>5 DEF TableCharged, ChargedAt
<1>8. /\ lock' = t /\ last_update' = last_update
      /\ now' = now /\ held' = held /\ prevented' = prevented /\ wait_for_wakeup' \in BOOLEAN
      /\ taken' = taken /\ timedOut' = timedOut /\ taken' \in Numbers /\ timedOut' \in Numbers
  BY <1>2, <1>4 DEF wake_lock_destroy, wakeupVars, RecordsInv, StatTypeOK
<1> QED BY <1>6, <1>7, <1>8, NewTable

\* The time passes, and with it that of the locks in use.
LEMMA TickStep ==
  ASSUME TimeoutsAssumption, RecordsInv, Tick
  PROVE  RecordsInv'
<1> USE StatFacts
<1>1. PICK m \in BOOLEAN : m = lock[MainLock].active
  BY RecordFields
<1>2. PICK n \in Int : n = now
  OBVIOUS
<1>3. PICK h, p, o :
        /\ held' = h
        /\ h = [l \in Locks |-> IF Held(l) THEN held[l] + 1 ELSE held[l]]
        /\ prevented' = p
        /\ p = [l \in Locks |-> IF Held(l) /\ ~ m THEN prevented[l] + 1 ELSE prevented[l]]
        /\ timedOut' = o
        /\ o = [l \in Locks |-> IF Held(l) /\ lock[l].auto /\ lock[l].expires = n + 1
                                  THEN timedOut[l] + 1 ELSE timedOut[l]]
  BY <1>1, <1>2 DEF Tick
<1>4. h \in Numbers /\ p \in Numbers /\ o \in Numbers
  BY <1>3 DEF Numbers
<1>5. ASSUME NEW l \in Locks
      PROVE  /\ SettledAt(lock[l], n + 1) /\ ChargedAt(lock[l], n + 1, m)
             /\ lock[l].init => ShowsAt(lock[l], n + 1, last_update, h[l], p[l], taken[l], o[l])
  <2>1. PICK k \in LockRecords : k = lock[l]
    OBVIOUS
  <2>2. Held(l) <=> k.active /\ ~ Over(k, n)
    BY <1>2, <2>1, EndsNow DEF Held
  <2>3. /\ SettledAt(k, n) /\ ChargedAt(k, n, m)
        /\ k.init => ShowsAt(k, n, last_update, held[l], prevented[l], taken[l], timedOut[l])
    BY <1>1, <1>2, <2>1 DEF TableShows, TableCharged
  <2>4. held[l] \in Int /\ prevented[l] \in Int /\ taken[l] \in Int /\ timedOut[l] \in Int
    BY DEF Numbers
  <2>5. /\ h[l] = IF k.active /\ ~ Over(k, n) THEN held[l] + 1 ELSE held[l]
        /\ p[l] = IF k.active /\ ~ Over(k, n) /\ ~ m THEN prevented[l] + 1 ELSE prevented[l]
        /\ o[l] = IF k.active /\ ~ Over(k, n) /\ k.auto /\ k.expires = n + 1
                    THEN timedOut[l] + 1 ELSE timedOut[l]
    BY <1>3, <2>1, <2>2
  <2>6. /\ SettledAt(k, n + 1) /\ ChargedAt(k, n + 1, m)
        /\ ShowsAt(k, n, last_update, held[l], prevented[l], taken[l], timedOut[l]) =>
             ShowsAt(k, n + 1, last_update,
                     IF k.active /\ ~ Over(k, n) THEN held[l] + 1 ELSE held[l],
                     IF k.active /\ ~ Over(k, n) /\ ~ m THEN prevented[l] + 1 ELSE prevented[l],
                     taken[l],
                     IF k.active /\ ~ Over(k, n) /\ k.auto /\ k.expires = n + 1
                       THEN timedOut[l] + 1 ELSE timedOut[l])
    BY <2>3, <2>4, TickKeeps
  <2> QED BY <2>1, <2>3, <2>5, <2>6
<1>6. TableShows(lock, n + 1, last_update, h, p, taken, o)
  BY <1>5 DEF TableShows
<1>7. TableCharged(lock, n + 1)
  BY <1>1, <1>5 DEF TableCharged
<1>8. now' = n + 1 /\ lock' = lock /\ last_update' = last_update /\ taken' = taken
  BY <1>2 DEF Tick
<1>9. n + 1 \in 0 .. MaxTime
  BY <1>2 DEF Tick, RecordsInv, StatTypeOK, TimeoutsAssumption
<1>10. wait_for_wakeup' \in BOOLEAN
  BY DEF Tick, wakeupVars, RecordsInv, StatTypeOK
<1> QED BY <1>3, <1>4, <1>6, <1>7, <1>8, <1>9, <1>10, NewRecords

\* Every step keeps the invariant of the statistics.
LEMMA RecordsNext ==
  ASSUME TimeoutsAssumption, RecordsInv, [StatNext]_statVars
  PROVE  RecordsInv'
<1>1. CASE UNCHANGED statVars
  BY <1>1 DEF statVars, wakeupVars, RecordsInv, StatTypeOK, TableShows, TableCharged
<1> QED BY <1>1, WakeLockStep, WakeLockTimeoutStep, WakeUnlockStep, ReapStep, InitStep, DestroyStep,
           TickStep DEF StatNext

\* At first main_wake_lock is held and no other lock is.
LEMMA RecordsStart ==
  ASSUME TimeoutsAssumption, StatInit
  PROVE  RecordsInv
<1>1. PICK y : y = [Fresh EXCEPT !.active = TRUE]
  OBVIOUS
<1>2. /\ y \in LockRecords /\ y.init /\ ~ y.auto /\ y.active /\ ~ y.preventing
      /\ SettledAt(y, 0) /\ ShowsAt(y, 0, 0, 0, 0, 1, 0)
  <2>1. y \in LockRecords /\ y.init /\ ~ y.auto /\ y.active /\ ~ y.preventing
    <3>1. Fresh \in LockRecords
      BY FreshShows
    <3>2. /\ y \in LockRecords /\ y.init = Fresh.init /\ y.auto = Fresh.auto
          /\ y.preventing = Fresh.preventing /\ y.active = TRUE
      BY <1>1, <3>1 DEF LockRecords
    <3>3. Fresh.init = TRUE /\ Fresh.auto = FALSE /\ Fresh.preventing = FALSE
      BY DEF Fresh
    <3> QED BY <3>2, <3>3
  <2>2. SettledAt(y, 0)
    BY <1>1 DEF Fresh, SettledAt, EndAt, Over
  <2>3. ShowsAt(y, 0, 0, 0, 0, 1, 0)
    BY <1>1 DEF Fresh, ShowsAt, EndAt, Over
  <2> QED BY <2>1, <2>2, <2>3
<1>3. /\ Fresh \in LockRecords /\ ~ Fresh.active /\ SettledAt(Fresh, 0) /\ ShowsAt(Fresh, 0, 0, 0, 0, 0, 0)
  BY FreshShows
<1>4. /\ MainLock \in Locks /\ now = 0 /\ last_update = 0
      /\ \A l \in Locks : /\ lock[l] = IF l = MainLock THEN y ELSE Fresh
                          /\ taken[l] = IF l = MainLock THEN 1 ELSE 0
                          /\ timedOut[l] = 0 /\ held[l] = 0 /\ prevented[l] = 0
  BY <1>1 DEF StatInit, Locks
<1>5. lock \in [Locks -> LockRecords]
  BY <1>1, <1>2, <1>3 DEF StatInit
<1>6. TableShows(lock, now, last_update, held, prevented, taken, timedOut)
  BY <1>2, <1>3, <1>4, <1>5 DEF TableShows
<1>7. TableCharged(lock, now)
  BY <1>2, <1>3, <1>4 DEF TableCharged, ChargedAt
<1>8. StatTypeOK
  <2>1. now \in 0 .. MaxTime /\ last_update \in Int /\ wait_for_wakeup \in BOOLEAN
    <3>1. MaxTime \in Nat
      BY DEF TimeoutsAssumption
    <3>2. wait_for_wakeup \in BOOLEAN
      BY DEF StatInit
    <3> QED BY <1>4, <3>1, <3>2
  <2>2. taken \in [Locks -> Int]
    BY DEF StatInit
  <2>3. timedOut \in [Locks -> Int] /\ held \in [Locks -> Int] /\ prevented \in [Locks -> Int]
    BY DEF StatInit
  <2> QED BY <1>5, <2>1, <2>2, <2>3 DEF StatTypeOK
<1> QED BY <1>6, <1>7, <1>8 DEF RecordsInv

\* The invariant of the statistics holds always.
LEMMA RecordsAlways ==
  ASSUME TimeoutsAssumption
  PROVE  StatSpec => []RecordsInv
<1>1. StatInit => RecordsInv
  BY RecordsStart
<1>2. RecordsInv /\ [StatNext]_statVars => RecordsInv'
  BY RecordsNext
<1> QED BY <1>1, <1>2, PTL DEF StatSpec

\* What /proc/wakelocks shows of records that keep the invariant is what happened.
LEMMA RecordsShown ==
  ASSUME TimeoutsAssumption, RecordsInv
  PROVE  TotalTimeExact /\ SleepTimeExact /\ CountsExact
<1> SUFFICES ASSUME NEW l \in Locks, lock[l].init
             PROVE  /\ Shown(lock[l]).total = held[l]
                    /\ Shown(lock[l]).active_since <= Shown(lock[l]).max
                    /\ Shown(lock[l]).max <= held[l]
                    /\ Shown(lock[l]).prevent = prevented[l]
                    /\ Shown(lock[l]).count = taken[l]
                    /\ Shown(lock[l]).expire_count = timedOut[l]
  BY DEF TotalTimeExact, SleepTimeExact, CountsExact
<1>1. PICK k \in LockRecords : k = lock[l]
  BY StatFacts
<1>2. PICK h \in Int, p \in Int, c \in Int, o \in Int :
        h = held[l] /\ p = prevented[l] /\ c = taken[l] /\ o = timedOut[l]
  BY StatFacts DEF Numbers
<1>3. SettledAt(k, now) /\ ShowsAt(k, now, last_update, h, p, c, o)
  BY <1>1, <1>2, StatFacts DEF TableShows
<1>4. PICK x \in Int : x = EndAt(k, now) /\ x = EndTime(k)
  BY EndIsNumber, EndsNow, StatFacts
<1>5. IsExpired(k) <=> Over(k, now)
  BY EndsNow
<1>6. PICK a \in Int : a = IF k.active THEN x - k.last ELSE 0
  BY RecordFields
<1>7. 0 <= a /\ 0 <= k.max /\ k.max <= k.total
  BY <1>3, <1>4, <1>6, RecordFields DEF SettledAt
<1>8. k.total + a = h
  BY <1>3, <1>4, <1>6 DEF ShowsAt
<1>9. Shown(k).total = h
  BY <1>4, <1>6, <1>8 DEF Shown
<1>10. Shown(k).max = IF a > k.max THEN a ELSE k.max
  BY <1>4, <1>6 DEF Shown
<1>11. Shown(k).active_since = IF IsExpired(k) THEN 0 ELSE a
  BY <1>4, <1>6 DEF Shown
<1>12. Shown(k).active_since <= Shown(k).max
  BY <1>7, <1>10, <1>11, RecordFields
<1>13. Shown(k).max <= h
  BY <1>7, <1>8, <1>10, RecordFields
<1>14. Shown(k).prevent = p
  <2>1. k.prevent + (IF k.active /\ k.preventing THEN x - last_update ELSE 0) = p
    BY <1>3, <1>4 DEF ShowsAt
  <2>2. Shown(k).prevent = IF k.active /\ k.preventing THEN k.prevent + (x - last_update) ELSE k.prevent
    BY <1>4 DEF Shown
  <2> QED BY <2>1, <2>2, RecordFields
<1>15. Shown(k).count = c
  BY <1>3, RecordFields DEF Shown, ShowsAt
<1>16. Shown(k).expire_count = o
  <2>1. k.expire_count + (IF k.active /\ Over(k, now) THEN 1 ELSE 0) = o
    BY <1>3 DEF ShowsAt
  <2>2. Shown(k).expire_count = IF k.active /\ Over(k, now) THEN k.expire_count + 1 ELSE k.expire_count
    BY <1>5 DEF Shown
  <2> QED BY <2>1, <2>2, RecordFields
<1> QED BY <1>1, <1>2, <1>9, <1>12, <1>13, <1>14, <1>15, <1>16

(***************************************************************************)
(* For any number of locks and any timeouts: /proc/wakelocks shows of each *)
(* lock exactly how long it was held, for how much of that main_wake_lock  *)
(* was not, how often it was taken and how often it timed out, although    *)
(* has_wake_lock_locked takes expired locks off late and                   *)
(* update_sleep_wait_stats_locked charges all locks at once.               *)
(***************************************************************************)
THEOREM StatisticsAlwaysExact ==
  ASSUME TimeoutsAssumption
  PROVE  StatSpec => [](TotalTimeExact /\ SleepTimeExact /\ CountsExact)
<1>1. RecordsInv => TotalTimeExact /\ SleepTimeExact /\ CountsExact
  BY RecordsShown
<1> QED BY <1>1, RecordsAlways, PTL

-----------------------------------------------------------------------------
(***************************************************************************)
(* The RAM console: whatever is interrupted, no write leaves the buffer.   *)
(***************************************************************************)
RamBounds ==
  /\ data \in [0 .. BufferSize - 1 -> Int] /\ start \in 0 .. BufferSize /\ size \in Nat
  /\ s \in Seq(Int) /\ copied \in Nat /\ wrapping \in BOOLEAN /\ printed \in Int /\ boot \in Int
  /\ pc \in {"idle", "copy", "wrap", "size"}
  /\ pc = "idle" => s = <<>> /\ copied = 0 /\ wrapping = FALSE
  /\ pc # "idle" => Len(s) \in 1 .. BufferSize
  /\ pc = "copy" => /\ copied <= CopyCount
                    /\ wrapping = TRUE => BufferSize - start < Len(s)
                    /\ wrapping = FALSE => start + Len(s) <= BufferSize
  /\ pc = "wrap" => start = 0 /\ copied = 0
  /\ pc \in {"wrap", "size"} => wrapping = FALSE

(***************************************************************************)
(* The content of the ring while no write is given up.  The bytes that end *)
(* before st with byte e are in order in buffer d, from there on back to   *)
(* from and then from the end of the buffer on back to st + len.           *)
(***************************************************************************)
Low(d, st, from, e) == \A q \in from .. st - 1 : d[q] = e - (st - 1 - q)

High(d, st, len, e) == \A q \in st + len .. BufferSize - 1 : d[q] = e - (st + BufferSize - 1 - q)

\* The first c bytes of b have been copied.
Stored(d, st, c, b) == \A i \in 1 .. c : d[st + i - 1] = b[i]

\* The byte before those of the running write that are not yet in the ring.
Before == PrintedNow - Len(s)

\* The bytes of the running write have consecutive numbers.
RingNumbers == \A i \in 1 .. Len(s) : s[i] = Before + i

\* size is that of the log until the buffer is full.
RingSizes ==
  /\ size <= BufferSize
  /\ size < BufferSize /\ pc # "wrap" =>
       /\ size = printed - boot
       /\ pc = "size" => start = size + Len(s)
       /\ pc # "size" => start = size
       /\ printed <= Before /\ (Len(s) < BufferSize => Before = printed)
  /\ size = BufferSize \/ pc = "wrap" => PrintedNow - boot >= BufferSize

RingData ==
  /\ pc = "size" => /\ Low(data, start, 0, PrintedNow)
                    /\ size = BufferSize => High(data, start, 0, PrintedNow)
  /\ pc # "size" => Stored(data, start, copied, s)
  /\ pc # "size" /\ wrapping = TRUE => Low(data, start, Len(s) - (BufferSize - start), Before)
  /\ pc # "size" /\ wrapping = FALSE =>
       /\ Low(data, start, 0, Before)
       /\ size = BufferSize \/ pc = "wrap" => High(data, start, Len(s), Before)

RingKept == RingNumbers /\ RingSizes /\ RingData

\* The end of a sequence of bytes.
LEMMA LastBytes ==
  ASSUME NEW b \in Seq(Int), NEW n \in 0 .. Len(b)
  PROVE  /\ LastOf(b, n) \in Seq(Int) /\ Len(LastOf(b, n)) = n
         /\ \A k \in 1 .. n : LastOf(b, n)[k] = b[Len(b) - n + k]
<1>1. Len(b) \in Nat /\ Len(b) - n + 1 \in 1 .. Len(b) + 1 /\ Len(b) - (Len(b) - n + 1) + 1 = n
  OBVIOUS
<1>2. /\ SubSeq(b, Len(b) - n + 1, Len(b)) \in Seq(Int)
      /\ Len(SubSeq(b, Len(b) - n + 1, Len(b))) = Len(b) - (Len(b) - n + 1) + 1
      /\ \A k \in 1 .. Len(b) - (Len(b) - n + 1) + 1 :
           SubSeq(b, Len(b) - n + 1, Len(b))[k] = b[(Len(b) - n + 1) + k - 1]
  BY <1>1, Suffix
<1>3. \A k \in 1 .. n : (Len(b) - n + 1) + k - 1 = Len(b) - n + k
  BY <1>1
<1> QED BY <1>1, <1>2, <1>3 DEF LastOf

\* Bytes b are the last n of count after byte p.
LastWritten(b, p, count, n) ==
  b \in Seq(Int) /\ Len(b) = n /\ \A i \in 1 .. n : b[i] = p + count - n + i

\* The bytes of a write, cut to what the buffer can hold.
LEMMA BytesOfWrite ==
  ASSUME RamConsoleAssumption, NEW p \in Int, NEW count \in Nat \ {0},
         NEW b, b = IF count > BufferSize THEN LastOf(Bytes(p, p + count), BufferSize) ELSE Bytes(p, p + count),
         NEW n, n = IF count > BufferSize THEN BufferSize ELSE count
  PROVE  LastWritten(b, p, count, n)
<1>1. PICK y : y = Bytes(p, p + count)
  OBVIOUS
<1>2. BufferSize \in Nat \ {0} /\ (p + count) - p = count
  BY DEF RamConsoleAssumption
<1>3. y = [k \in 1 .. count |-> p + k]
  BY <1>1, <1>2 DEF Bytes
<1>4. y \in Seq(Int) /\ Len(y) = count
  BY <1>3
<1>5. CASE count > BufferSize
  <2>1. BufferSize \in 0 .. Len(y)
    BY <1>2, <1>4, <1>5
  <2>2. b = LastOf(y, BufferSize) /\ n = BufferSize
    BY <1>1, <1>5
  <2>3. b \in Seq(Int) /\ Len(b) = n /\ \A k \in 1 .. n : b[k] = y[count - n + k]
    <3>1. /\ LastOf(y, BufferSize) \in Seq(Int) /\ Len(LastOf(y, BufferSize)) = BufferSize
          /\ \A k \in 1 .. BufferSize : LastOf(y, BufferSize)[k] = y[Len(y) - BufferSize + k]
      BY <1>4, <2>1, LastBytes
    <3> QED BY <1>4, <2>2, <3>1
  <2>4. \A k \in 1 .. n : count - n + k \in 1 .. count /\ p + (count - n + k) = p + count - n + k
    BY <1>2, <1>5, <2>2
  <2> QED BY <1>3, <2>3, <2>4 DEF LastWritten
<1>6. CASE ~ (count > BufferSize)
  <2>1. b = y /\ n = count /\ \A k \in 1 .. count : p + count - count + k = p + k
    BY <1>1, <1>6
  <2> QED BY <1>3, <1>4, <2>1 DEF LastWritten
<1> QED BY <1>5, <1>6

\* The last byte of the running write.
LEMMA NowPrinted ==
  /\ RamBounds => /\ s = <<>> => PrintedNow = printed
                  /\ pc # "idle" => PrintedNow = s[Len(s)] /\ Len(s) > 0
                  /\ PrintedNow \in Int /\ Len(s) \in Nat /\ Before \in Int
  /\ RamBounds' => /\ s' = <<>> => PrintedNow' = printed'
                   /\ pc' # "idle" => PrintedNow' = s'[Len(s')] /\ Len(s') > 0
                   /\ PrintedNow' \in Int /\ Len(s') \in Nat /\ Before' \in Int
                   /\ Before' = PrintedNow' - Len(s')
<1>1. \A q \in Seq(Int) : Len(q) \in Nat /\ (q # <<>> => Len(q) > 0 /\ q[Len(q)] \in Int)
  OBVIOUS
<1>2. Len(<<>>) = 0
  OBVIOUS
<1>3. RamBounds => /\ s = <<>> => PrintedNow = printed
                   /\ pc # "idle" => PrintedNow = s[Len(s)] /\ Len(s) > 0
                   /\ PrintedNow \in Int /\ Len(s) \in Nat
  BY <1>1, <1>2 DEF RamBounds, PrintedNow
<1>4. RamBounds' => /\ s' = <<>> => PrintedNow' = printed'
                    /\ pc' # "idle" => PrintedNow' = s'[Len(s')] /\ Len(s') > 0
                    /\ PrintedNow' \in Int /\ Len(s') \in Nat
  BY <1>1, <1>2 DEF RamBounds, PrintedNow
<1> QED BY <1>3, <1>4 DEF Before

\* It holds at first.
LEMMA RamInitInv ==
  ASSUME RamConsoleAssumption, RamInit
  PROVE  RamBounds /\ RingKept
<1> USE DEF RamInit
<1>1. <<>> \in Seq(Int) /\ Len(<<>>) = 0
  OBVIOUS
<1>2. BufferSize \in Nat \ {0}
  BY DEF RamConsoleAssumption
<1>3. /\ data \in [0 .. BufferSize - 1 -> Int] /\ start = 0 /\ size = 0 /\ pc = "idle" /\ s = <<>>
      /\ copied = 0 /\ wrapping = FALSE /\ printed = 0 /\ boot = 0
  OBVIOUS
<1> HIDE DEF RamInit
<1>4. RamBounds
  BY <1>1, <1>2, <1>3 DEF RamBounds
<1>5. PrintedNow = 0
  BY <1>3 DEF PrintedNow
<1>6. Before = 0
  <2>1. Len(s) = 0
    BY <1>3
  <2> QED BY <1>5, <2>1 DEF Before
<1>7. Low(data, start, 0, Before) /\ Stored(data, start, copied, s)
  BY <1>3 DEF Low, Stored
<1>8. RingNumbers /\ RingSizes
  BY <1>1, <1>2, <1>3, <1>5, <1>6 DEF RingNumbers, RingSizes
<1>9. RingData
  BY <1>2, <1>3, <1>7 DEF RingData
<1> QED BY <1>4, <1>8, <1>9 DEF RingKept

\* ram_console_write.
LEMMA WriteKeeps ==
  ASSUME RamConsoleAssumption, RamBounds, NEW count \in 1 .. MaxCount, ram_console_write(count)
  PROVE  RamBounds' /\ (RingKept => RingKept')
<1>1. BufferSize \in Nat \ {0} /\ count \in Nat \ {0} /\ Len(<<>>) = 0
  BY DEF RamConsoleAssumption
<1>2. PICK n : n = IF count > BufferSize THEN BufferSize ELSE count
  OBVIOUS
<1>3. /\ pc = "idle" /\ pc' = "copy" /\ copied' = 0 /\ wrapping' = (BufferSize - start < Len(s'))
      /\ data' = data /\ start' = start /\ size' = size /\ printed' = printed /\ boot' = boot
      /\ s' = IF count > BufferSize THEN LastOf(Bytes(printed, printed + count), BufferSize)
              ELSE Bytes(printed, printed + count)
  BY DEF ram_console_write
<1>4. /\ data \in [0 .. BufferSize - 1 -> Int] /\ start \in 0 .. BufferSize /\ size \in Nat
      /\ printed \in Int /\ boot \in Int /\ s = <<>> /\ wrapping = FALSE /\ copied = 0
  BY <1>3 DEF RamBounds
<1>5. s' \in Seq(Int) /\ Len(s') = n /\ \A i \in 1 .. n : s'[i] = printed + count - n + i
  <2>1. PICK b : b = s'
    OBVIOUS
  <2>2. b = IF count > BufferSize THEN LastOf(Bytes(printed, printed + count), BufferSize)
            ELSE Bytes(printed, printed + count)
    BY <1>3, <2>1
  <2>3. LastWritten(b, printed, count, n)
    BY <1>1, <1>2, <1>4, <2>2, BytesOfWrite
  <2> QED BY <2>1, <2>3 DEF LastWritten
<1>6. n \in 1 .. BufferSize /\ n <= count /\ (n < BufferSize => n = count)
  BY <1>1, <1>2
<1>7. wrapping' \in BOOLEAN /\ (wrapping' = TRUE <=> BufferSize - start < n)
  <2>1. wrapping' = (BufferSize - start < n)
    BY <1>3, <1>5
  <2>2. CASE BufferSize - start < n
    <3>1. wrapping' = TRUE
      BY <2>1, <2>2, Zenon
    <3> QED BY <2>2, <3>1
  <2>3. CASE ~ (BufferSize - start < n)
    <3>1. wrapping' = FALSE
      <4>1. (BufferSize - start < n) = FALSE
        BY <2>3
      <4> QED BY <2>1, <4>1, Zenon
    <3> QED BY <2>3, <3>1
  <2> QED BY <2>2, <2>3
<1>8. CopyCount' \in Int /\ CopyCount' >= 0
  BY <1>1, <1>3, <1>4, <1>5, <1>6, <1>7 DEF CopyCount
<1>9. RamBounds'
  BY <1>1, <1>3, <1>4, <1>5, <1>6, <1>7, <1>8, SMTT(40) DEF RamBounds
<1>10. ASSUME RingKept PROVE RingKept'
  <2>1. PrintedNow' = printed + count /\ Before' = printed + count - n
    <3>1. PrintedNow' = s'[Len(s')] /\ Before' = PrintedNow' - Len(s')
      BY <1>3, <1>9, NowPrinted
    <3>2. n \in 1 .. n /\ printed + count - n + n = printed + count
      BY <1>1, <1>4, <1>6
    <3>3. s'[n] = printed + count - n + n
      BY <1>5, <3>2
    <3> QED BY <1>1, <1>4, <1>5, <1>6, <3>1, <3>2, <3>3
  <2>2. PrintedNow = printed /\ Before = printed
    BY <1>1, <1>4, NowPrinted DEF Before
  <2>3. /\ size <= BufferSize
        /\ size < BufferSize => size = printed - boot /\ start = size
        /\ size = BufferSize => printed - boot >= BufferSize
        /\ Low(data, start, 0, printed)
        /\ size = BufferSize => High(data, start, 0, printed)
    BY <1>1, <1>3, <1>4, <1>10, <2>2 DEF RingKept, RingSizes, RingData
  <2>4. Stored(data', start', copied', s')
    BY <1>3 DEF Stored
  <2>7. RingNumbers'
    BY <1>5, <2>1 DEF RingNumbers
  <2>8. RingSizes'
    <3>1. size < BufferSize => printed <= Before' /\ (n < BufferSize => Before' = printed)
      BY <1>1, <1>4, <1>6, <2>1
    <3>2. size = BufferSize => PrintedNow' - boot >= BufferSize
      BY <1>1, <1>4, <2>1, <2>3
    <3> QED BY <1>3, <1>5, <2>3, <3>1, <3>2 DEF RingSizes
  <2>5. CASE wrapping' = TRUE
    <3>1. Low(data', start', n - (BufferSize - start), printed + count - n)
      <4> SUFFICES ASSUME NEW q \in n - (BufferSize - start) .. start - 1
                   PROVE  data[q] = (printed + count - n) - (start - 1 - q)
        BY <1>3 DEF Low
      <4>1. n < BufferSize /\ q \in 0 .. start - 1
        BY <1>1, <1>4, <1>6, <1>7, <2>5
      <4>2. n = count /\ data[q] = printed - (start - 1 - q)
        BY <1>6, <2>3, <4>1 DEF Low
      <4> QED BY <1>1, <1>4, <4>2
    <3>2. wrapping' # FALSE /\ pc' # "wrap" /\ pc' # "size"
      BY <1>3, <2>5
    <3>3. RingData'
      BY <1>3, <1>5, <2>1, <2>4, <3>1, <3>2 DEF RingData
    <3> QED BY <2>7, <2>8, <3>3 DEF RingKept
  <2>6. CASE wrapping' = FALSE
    <3>1. start + n <= BufferSize
      BY <1>1, <1>4, <1>6, <1>7, <2>6
    <3>2. n = BufferSize => start = 0
      BY <1>1, <1>4, <3>1
    <3>3. Low(data', start', 0, printed + count - n)
      <4> SUFFICES ASSUME NEW q \in 0 .. start - 1
                   PROVE  data[q] = (printed + count - n) - (start - 1 - q)
        BY <1>3 DEF Low
      <4>1. n = count
        BY <1>1, <1>4, <1>6, <3>2
      <4>2. data[q] = printed - (start - 1 - q)
        BY <2>3 DEF Low
      <4> QED BY <1>1, <1>4, <4>1, <4>2
    <3>4. ASSUME size = BufferSize PROVE High(data', start', n, printed + count - n)
      <4> SUFFICES ASSUME NEW q \in start + n .. BufferSize - 1
                   PROVE  data[q] = (printed + count - n) - (start + BufferSize - 1 - q)
        BY <1>3 DEF High
      <4>1. n = count /\ q \in start + 0 .. BufferSize - 1
        BY <1>1, <1>4, <1>6, <3>2
      <4>2. data[q] = printed - (start + BufferSize - 1 - q)
        BY <2>3, <3>4, <4>1 DEF High
      <4> QED BY <1>1, <1>4, <4>1, <4>2
    <3>5. wrapping' # TRUE /\ pc' # "wrap" /\ pc' # "size"
      BY <1>3, <2>6
    <3>6. RingData'
      BY <1>3, <1>5, <2>1, <2>4, <3>3, <3>4, <3>5 DEF RingData
    <3> QED BY <2>7, <2>8, <3>6 DEF RingKept
  <2> QED BY <1>7, <2>5, <2>6
<1> QED BY <1>9, <1>10

\* One byte of the memcpy.
LEMMA CopyKeeps ==
  ASSUME RamConsoleAssumption, RamBounds, ram_console_update
  PROVE  RamBounds' /\ (RingKept => RingKept')
<1>1. BufferSize \in Nat \ {0}
  BY DEF RamConsoleAssumption
<1>2. /\ pc = "copy" /\ copied < CopyCount /\ copied' = copied + 1
      /\ data' = [data EXCEPT ![start + copied] = s[copied + 1]]
      /\ start' = start /\ size' = size /\ pc' = pc /\ s' = s /\ wrapping' = wrapping
      /\ printed' = printed /\ boot' = boot
  BY DEF ram_console_update
<1>3. /\ data \in [0 .. BufferSize - 1 -> Int] /\ start \in 0 .. BufferSize /\ size \in Nat
      /\ s \in Seq(Int) /\ copied \in Nat /\ wrapping \in BOOLEAN /\ Len(s) \in 1 .. BufferSize
      /\ wrapping = TRUE => BufferSize - start < Len(s)
      /\ wrapping = FALSE => start + Len(s) <= BufferSize
  BY <1>2 DEF RamBounds
<1>4. /\ wrapping = TRUE => CopyCount = BufferSize - start
      /\ wrapping = FALSE => CopyCount = Len(s)
  BY DEF CopyCount
<1>5. start + copied \in 0 .. BufferSize - 1 /\ copied + 1 \in 1 .. Len(s)
  BY <1>1, <1>2, <1>3, <1>4
<1>6. s[copied + 1] \in Int
  BY <1>3, <1>5, ElementInSet
<1>7. data' \in [0 .. BufferSize - 1 -> Int]
  BY <1>2, <1>3, <1>6
<1>8. CopyCount' = CopyCount /\ copied' \in Nat /\ copied' <= CopyCount
  BY <1>1, <1>2, <1>3, <1>4 DEF CopyCount
<1>9. RamBounds'
  BY <1>2, <1>7, <1>8 DEF RamBounds
<1>10. data'[start + copied] = s[copied + 1]
       /\ \A q \in 0 .. BufferSize - 1 : q # start + copied => data'[q] = data[q]
  BY <1>2, <1>3, <1>5
<1>11. ASSUME RingKept PROVE RingKept'
  <2>1. PrintedNow' = PrintedNow /\ Before' = Before
    BY <1>2 DEF PrintedNow, Before
  <2>2. RingNumbers' /\ RingSizes'
    BY <1>2, <1>11, <2>1 DEF RingKept, RingNumbers, RingSizes
  <2>3. Stored(data', start, copied + 1, s)
    <3> SUFFICES ASSUME NEW i \in 1 .. copied + 1 PROVE data'[start + i - 1] = s[i]
      BY DEF Stored
    <3>1. CASE i = copied + 1
      <4>1. start + i - 1 = start + copied
        BY <1>3, <3>1
      <4> QED BY <1>10, <3>1, <4>1
    <3>2. CASE i # copied + 1
      <4>1. i \in 1 .. copied /\ start + i - 1 \in 0 .. BufferSize - 1 /\ start + i - 1 # start + copied
        BY <1>1, <1>3, <1>5, <3>2
      <4>2. data[start + i - 1] = s[i]
        BY <1>2, <1>11, <4>1 DEF RingKept, RingData, Stored
      <4> QED BY <1>10, <4>1, <4>2
    <3> QED BY <3>1, <3>2
  <2>4. ASSUME NEW from \in Nat, NEW e, Low(data, start, from, e) PROVE Low(data', start, from, e)
    <3> SUFFICES ASSUME NEW q \in from .. start - 1 PROVE data'[q] = e - (start - 1 - q)
      BY DEF Low
    <3>1. q \in 0 .. BufferSize - 1 /\ q # start + copied
      BY <1>1, <1>3
    <3>2. data[q] = e - (start - 1 - q)
      BY <2>4 DEF Low
    <3> QED BY <1>10, <3>1, <3>2
  <2>5. ASSUME NEW e, wrapping = FALSE, High(data, start, Len(s), e) PROVE High(data', start, Len(s), e)
    <3> SUFFICES ASSUME NEW q \in start + Len(s) .. BufferSize - 1
                 PROVE  data'[q] = e - (start + BufferSize - 1 - q)
      BY DEF High
    <3>1. q \in 0 .. BufferSize - 1 /\ q # start + copied
      BY <1>3, <1>5
    <3>2. data[q] = e - (start + BufferSize - 1 - q)
      BY <2>5 DEF High
    <3> QED BY <1>10, <3>1, <3>2
  <2>6. CASE wrapping = TRUE
    <3>1. Len(s) - (BufferSize - start) \in Nat
      BY <1>1, <1>3, <2>6
    <3>2. Low(data, start, Len(s) - (BufferSize - start), Before)
      BY <1>2, <1>11, <2>6 DEF RingKept, RingData
    <3>3. Low(data', start, Len(s) - (BufferSize - start), Before)
      BY <2>4, <3>1, <3>2
    <3>4. RingData'
      BY <1>2, <2>1, <2>3, <2>6, <3>3 DEF RingData
    <3> QED BY <2>2, <3>4 DEF RingKept
  <2>7. CASE wrapping = FALSE
    <3>1. Low(data, start, 0, Before) /\ (size = BufferSize => High(data, start, Len(s), Before))
      BY <1>2, <1>11, <2>7 DEF RingKept, RingData
    <3>2. Low(data', start, 0, Before) /\ (size = BufferSize => High(data', start, Len(s), Before))
      BY <2>4, <2>5, <2>7, <3>1
    <3>3. RingData'
      BY <1>2, <2>1, <2>3, <2>7, <3>2 DEF RingData
    <3> QED BY <2>2, <3>3 DEF RingKept
  <2> QED BY <1>3, <2>6, <2>7
<1> QED BY <1>9, <1>11

\* The first part of a write has reached the end of the buffer.
LEMMA WrapKeeps ==
  ASSUME RamConsoleAssumption, RamBounds, wrap_start
  PROVE  RamBounds' /\ (RingKept => RingKept')
<1>1. BufferSize \in Nat \ {0}
  BY DEF RamConsoleAssumption
<1>2. /\ pc = "copy" /\ wrapping = TRUE /\ copied = BufferSize - start /\ s' = LastOf(s, Len(s) - copied)
      /\ copied' = 0 /\ start' = 0 /\ wrapping' = FALSE /\ pc' = "wrap"
      /\ data' = data /\ size' = size /\ printed' = printed /\ boot' = boot
  BY DEF wrap_start, RamBounds, CopyCount
<1>3. /\ data \in [0 .. BufferSize - 1 -> Int] /\ start \in 0 .. BufferSize /\ size \in Nat
      /\ s \in Seq(Int) /\ Len(s) \in 1 .. BufferSize /\ BufferSize - start < Len(s)
      /\ printed \in Int /\ boot \in Int
  BY <1>2 DEF RamBounds
<1>4. PICK n, m : n = Len(s) - copied /\ m = Len(s)
  OBVIOUS
<1>10. m \in 1 .. BufferSize /\ m \in Int /\ start \in Int /\ BufferSize - start < m /\ n = m - (BufferSize - start)
  BY <1>1, <1>2, <1>3, <1>4
<1>5. n \in 1 .. BufferSize /\ n \in Int /\ n \in 0 .. m /\ m - n = BufferSize - start
      /\ 1 \in Int /\ n \in 1 .. n /\ m - n + n = m
  BY <1>1, <1>3, <1>10
<1>6. /\ LastOf(s, n) \in Seq(Int) /\ Len(LastOf(s, n)) = n
      /\ \A k \in 1 .. n : LastOf(s, n)[k] = s[Len(s) - n + k]
  BY <1>3, <1>4, <1>5, LastBytes
<1>7. s' \in Seq(Int) /\ Len(s') = n /\ \A k \in 1 .. n : s'[k] = s[m - n + k]
  BY <1>2, <1>4, <1>6
<1>8. RamBounds'
  <2>1. 0 \in 0 .. BufferSize /\ 0 \in Nat /\ Len(s') \in 1 .. BufferSize
    BY <1>1, <1>5, <1>7
  <2>2. /\ data' \in [0 .. BufferSize - 1 -> Int] /\ start' \in 0 .. BufferSize /\ size' \in Nat
        /\ copied' \in Nat /\ wrapping' \in BOOLEAN /\ printed' \in Int /\ boot' \in Int
    BY <1>2, <1>3, <2>1
  <2> QED BY <1>2, <1>7, <2>1, <2>2 DEF RamBounds
<1>9. ASSUME RingKept PROVE RingKept'
  <2>1. PrintedNow \in Int /\ Before \in Int /\ PrintedNow = s[Len(s)] /\ Before = PrintedNow - Len(s)
    BY <1>2, NowPrinted DEF Before
  <2>2. PrintedNow' = s'[Len(s')] /\ Before' = PrintedNow' - Len(s')
    BY <1>2, <1>8, NowPrinted
  <2>3. PrintedNow' = PrintedNow
    <3>1. s'[n] = s[m]
      BY <1>5, <1>7
    <3> QED BY <1>4, <1>7, <2>1, <2>2, <3>1
  <2>11. PICK b, t : b = Before /\ t = PrintedNow
    OBVIOUS
  <2>12. b \in Int /\ t \in Int /\ b = t - m /\ Before' = t - n
    BY <1>4, <1>7, <2>1, <2>2, <2>3, <2>11
  <2>4. Before' = b + (BufferSize - start)
    BY <1>1, <1>5, <1>10, <2>12
  <2>5. \A i \in 1 .. m : s[i] = b + i
    BY <1>4, <1>9, <2>11 DEF RingKept, RingNumbers
  <2>6. RingNumbers'
    <3> SUFFICES ASSUME NEW i \in 1 .. n PROVE s'[i] = Before' + i
      BY <1>7 DEF RingNumbers
    <3>1. m - n + i \in 1 .. m
      BY <1>5, <1>10, SMTT(40)
    <3>2. s'[i] = b + (m - n + i)
      BY <1>7, <2>5, <3>1
    <3> QED BY <1>1, <1>5, <1>10, <2>4, <2>12, <3>2
  <2>7. RingSizes'
    <3>1. size <= BufferSize
      BY <1>9 DEF RingKept, RingSizes
    <3>2. PrintedNow - boot >= BufferSize
      <4>1. CASE size = BufferSize
        BY <1>9, <4>1 DEF RingKept, RingSizes
      <4>2. CASE size < BufferSize
        <5>1. size = printed - boot /\ start = size /\ printed <= b
          BY <1>2, <1>9, <2>11, <4>2 DEF RingKept, RingSizes
        <5>2. t - boot >= BufferSize
          BY <1>1, <1>3, <1>10, <2>12, <5>1
        <5> QED BY <2>11, <5>2
      <4> QED BY <1>1, <1>3, <3>1, <4>1, <4>2
    <3> QED BY <1>2, <2>3, <3>1, <3>2 DEF RingSizes
  <2>8. Stored(data', start', copied', s') /\ Low(data', start', 0, Before')
    BY <1>2 DEF Stored, Low
  <2>9. High(data', start', n, Before')
    <3>0. PICK b2 : b2 = b + (BufferSize - start)
      OBVIOUS
    <3> SUFFICES ASSUME NEW q \in n .. BufferSize - 1
                 PROVE  data[q] = b2 - (BufferSize - 1 - q)
      <4>1. 0 + n = n /\ \A q \in n .. BufferSize - 1 : 0 + BufferSize - 1 - q = BufferSize - 1 - q
        BY <1>1, <1>5
      <4>2. High(data, 0, n, b2)
        BY <4>1 DEF High
      <4> QED BY <1>2, <2>4, <3>0, <4>2
    <3>1. CASE q < start
      <4>1. q \in n .. start - 1
        BY <1>1, <1>5, <1>10, <3>1
      <4>2. Low(data, start, n, b)
        BY <1>2, <1>4, <1>9, <1>10, <2>11 DEF RingKept, RingData
      <4>3. data[q] = b - (start - 1 - q)
        BY <4>1, <4>2 DEF Low
      <4> QED BY <1>1, <1>5, <1>10, <2>12, <3>0, <4>1, <4>3
    <3>2. CASE q >= start
      <4>1. q - start + 1 \in 1 .. copied /\ q - start + 1 \in 1 .. m /\ start + (q - start + 1) - 1 = q
        BY <1>1, <1>2, <1>5, <1>10, <3>2
      <4>2. data[q] = s[q - start + 1]
        BY <1>2, <1>9, <4>1 DEF RingKept, RingData, Stored
      <4>3. s[q - start + 1] = b + (q - start + 1)
        BY <2>5, <4>1
      <4> QED BY <1>1, <1>5, <1>10, <2>12, <3>0, <4>2, <4>3
    <3> QED BY <1>1, <1>5, <1>10, <3>1, <3>2
  <2>10. RingData'
    BY <1>2, <1>7, <2>8, <2>9 DEF RingData
  <2> QED BY <2>6, <2>7, <2>10 DEF RingKept
<1> QED BY <1>8, <1>9

\* The buffer counts as full.
LEMMA FullKeeps ==
  ASSUME RamConsoleAssumption, RamBounds, wrap_size
  PROVE  RamBounds' /\ (RingKept => RingKept')
<1>1. BufferSize \in Nat \ {0}
  BY DEF RamConsoleAssumption
<1>2. /\ pc = "wrap" /\ pc' = "copy" /\ size' = BufferSize /\ data' = data /\ start' = start /\ s' = s
      /\ copied' = copied /\ wrapping' = wrapping /\ printed' = printed /\ boot' = boot
  BY DEF wrap_size
<1>3. /\ start = 0 /\ copied = 0 /\ wrapping = FALSE /\ Len(s) \in 1 .. BufferSize
  BY <1>2 DEF RamBounds
<1>4. CopyCount' = Len(s)
  BY <1>2, <1>3 DEF CopyCount
<1>5. RamBounds'
  <2>1. size' \in Nat /\ copied' <= CopyCount' /\ start' + Len(s') <= BufferSize
    BY <1>1, <1>2, <1>3, <1>4
  <2> QED BY <1>2, <1>3, <2>1 DEF RamBounds
<1>6. ASSUME RingKept PROVE RingKept'
  <2>1. PrintedNow' = PrintedNow /\ Before' = Before
    BY <1>2 DEF PrintedNow, Before
  <2>2. RingNumbers'
    BY <1>2, <1>6, <2>1 DEF RingKept, RingNumbers
  <2>3. RingSizes'
    BY <1>1, <1>2, <1>6, <2>1 DEF RingKept, RingSizes
  <2>4. RingData'
    BY <1>2, <1>3, <1>6, <2>1 DEF RingKept, RingData
  <2> QED BY <2>2, <2>3, <2>4 DEF RingKept
<1> QED BY <1>5, <1>6

\* The last byte is copied: start moves on.
LEMMA StartKeeps ==
  ASSUME RamConsoleAssumption, RamBounds, write_start
  PROVE  RamBounds' /\ (RingKept => RingKept')
<1>1. BufferSize \in Nat \ {0}
  BY DEF RamConsoleAssumption
<1>2. /\ pc = "copy" /\ pc' = "size" /\ wrapping = FALSE /\ copied = Len(s) /\ start' = start + Len(s)
      /\ data' = data /\ size' = size /\ s' = s /\ copied' = copied /\ wrapping' = wrapping
      /\ printed' = printed /\ boot' = boot
  BY DEF write_start, CopyCount, RamBounds
<1>3. /\ start \in 0 .. BufferSize /\ Len(s) \in 1 .. BufferSize /\ start + Len(s) <= BufferSize
      /\ size \in Nat
  BY <1>2 DEF RamBounds
<1>4. RamBounds'
  <2>1. start' \in 0 .. BufferSize
    BY <1>1, <1>2, <1>3
  <2> QED BY <1>2, <2>1 DEF RamBounds
<1>5. ASSUME RingKept PROVE RingKept'
  <2>1. PrintedNow' = PrintedNow /\ Before' = Before
    BY <1>2 DEF PrintedNow, Before
  <2>2. RingNumbers'
    BY <1>2, <1>5, <2>1 DEF RingKept, RingNumbers
  <2>3. RingSizes'
    BY <1>1, <1>2, <1>5, <2>1 DEF RingKept, RingSizes
  <2>4. PICK b, t, m : b = Before /\ t = PrintedNow /\ m = Len(s)
    OBVIOUS
  <2>5. b \in Int /\ t \in Int /\ m \in Nat /\ t = b + m /\ start \in Nat
    BY <1>1, <1>3, <2>4, NowPrinted DEF Before
  <2>6. /\ Low(data, start, 0, b) /\ (size = BufferSize => High(data, start, m, b))
        /\ Stored(data, start, m, s) /\ \A i \in 1 .. m : s[i] = b + i
    BY <1>2, <1>5, <2>4 DEF RingKept, RingData, RingNumbers
  <2>7. Low(data, start + m, 0, t)
    <3>0. PICK st : st = start + m
      OBVIOUS
    <3> SUFFICES ASSUME NEW q \in 0 .. st - 1 PROVE data[q] = t - (st - 1 - q)
      BY <3>0 DEF Low
    <3>1. CASE q < start
      <4>1. q \in 0 .. start - 1
        BY <2>5, <3>1
      <4>2. data[q] = b - (start - 1 - q)
        BY <2>6, <4>1 DEF Low
      <4> QED BY <2>5, <3>0, <4>2
    <3>2. CASE q >= start
      <4>1. q - start + 1 \in 1 .. m /\ start + (q - start + 1) - 1 = q
        BY <2>5, <3>0, <3>2
      <4>2. data[q] = s[q - start + 1] /\ s[q - start + 1] = b + (q - start + 1)
        BY <2>6, <4>1 DEF Stored
      <4> QED BY <2>5, <3>0, <4>2
    <3> QED BY <2>5, <3>0, <3>1, <3>2
  <2>8. ASSUME size = BufferSize PROVE High(data, start + m, 0, t)
    <3> SUFFICES ASSUME NEW q \in start + m + 0 .. BufferSize - 1
                 PROVE  data[q] = t - (start + m + BufferSize - 1 - q)
      BY DEF High
    <3>1. q \in start + m .. BufferSize - 1
      BY <2>5
    <3>2. data[q] = b - (start + BufferSize - 1 - q)
      BY <2>6, <2>8, <3>1 DEF High
    <3> QED BY <1>1, <2>5, <3>2
  <2>9. RingData'
    BY <1>2, <2>1, <2>4, <2>7, <2>8 DEF RingData
  <2> QED BY <2>2, <2>3, <2>9 DEF RingKept
<1> QED BY <1>4, <1>5

\* The write ends with size.
LEMMA SizeKeeps ==
  ASSUME RamConsoleAssumption, RamBounds, write_size
  PROVE  RamBounds' /\ (RingKept => RingKept')
<1>1. BufferSize \in Nat \ {0} /\ <<>> \in Seq(Int) /\ Len(<<>>) = 0
  BY DEF RamConsoleAssumption
<1>2. /\ pc = "size" /\ pc' = "idle" /\ s' = <<>> /\ copied' = 0 /\ printed' = PrintedNow
      /\ size' = IF size < BufferSize THEN size + Len(s) ELSE size
      /\ data' = data /\ start' = start /\ wrapping' = wrapping /\ boot' = boot
  BY DEF write_size
<1>3. size \in Nat /\ Len(s) \in 1 .. BufferSize /\ Len(s) \in Nat /\ wrapping = FALSE /\ PrintedNow \in Int /\ boot \in Int
      /\ start \in 0 .. BufferSize /\ printed \in Int
  BY <1>1, <1>2, NowPrinted DEF RamBounds
<1>4. RamBounds'
  <2>1. size' \in Nat
    BY <1>1, <1>2, <1>3
  <2> QED BY <1>1, <1>2, <1>3, <2>1 DEF RamBounds
<1>5. ASSUME RingKept PROVE RingKept'
  <2>1. PrintedNow' = PrintedNow
    BY <1>2, <1>4, NowPrinted
  <2>2. Before' = PrintedNow
    BY <1>1, <1>2, <1>3, <2>1 DEF Before
  <2>3. RingNumbers'
    BY <1>1, <1>2 DEF RingNumbers
  <2>4. PICK t, m : t = PrintedNow /\ m = Len(s)
    OBVIOUS
  <2>5. t \in Int /\ m \in Nat /\ m > 0
    BY <1>1, <1>3, <2>4
  <2>6. /\ size <= BufferSize
        /\ size < BufferSize => /\ size = printed - boot /\ start = size + m
                                /\ printed <= t - m /\ (m < BufferSize => t - m = printed)
        /\ size = BufferSize => t - boot >= BufferSize
        /\ Low(data, start, 0, t) /\ (size = BufferSize => High(data, start, 0, t))
    BY <1>2, <1>5, <2>4 DEF RingKept, RingSizes, RingData, Before
  <2>7. CASE size = BufferSize
    <3>1. size' = BufferSize
      BY <1>1, <1>2, <2>7
    <3>2. RingSizes'
      BY <1>1, <1>2, <2>1, <2>4, <2>6, <2>7, <3>1 DEF RingSizes
    <3>3. RingData'
      BY <1>1, <1>2, <1>3, <2>2, <2>4, <2>6, <2>7, <3>1 DEF RingData, Stored
    <3> QED BY <2>3, <3>2, <3>3 DEF RingKept
  <2>8. CASE size < BufferSize
    <3>1. size' = size + m /\ size' = start
      BY <1>2, <2>4, <2>6, <2>8
    <3>2. /\ start <= BufferSize /\ (start < BufferSize => start = t - boot)
          /\ start = BufferSize => t - boot >= BufferSize
      BY <1>1, <1>3, <2>5, <2>6, <2>8
    <3>3. RingSizes'
      BY <1>1, <1>2, <1>3, <2>1, <2>2, <2>4, <2>5, <3>1, <3>2 DEF RingSizes
    <3>4. start = BufferSize => High(data, start, 0, t)
      BY <1>1 DEF High
    <3>5. RingData'
      BY <1>1, <1>2, <1>3, <2>2, <2>4, <2>6, <3>1, <3>4 DEF RingData, Stored
    <3> QED BY <2>3, <3>3, <3>5 DEF RingKept
  <2> QED BY <1>1, <1>3, <2>6, <2>7, <2>8
<1> QED BY <1>4, <1>5

\* A boot finds the buffer as it may be, and begins a new log.
LEMMA BootKeeps ==
  ASSUME RamConsoleAssumption, RamBounds, NEW kmalloc, ram_console_init(kmalloc)
  PROVE  RamBounds' /\ RingKept'
<1>1. BufferSize \in Nat \ {0} /\ <<>> \in Seq(Int) /\ Len(<<>>) = 0
  BY DEF RamConsoleAssumption
<1>2. /\ start' = 0 /\ size' = 0 /\ pc' = "idle" /\ s' = <<>> /\ copied' = 0 /\ wrapping' = FALSE
      /\ printed' = PrintedNow /\ boot' = PrintedNow /\ data' = data
  BY DEF ram_console_init
<1>3. PrintedNow \in Int /\ data \in [0 .. BufferSize - 1 -> Int]
  BY NowPrinted DEF RamBounds
<1>4. RamBounds'
  BY <1>1, <1>2, <1>3 DEF RamBounds
<1>5. PrintedNow' = PrintedNow
  BY <1>2, <1>4, NowPrinted
<1>6. Before' = PrintedNow
  BY <1>1, <1>2, <1>3, <1>5 DEF Before
<1>7. RingNumbers' /\ RingSizes'
  BY <1>1, <1>2, <1>3, <1>5, <1>6 DEF RingNumbers, RingSizes
<1>8. RingData'
  BY <1>1, <1>2 DEF RingData, Stored, Low
<1> QED BY <1>4, <1>7, <1>8 DEF RingKept

\* Every step keeps the bounds and, if there is no oops, the content.
LEMMA RamNextInv ==
  ASSUME RamConsoleAssumption, RamBounds, [RamNext]_ramVars
  PROVE  RamBounds' /\ (~ Oops /\ RingKept => RingKept')
<1>1. CASE oops
  <2>1. /\ Oops /\ pc' = "idle" /\ s' = <<>> /\ copied' = 0 /\ wrapping' = FALSE /\ printed' = PrintedNow
        /\ data' = data /\ start' = start /\ size' = size /\ boot' = boot
    BY <1>1 DEF oops
  <2>2. PrintedNow \in Int /\ <<>> \in Seq(Int)
    BY NowPrinted
  <2>3. RamBounds'
    BY <2>1, <2>2 DEF RamBounds
  <2> QED BY <2>1, <2>3
<1>2. CASE UNCHANGED ramVars
  BY <1>2 DEF ramVars, RamBounds, CopyCount, RingKept, RingNumbers, RingSizes, RingData, Before, PrintedNow
<1> QED BY <1>1, <1>2, WriteKeeps, CopyKeeps, WrapKeeps, FullKeeps, StartKeeps, SizeKeeps, BootKeeps DEF RamNext

\* What the next boot finds when no write is running.
LEMMA QuietLog ==
  ASSUME RamConsoleAssumption, RamBounds, RingKept, pc = "idle"
  PROVE  Valid /\ ram_console_save_old = Fits
<1>1. BufferSize \in Nat \ {0}
  BY DEF RamConsoleAssumption
<1>2. size \in Nat /\ start \in 0 .. BufferSize /\ start \in Nat /\ printed \in Int /\ boot \in Int /\ s = <<>> /\ Len(<<>>) = 0
      /\ wrapping = FALSE
  BY <1>1 DEF RamBounds
<1>3. PrintedNow = printed /\ Before = printed
  BY <1>2, NowPrinted DEF Before
<1>4. /\ size <= BufferSize
      /\ size < BufferSize => size = printed - boot /\ start = size
      /\ size = BufferSize => printed - boot >= BufferSize
      /\ Low(data, start, 0, printed)
      /\ size = BufferSize => High(data, start, 0, printed)
  BY <1>2, <1>3 DEF RingKept, RingSizes, RingData
<1>5. start <= size
  BY <1>1, <1>2, <1>4
<1>6. ASSUME NEW k \in 1 .. size
      PROVE  (IF k <= size - start THEN data[start + k - 1] ELSE data[k - 1 - (size - start)]) = printed - size + k
  <2>1. CASE k <= size - start
    <3>1. size = BufferSize /\ start + k - 1 \in start + 0 .. BufferSize - 1
      BY <1>1, <1>2, <1>4, <2>1
    <3>2. data[start + k - 1] = printed - (start + BufferSize - 1 - (start + k - 1))
      BY <1>4, <3>1 DEF High
    <3> QED BY <1>1, <1>2, <2>1, <3>1, <3>2
  <2>2. CASE ~ (k <= size - start)
    <3>1. k - 1 - (size - start) \in 0 .. start - 1
      BY <1>2, <1>5, <2>2
    <3>2. data[k - 1 - (size - start)] = printed - (start - 1 - (k - 1 - (size - start)))
      BY <1>4, <3>1 DEF Low
    <3> QED BY <1>2, <2>2, <3>2
  <2> QED BY <2>1, <2>2
<1>7. ram_console_save_old = [k \in 1 .. size |-> printed - size + k]
  BY <1>6 DEF ram_console_save_old
<1>8. PICK y, n : y = Printed /\ n = printed - boot
  OBVIOUS
<1>9. n \in Nat /\ y = [k \in 1 .. n |-> boot + k] /\ size <= n
  BY <1>1, <1>2, <1>4, <1>8 DEF Printed, Bytes
<1>10. y \in Seq(Int) /\ Len(y) = n
  BY <1>2, <1>9
<1>11. Fits = [k \in 1 .. size |-> printed - size + k]
  <2>1. CASE n < BufferSize
    <3>1. size = n
      BY <1>1, <1>2, <1>4, <1>8, <1>9, <2>1
    <3>2. Fits = y
      BY <1>8, <1>10, <2>1 DEF Fits
    <3>3. \A k \in 1 .. n : boot + k = printed - size + k
      BY <1>2, <1>8, <1>9, <3>1
    <3> QED BY <1>9, <3>1, <3>2, <3>3
  <2>2. CASE ~ (n < BufferSize)
    <3>1. size = BufferSize /\ BufferSize \in 0 .. Len(y)
      BY <1>1, <1>2, <1>4, <1>8, <1>9, <1>10, <2>2
    <3>2. Fits = LastOf(y, BufferSize)
      BY <1>8, <1>10, <2>2 DEF Fits
    <3>3. /\ LastOf(y, BufferSize) \in Seq(Int) /\ Len(LastOf(y, BufferSize)) = BufferSize
          /\ \A k \in 1 .. BufferSize : LastOf(y, BufferSize)[k] = y[Len(y) - BufferSize + k]
      BY <1>10, <3>1, LastBytes
    <3>4. \A k \in 1 .. size : n - size + k \in 1 .. n /\ boot + (n - size + k) = printed - size + k
      BY <1>1, <1>2, <1>8, <1>9, <3>1
    <3>5. PICK z : z = Fits
      OBVIOUS
    <3>6. z \in Seq(Int) /\ Len(z) = size /\ \A k \in 1 .. size : z[k] = y[n - size + k]
      BY <1>10, <3>1, <3>2, <3>3, <3>5
    <3>7. \A k \in 1 .. size : z[k] = printed - size + k
      BY <1>9, <3>4, <3>6
    <3>8. z = [k \in 1 .. Len(z) |-> z[k]]
      BY <3>6
    <3> QED BY <3>5, <3>6, <3>7, <3>8
  <2> QED BY <2>1, <2>2
<1> QED BY <1>4, <1>5, <1>7, <1>11 DEF Valid

(***************************************************************************)
(* For a buffer of any size and writes of any length, ram_console_write    *)
(* and ram_console_update never store behind the end of the buffer, also   *)
(* when an oops in the middle of a write starts another one on the start   *)
(* and size that it finds, and whatever a boot finds.                      *)
(***************************************************************************)
THEOREM RamConsoleAlwaysInBounds ==
  ASSUME RamConsoleAssumption
  PROVE  RamSpec => []InBounds
<1>1. RamInit => RamBounds
  BY RamInitInv
<1>2. RamBounds /\ [RamNext]_ramVars => RamBounds'
  BY RamNextInv
<1>3. RamBounds => InBounds
  <2> SUFFICES ASSUME RamBounds PROVE InBounds
    OBVIOUS
  <2>1. BufferSize \in Nat \ {0}
    BY DEF RamConsoleAssumption
  <2>2. start \in 0 .. BufferSize /\ Len(s) \in Nat /\ wrapping \in BOOLEAN
    BY NowPrinted DEF RamBounds
  <2>3. wrapping = TRUE => start + CopyCount = BufferSize
    BY <2>1, <2>2 DEF CopyCount
  <2>4. pc = "copy" /\ wrapping = FALSE => start + CopyCount <= BufferSize
    BY DEF RamBounds, CopyCount
  <2> QED BY <2>1, <2>2, <2>3, <2>4 DEF InBounds
<1> QED BY <1>1, <1>2, <1>3, PTL DEF RamSpec

(***************************************************************************)
(* For a buffer of any size, if no write is given up for an oops: a boot   *)
(* that comes between two writes finds the buffer valid and                *)
(* ram_console_save_old saves the last bytes that were printed, in order   *)
(* and as many as the buffer holds, however the writes fell on its end.    *)
(***************************************************************************)
THEOREM QuietLogAlwaysSaved ==
  ASSUME RamConsoleAssumption, ~ Oops
  PROVE  RamSpec => [][QuietSaved]_ramVars
<1>1. RamInit => RamBounds /\ RingKept
  BY RamInitInv
<1>2. RamBounds /\ RingKept /\ [RamNext]_ramVars => (RamBounds /\ RingKept)'
  BY RamNextInv
<1>3. RamBounds /\ RingKept => QuietSaved
  <2> SUFFICES ASSUME RamBounds, RingKept, ram_console_init(TRUE), pc = "idle" PROVE old_log' = Fits
    BY DEF QuietSaved
  <2>1. Valid /\ ram_console_save_old = Fits
    BY QuietLog
  <2> QED BY <2>1 DEF ram_console_init
<1> QED BY <1>1, <1>2, <1>3, PTL DEF RamSpec
=============================================================================
