---------------------------- MODULE LoggerReaders ----------------------------
(***************************************************************************)
(* The list of readers of a log, drivers/staging/android/logger.c, pointer *)
(* by pointer.  Logger treats each walk over the list as one step; here    *)
(* the walk is preempted between any two readers.  logger_open adds to the *)
(* list under log->mutex, fix_up_readers and LOGGER_FLUSH_LOG walk it      *)
(* under log->mutex, logger_release takes its reader off without it and    *)
(* meets whatever the others have left half done.                          *)
(***************************************************************************)
EXTENDS Naturals

CONSTANTS
  ListReaders,   \* memory for struct logger_reader, one file each
  Walkers        \* threads in logger_aio_write or LOGGER_FLUSH_LOG

ListHead == "readers"   \* &log->readers
Free == "free"          \* nobody: an unlocked mutex; what is read of freed memory

ReadersAssumption ==
  ListReaders \cap Walkers = {} /\ {ListHead, Free} \cap (ListReaders \cup Walkers) = {}

Nodes == ListReaders \cup {ListHead}

VARIABLES
  next, prev,  \* the list_head of each node
  mutex,       \* log->mutex: its owner
  file,        \* where each reader's file is in its life
  before,      \* what list_add_tail and list_del of a reader read of its neighbours
  after,
  pos,         \* the cursor of each walker
  visited,     \* the readers a walker has come by
  raced        \* has one of the two races happened so far: a change of the list
               \* that began before another was done, or a kfree of the reader
               \* under a cursor?  It is there to state the properties

rlVars == <<next, prev, mutex, file, before, after, pos, visited, raced>>

Live == {r \in ListReaders : file[r] # "closed"}

\* A logger_open or logger_release of the reader is at the list.
Busy(r) == file[r] \notin {"closed", "open"}

\* The readers that are on the list.
Linked == {r \in ListReaders : file[r] \in {"open", "deleting", "deleted"}}

-----------------------------------------------------------------------------
\* kmalloc, INIT_LIST_HEAD, mutex_lock; list_add_tail reads head->prev.
open_lock(r) ==
  /\ file[r] = "closed"
  /\ mutex = Free
  /\ mutex' = r
  /\ next' = [next EXCEPT ![r] = r]
  /\ prev' = [prev EXCEPT ![r] = r]
  /\ before' = [before EXCEPT ![r] = prev[ListHead]]
  /\ file' = [file EXCEPT ![r] = "adding"]
  /\ raced' = (raced \/ \E s \in ListReaders : Busy(s))
  /\ UNCHANGED <<after, pos, visited>>

\* Mutant of list_add_back: head->prev is not set.
list_add_back_forgotten(r) ==
  /\ file[r] = "adding"
  /\ prev' = [prev EXCEPT ![r] = before[r]]
  /\ next' = [next EXCEPT ![r] = ListHead]
  /\ file' = [file EXCEPT ![r] = "added"]
  /\ UNCHANGED <<mutex, before, after, pos, visited, raced>>

\* __list_add: next->prev = new and new's own pointers.
list_add_back(r) ==
  /\ file[r] = "adding"
  /\ prev' = [prev EXCEPT ![ListHead] = r, ![r] = before[r]]
  /\ next' = [next EXCEPT ![r] = ListHead]
  /\ file' = [file EXCEPT ![r] = "added"]
  /\ UNCHANGED <<mutex, before, after, pos, visited, raced>>

\* __list_add: prev->next = new; mutex_unlock.
open_unlock(r) ==
  /\ file[r] = "added"
  /\ next' = [next EXCEPT ![before[r]] = r]
  /\ mutex' = Free
  /\ before' = [before EXCEPT ![r] = Free]
  /\ file' = [file EXCEPT ![r] = "open"]
  /\ UNCHANGED <<prev, after, pos, visited, raced>>

\* logger_release: list_del reads both neighbours, without the mutex.
release_start(r) ==
  /\ file[r] = "open"
  /\ before' = [before EXCEPT ![r] = prev[r]]
  /\ after' = [after EXCEPT ![r] = next[r]]
  /\ file' = [file EXCEPT ![r] = "deleting"]
  /\ raced' = (raced \/ \E s \in ListReaders : Busy(s))
  /\ UNCHANGED <<next, prev, mutex, pos, visited>>

\* __list_del: next->prev = prev, unless a neighbour is what freed memory holds.
list_del_back(r) ==
  /\ file[r] = "deleting"
  /\ after[r] # Free /\ before[r] # Free
  /\ prev' = [prev EXCEPT ![after[r]] = before[r]]
  /\ file' = [file EXCEPT ![r] = "deleted"]
  /\ UNCHANGED <<next, mutex, before, after, pos, visited, raced>>

\* __list_del: prev->next = next.
list_del_forward(r) ==
  /\ file[r] = "deleted"
  /\ next' = [next EXCEPT ![before[r]] = after[r]]
  /\ file' = [file EXCEPT ![r] = "unlinked"]
  /\ UNCHANGED <<prev, mutex, before, after, pos, visited, raced>>

\* list_del's poison; kfree.
release_free(r) ==
  /\ file[r] = "unlinked"
  /\ next' = [next EXCEPT ![r] = Free]
  /\ prev' = [prev EXCEPT ![r] = Free]
  /\ before' = [before EXCEPT ![r] = Free]
  /\ after' = [after EXCEPT ![r] = Free]
  /\ file' = [file EXCEPT ![r] = "closed"]
  /\ raced' = (raced \/ \E w \in Walkers : mutex = w /\ pos[w] = r)
  /\ UNCHANGED <<mutex, pos, visited>>

\* The access through a poisoned neighbour is an oops, and the close ends there.
release_oops(r) ==
  /\ file[r] = "deleting"
  /\ after[r] = Free \/ before[r] = Free
  /\ UNCHANGED rlVars

-----------------------------------------------------------------------------
\* list_for_each_entry under the mutex, one reader at a time.
walk_lock(w) ==
  /\ mutex = Free
  /\ mutex' = w
  /\ pos' = [pos EXCEPT ![w] = next[ListHead]]
  /\ visited' = [visited EXCEPT ![w] = {}]
  /\ UNCHANGED <<next, prev, file, before, after, raced>>

walk_reader(w) ==
  /\ mutex = w
  /\ pos[w] \in ListReaders
  /\ visited' = [visited EXCEPT ![w] = @ \cup {pos[w]}]
  /\ pos' = [pos EXCEPT ![w] = next[pos[w]]]
  /\ UNCHANGED <<next, prev, mutex, file, before, after, raced>>

walk_unlock(w) ==
  /\ mutex = w
  /\ pos[w] = ListHead
  /\ mutex' = Free
  /\ UNCHANGED <<next, prev, file, before, after, pos, visited, raced>>

\* The cursor was taken from freed memory: the thread dies with log->mutex held.
walk_oops(w) ==
  /\ mutex = w
  /\ pos[w] = Free
  /\ UNCHANGED rlVars

-----------------------------------------------------------------------------
RLInit ==
  /\ next = [n \in Nodes |-> IF n = ListHead THEN ListHead ELSE Free]
  /\ prev = [n \in Nodes |-> IF n = ListHead THEN ListHead ELSE Free]
  /\ mutex = Free
  /\ file = [r \in ListReaders |-> "closed"]
  /\ before = [r \in ListReaders |-> Free]
  /\ after = [r \in ListReaders |-> Free]
  /\ pos = [w \in Walkers |-> ListHead]
  /\ visited = [w \in Walkers |-> {}]
  /\ raced = FALSE

RLNext ==
  \/ \E r \in ListReaders :
       \/ open_lock(r) \/ list_add_back(r) \/ open_unlock(r)
       \/ release_start(r) \/ list_del_back(r) \/ list_del_forward(r)
       \/ release_free(r) \/ release_oops(r)
  \/ \E w \in Walkers :
       walk_lock(w) \/ walk_reader(w) \/ walk_unlock(w) \/ walk_oops(w)

RLSpec == RLInit /\ [][RLNext]_rlVars

-----------------------------------------------------------------------------
(***************************************************************************)
(* "This object lives from open to release": a walk over the readers, of a *)
(* writer or of a flush, is never at a reader that has been released.      *)
(***************************************************************************)
WalkedReadersLive ==
  \A w \in Walkers : mutex = w => pos[w] \in Live \cup {ListHead}

(***************************************************************************)
(* A walk, of a writer or of a flush, comes by every reader that is still  *)
(* on the list when it ends, so that none is left behind at an offset that *)
(* a writer overwrites, and is never at freed memory; readers may be       *)
(* released meanwhile, before the cursor and behind it.  Two races alone   *)
(* end that: two changes of the list that overlap, and the release of the  *)
(* reader at which the walk is.                                            *)
(***************************************************************************)
WalkComplete ==
  ~ raced =>
    /\ WalkedReadersLive
    /\ \A w \in Walkers : mutex = w /\ pos[w] = ListHead => Linked \subseteq visited[w]

-----------------------------------------------------------------------------
RLTypeOK ==
  /\ next \in [Nodes -> Nodes \cup {Free}] /\ prev \in [Nodes -> Nodes \cup {Free}]
  /\ mutex \in ListReaders \cup Walkers \cup {Free}
  /\ file \in [ListReaders ->
                {"closed", "adding", "added", "open", "deleting", "deleted", "unlinked"}]
  /\ before \in [ListReaders -> Nodes \cup {Free}] /\ after \in [ListReaders -> Nodes \cup {Free}]
  /\ pos \in [Walkers -> Nodes \cup {Free}] /\ visited \in [Walkers -> SUBSET ListReaders]
  /\ raced \in BOOLEAN

\* One reader at a time is added or released, and the adding one has the mutex.
OneAtATime ==
  /\ \A r, s \in ListReaders : Busy(r) /\ Busy(s) => r = s
  /\ \A r \in ListReaders : mutex = r <=> file[r] \in {"adding", "added"}

Ring == Linked \cup {ListHead}

\* back takes each node of the list to the one before it, and from any readers
\* out of their midst, so that the way back from each of them ends at the head.
RingWith(back) ==
  /\ \A n \in Ring : next[n] \in Ring /\ back[next[n]] = n /\ next[back[n]] = n
  /\ \A S \in SUBSET Linked : S # {} => \E n \in S : back[n] \notin S

\* prev is back, but for what a list_add_tail or list_del has written ahead.
BackPointers(back) ==
  /\ \A n \in Ring : prev[n] # back[n] =>
       \E r \in ListReaders :
         (n = ListHead /\ file[r] = "added") \/ (n = after[r] /\ file[r] = "deleted")
  /\ \A r \in ListReaders :
       /\ file[r] \in {"adding", "added"} => before[r] = back[ListHead]
       /\ file[r] = "added" => prev[ListHead] = r /\ prev[r] = before[r] /\ next[r] = ListHead
       /\ file[r] \in {"deleting", "deleted"} => before[r] = back[r] /\ after[r] = next[r]
       /\ file[r] = "deleted" => prev[after[r]] = before[r]
       /\ file[r] = "unlinked" => after[r] = next[r] /\ after[r] \in Ring

\* Where a walk goes on: at its cursor or, if that was taken off, behind it.
Cursor(w) == IF pos[w] \in Ring THEN pos[w] ELSE after[pos[w]]

\* A reader that a walk has still to come by is the next one or behind another
\* such reader.
WalkWith(back) ==
  \A w \in Walkers : mutex = w =>
    /\ pos[w] \in Ring \cup {r \in ListReaders : file[r] = "unlinked"}
    /\ \A r \in Linked \ visited[w] : r = Cursor(w) \/ back[r] \in Linked \ visited[w]

RingInv == \E back \in [Ring -> Ring] : RingWith(back) /\ BackPointers(back) /\ WalkWith(back)

ReadersInv == RLTypeOK /\ (~ raced => OneAtATime /\ RingInv)

=============================================================================
