----------------------------- MODULE AshmemArea ------------------------------
(***************************************************************************)
(* The life of one ashmem area, mm/ashmem.c: its size, name, protection    *)
(* and backing file, and who holds ashmem_mutex.  ASHMEM_SET_SIZE looks at *)
(* the file and sets the size without the mutex; mmap and unpin allocate   *)
(* memory under it, and the allocation may call the shrinker.              *)
(***************************************************************************)
EXTENDS Naturals, FiniteSets

CONSTANTS
  Threads,
  Sizes,         \* sizes that are set, in pages
  Names,         \* names that are set
  NoName         \* the name of an area nobody named

AreaAssumption == Sizes \subseteq Nat /\ NoName \notin Names

PROT_MASK == {"read", "write", "exec"}

Nobody == "nobody"
NoFile == [size |-> 0, name |-> NoName]

VARIABLES
  size, name, prot_mask,  \* of struct ashmem_area
  file,      \* the backing file, or NoFile
  mapped,    \* the rights each thread has by its mapping, {} if none
  lru_count, \* are there unpinned pages to take back (of this and other areas)?
  mutex,     \* ashmem_mutex: its owner
  pc         \* where each thread is

areaVars == <<size, name, prot_mask, file, mapped, lru_count, mutex, pc>>

Goto(t, where) == pc' = [pc EXCEPT ![t] = where]

-----------------------------------------------------------------------------
set_size_test(t) ==
  /\ pc[t] = "idle" /\ file = NoFile
  /\ Goto(t, "set_size")
  /\ UNCHANGED <<size, name, prot_mask, file, mapped, lru_count, mutex>>

set_size_store(t, n) ==
  /\ pc[t] = "set_size"
  /\ size' = n
  /\ Goto(t, "idle")
  /\ UNCHANGED <<name, prot_mask, file, mapped, lru_count, mutex>>

\* Mutant of set_name: the file is not looked at.
set_name_any(t, n) ==
  /\ pc[t] = "idle" /\ mutex = Nobody
  /\ name' = n
  /\ UNCHANGED <<size, prot_mask, file, mapped, lru_count, mutex, pc>>

set_name(t, n) ==
  /\ pc[t] = "idle" /\ mutex = Nobody
  /\ file = NoFile
  /\ name' = n
  /\ UNCHANGED <<size, prot_mask, file, mapped, lru_count, mutex, pc>>

\* With the personality READ_IMPLIES_EXEC the right to read brings the right
\* to execute, also one that was removed.
set_prot_mask(t, prot, implies) ==
  /\ pc[t] = "idle" /\ mutex = Nobody
  /\ prot \subseteq prot_mask
  /\ prot_mask' = IF implies /\ "read" \in prot THEN prot \cup {"exec"} ELSE prot
  /\ UNCHANGED <<size, name, file, mapped, lru_count, mutex, pc>>

\* ashmem_mmap up to the allocation of the backing file.
mmap_lock(t, prot) ==
  /\ pc[t] = "idle" /\ mutex = Nobody
  /\ size # 0
  /\ prot \subseteq prot_mask
  /\ mapped' = [mapped EXCEPT ![t] = prot]
  /\ IF file = NoFile
       THEN mutex' = t /\ Goto(t, "file_setup")
       ELSE UNCHANGED <<mutex, pc>>
  /\ UNCHANGED <<size, name, prot_mask, file, lru_count>>

file_setup(t, fails) ==
  /\ pc[t] = "file_setup"
  /\ file' = IF fails THEN NoFile ELSE [size |-> size, name |-> name]
  /\ mapped' = IF fails THEN [mapped EXCEPT ![t] = {}] ELSE mapped
  /\ mutex' = Nobody
  /\ Goto(t, "idle")
  /\ UNCHANGED <<size, name, prot_mask, lru_count>>

\* ashmem_pin_unpin: the file is looked at before the mutex is taken.
unpin_lock(t) ==
  /\ pc[t] = "idle" /\ mutex = Nobody
  /\ file # NoFile
  /\ mutex' = t
  /\ Goto(t, "range_alloc")
  /\ UNCHANGED <<size, name, prot_mask, file, mapped, lru_count>>

range_alloc(t) ==
  /\ pc[t] = "range_alloc"
  /\ lru_count' \in {TRUE, lru_count}   \* -ENOMEM
  /\ mutex' = Nobody
  /\ Goto(t, "idle")
  /\ UNCHANGED <<size, name, prot_mask, file, mapped>>

\* GFP_KERNEL has __GFP_FS set: shrink_slab asks ashmem_shrink for lru_count
\* and has it scan if there is something.
reclaim(t) ==
  /\ lru_count
  /\ pc[t] \in {"file_setup", "range_alloc"}
  /\ Goto(t, "shrink")
  /\ UNCHANGED <<size, name, prot_mask, file, mapped, lru_count, mutex>>

\* kswapd and allocations of others.
other_reclaim(t) ==
  /\ pc[t] = "idle" /\ lru_count
  /\ Goto(t, "shrink")
  /\ UNCHANGED <<size, name, prot_mask, file, mapped, lru_count, mutex>>

\* ashmem_shrink behind mutex_lock
ashmem_shrink(t) ==
  /\ pc[t] = "shrink" /\ mutex = Nobody
  /\ lru_count' = FALSE
  /\ Goto(t, "idle")
  /\ UNCHANGED <<size, name, prot_mask, file, mapped, mutex>>

\* The last reference to the file goes: a new area takes its place.
ashmem_release ==
  /\ \A t \in Threads : pc[t] \in {"idle", "shrink"} /\ mapped[t] = {}
  /\ mutex = Nobody
  /\ size' = 0 /\ name' = NoName /\ prot_mask' = PROT_MASK /\ file' = NoFile
  /\ lru_count' \in {lru_count, FALSE}
  /\ UNCHANGED <<mapped, mutex, pc>>

munmap(t) ==
  /\ pc[t] = "idle" /\ mapped[t] # {}
  /\ mapped' = [mapped EXCEPT ![t] = {}]
  /\ UNCHANGED <<size, name, prot_mask, file, lru_count, mutex, pc>>

-----------------------------------------------------------------------------
AreaInit ==
  /\ size = 0 /\ name = NoName /\ prot_mask = PROT_MASK /\ file = NoFile
  /\ mapped = [t \in Threads |-> {}]
  /\ lru_count = FALSE
  /\ mutex = Nobody
  /\ pc = [t \in Threads |-> "idle"]

AreaNext ==
  \/ \E t \in Threads :
       \/ set_size_test(t) \/ \E n \in Sizes : set_size_store(t, n)
       \/ \E n \in Names : set_name(t, n)
       \/ \E prot \in SUBSET PROT_MASK :
            mmap_lock(t, prot) \/ \E implies \in BOOLEAN : set_prot_mask(t, prot, implies)
       \/ \E fails \in BOOLEAN : file_setup(t, fails)
       \/ unpin_lock(t) \/ range_alloc(t)
       \/ reclaim(t) \/ other_reclaim(t) \/ ashmem_shrink(t)
       \/ munmap(t)
  \/ ashmem_release

AreaSpec == AreaInit /\ [][AreaNext]_areaVars

-----------------------------------------------------------------------------
(***************************************************************************)
(* "cannot change an existing mapping's name": the name ASHMEM_GET_NAME    *)
(* returns is the one the backing file was given, and shows in             *)
(* /proc/<pid>/maps, as long as there is a file.                           *)
(***************************************************************************)
NameOfFile == file # NoFile => name = file.name

(***************************************************************************)
(* struct ashmem_area is "Protected by ashmem_mutex": the size an area has *)
(* once it is mapped, by which pins are checked, is its file's size.       *)
(***************************************************************************)
SizeOfFile == file # NoFile => size = file.size

(***************************************************************************)
(* The shrinker's answer is "-1 if we cannot proceed without risk of       *)
(* deadlock": no thread waits in it for the mutex it holds itself.         *)
(***************************************************************************)
ShrinkerNeverWaitsForItself == \A t \in Threads : pc[t] = "shrink" => mutex # t

=============================================================================
