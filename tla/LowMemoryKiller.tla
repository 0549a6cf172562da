--------------------------- MODULE LowMemoryKiller ---------------------------
(***************************************************************************)
(* drivers/staging/android/lowmemorykiller.c: the shrinker lowmem_shrink,  *)
(* called by reclaim, kills one process when free and cached memory are    *)
(* below a threshold.  The process dies later: until it has given its      *)
(* memory back the shrinker finds it again, and it must neither choose a   *)
(* process that has nothing left to give nor stop killing.  User space     *)
(* rewrites the two arrays of thresholds one after the other.              *)
(***************************************************************************)
EXTENDS Integers, Sequences

CONSTANTS
  Tasks,        \* the processes in the order of for_each_process
  OomAdj,       \* values of oom_adj
  AdjArrays,    \* values written to parameters/adj, ascending
  MinfreeArrays,\* values written to parameters/minfree, ascending
  MaxRss,       \* bound on the pages of a process
  MaxPages      \* the pages of the system

NoTask == "NULL"
Procs == {Tasks[i] : i \in DOMAIN Tasks}

LowMemAssumption ==
  /\ Tasks \in Seq(Procs) /\ NoTask \notin Procs
  /\ OomAdj \subseteq Int
  /\ AdjArrays \subseteq Seq(Int) /\ MinfreeArrays \subseteq Seq(Nat)
  /\ MaxRss \in Nat /\ MaxPages \in Nat

VARIABLES
  free, file,               \* NR_FREE_PAGES, NR_FILE_PAGES
  oom_adj, rss,             \* of each process
  status,                   \* "live", "dying" (fatal signal pending) or
                            \* "gone" (no mm any more, still in the list)
  lowmem_adj, lowmem_minfree

lowVars == <<free, file, oom_adj, rss, status, lowmem_adj, lowmem_minfree>>

OOM_ADJUST_MAX == 15

-----------------------------------------------------------------------------
\* The first threshold below which both counts are, in the common part of
\* the two arrays.
Thresholds ==
  {i \in DOMAIN lowmem_adj \cap DOMAIN lowmem_minfree :
     free < lowmem_minfree[i] /\ file < lowmem_minfree[i]}

min_adj ==
  IF Thresholds = {} THEN OOM_ADJUST_MAX + 1
  ELSE lowmem_adj[CHOOSE i \in Thresholds : \A j \in Thresholds : i <= j]

\* One round of for_each_process; the shrinker's choice so far is sel.
\* Mutant of Consider: a process without memory is looked at.
Consider_no_mm(sel, p) ==
  IF \/ oom_adj[p] < min_adj
     \/ sel # NoTask /\ \/ oom_adj[p] < oom_adj[sel]
                        \/ oom_adj[p] = oom_adj[sel] /\ rss[p] <= rss[sel]
  THEN sel ELSE p

\* Mutant of Consider: size decides before oom_adj.
Consider_size(sel, p) ==
  IF \/ status[p] = "gone"
     \/ oom_adj[p] < min_adj
     \/ rss[p] <= 0
     \/ sel # NoTask /\ rss[p] <= rss[sel]
  THEN sel ELSE p

Consider(sel, p) ==
  IF \/ status[p] = "gone"
     \/ oom_adj[p] < min_adj
     \/ rss[p] <= 0
     \/ sel # NoTask /\ \/ oom_adj[p] < oom_adj[sel]
                        \/ oom_adj[p] = oom_adj[sel] /\ rss[p] <= rss[sel]
  THEN sel ELSE p

Selected ==
  LET after[i \in 0 .. Len(Tasks)] ==
        IF i = 0 THEN NoTask ELSE Consider(after[i - 1], Tasks[i])
  IN  after[Len(Tasks)]

\* A process that is dying already is left to die.
lowmem_shrink ==
  /\ min_adj # OOM_ADJUST_MAX + 1
  /\ Selected # NoTask
  /\ status[Selected] # "dying"
  /\ status' = [status EXCEPT ![Selected] = "dying"]
  /\ UNCHANGED <<free, file, oom_adj, rss, lowmem_adj, lowmem_minfree>>

-----------------------------------------------------------------------------
\* The pages are free again.
exit_mm(p) ==
  /\ status[p] = "dying"
  /\ status' = [status EXCEPT ![p] = "gone"]
  /\ free' = free + rss[p]
  /\ rss' = [rss EXCEPT ![p] = 0]
  /\ UNCHANGED <<file, oom_adj, lowmem_adj, lowmem_minfree>>

page_fault(p) ==
  /\ status[p] = "live" /\ free > 0 /\ rss[p] < MaxRss
  /\ free' = free - 1
  /\ rss' = [rss EXCEPT ![p] = @ + 1]
  /\ UNCHANGED <<file, oom_adj, status, lowmem_adj, lowmem_minfree>>

read_file ==
  /\ free > 0
  /\ free' = free - 1 /\ file' = file + 1
  /\ UNCHANGED <<oom_adj, rss, status, lowmem_adj, lowmem_minfree>>

drop_cache ==
  /\ file > 0
  /\ free' = free + 1 /\ file' = file - 1
  /\ UNCHANGED <<oom_adj, rss, status, lowmem_adj, lowmem_minfree>>

write_oom_adj(p, a) ==
  /\ status[p] = "live"
  /\ oom_adj' = [oom_adj EXCEPT ![p] = a]
  /\ UNCHANGED <<free, file, rss, status, lowmem_adj, lowmem_minfree>>

write_adj(a) ==
  /\ lowmem_adj' = a
  /\ UNCHANGED <<free, file, oom_adj, rss, status, lowmem_minfree>>

write_minfree(m) ==
  /\ lowmem_minfree' = m
  /\ UNCHANGED <<free, file, oom_adj, rss, status, lowmem_adj>>

-----------------------------------------------------------------------------
LowInit ==
  /\ free = MaxPages /\ file = 0
  /\ oom_adj \in [Procs -> OomAdj]
  /\ rss = [p \in Procs |-> 0]
  /\ status = [p \in Procs |-> "live"]
  /\ lowmem_adj \in AdjArrays /\ lowmem_minfree \in MinfreeArrays

MemoryStep ==
  \/ read_file \/ drop_cache
  \/ \E p \in Procs : page_fault(p)

ParameterStep ==
  \/ \E p \in Procs, a \in OomAdj : write_oom_adj(p, a)
  \/ \E a \in AdjArrays : write_adj(a)
  \/ \E m \in MinfreeArrays : write_minfree(m)

LowNext ==
  \/ lowmem_shrink
  \/ \E p \in Procs : exit_mm(p)
  \/ MemoryStep
  \/ ParameterStep

\* Reclaim calls the shrinkers as long as pages are wanted and scarce, and a
\* killed process gets to exit.
LowFairness ==
  /\ WF_lowVars(lowmem_shrink)
  /\ \A p \in Procs : WF_lowVars(exit_mm(p))

LowSafety == LowInit /\ [][LowNext]_lowVars

LowSpec == LowSafety /\ LowFairness

-----------------------------------------------------------------------------
\* The types of the variables.
LowTypeOK ==
  /\ free \in Nat /\ file \in Nat
  /\ oom_adj \in [Procs -> OomAdj] /\ rss \in [Procs -> Nat]
  /\ status \in [Procs -> {"live", "dying", "gone"}]
  /\ lowmem_adj \in AdjArrays /\ lowmem_minfree \in MinfreeArrays

Killed(p) == status[p] # "dying" /\ status'[p] = "dying"

Eligible(p) == status[p] # "gone" /\ rss[p] > 0 /\ oom_adj[p] >= min_adj

(***************************************************************************)
(* What the loop over the processes chooses, by definition: a process is   *)
(* killed only if it may be, no other that may be has a higher oom_adj,    *)
(* and none with the same oom_adj is larger; a dying process with a claim  *)
(* to be chosen first keeps all others alive.                              *)
(***************************************************************************)
KillsTheBest ==
  [][\A p \in Procs : Killed(p) =>
       /\ Eligible(p)
       /\ \A q \in Procs \ {p} : Eligible(q) =>
            \/ oom_adj[q] < oom_adj[p]
            \/ oom_adj[q] = oom_adj[p] /\ rss[q] <= rss[p]]_lowVars

Low == min_adj # OOM_ADJUST_MAX + 1 /\ \E p \in Procs : Eligible(p)

(***************************************************************************)
(* Memory does not stay low for ever while there is a process to kill: a   *)
(* victim that is slow to die or has died already does not end the         *)
(* killing.                                                                *)
(***************************************************************************)
LowMemoryEnds == []<>(~ Low)

(***************************************************************************)
(* "kill processes with a oom_adj value of 8 or higher when the free       *)
(* memory drops below 4096 pages", where "The driver considers memory used *)
(* for caches to be free": what is killed, free and cached pages together  *)
(* are below a threshold for it.                                           *)
(***************************************************************************)
CacheCountsAsFree ==
  [][\A p \in Procs : Killed(p) =>
       \E i \in DOMAIN lowmem_adj \cap DOMAIN lowmem_minfree :
         oom_adj[p] >= lowmem_adj[i] /\ free + file < lowmem_minfree[i]]_lowVars

=============================================================================
