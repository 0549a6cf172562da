------------------------------- MODULE MCAshmem -------------------------------
(***************************************************************************)
(* Anonymous shared memory on small instances: the pages of one area, the  *)
(* pages of two areas on one LRU list, and the life of an area in the      *)
(* hands of two threads.  Ashmem and AshmemArea are two views of the       *)
(* driver that share no state, so that a behaviour is one of one of them,  *)
(* with the others at rest in their initial states.                        *)
(***************************************************************************)
EXTENDS Ashmem

CONSTANTS a1, a2, x1, x2, x3, x4, t1, t2, n1, n2, none

VARIABLES
  part,      \* the component that is looked at
  opened2, unpinned_list2, range2, lru_list2, lru_count2, lost2,
  size, name, prot_mask, file, mapped, lru_pages, mutex, pc

\* The cfg has one area of four pages, so that a hole can be punched into a range
\* with pages left on both sides.

\* Two areas of two pages, allocations that fail and pins of nothing.
TwoAreas == INSTANCE Ashmem
              WITH Areas <- {a1, a2}, Pages <- 2, Wrap <- 4, RangeIds <- {x1, x2, x3},
                   Scans <- {1, 2}, AllocFails <- TRUE, EmptyPins <- TRUE,
                   opened <- opened2, unpinned_list <- unpinned_list2, range <- range2,
                   lru_list <- lru_list2, lru_count <- lru_count2, lost <- lost2

\* Two threads share an area that may be named twice and sized twice.
Area == INSTANCE AshmemArea
          WITH Threads <- {t1, t2}, Sizes <- {1, 2}, Names <- {n1, n2}, NoName <- none,
               lru_count <- lru_pages

ASSUME AshmemAssumption ==
  PagesAssumption /\ TwoAreas!PagesAssumption /\ Area!AreaAssumption

Interchangeable == Permutations({x1, x2, x3})

-----------------------------------------------------------------------------
twoAreas == <<opened2, unpinned_list2, range2, lru_list2, lru_count2, lost2>>
area == <<size, name, prot_mask, file, mapped, lru_pages, mutex, pc>>
vars == <<part, ashVars, twoAreas, area>>

AshmemInit ==
  /\ part \in {"pages", "two areas", "area"}
  /\ AshInit /\ TwoAreas!AshInit /\ Area!AreaInit

AshmemNext ==
  \/ part = "pages" /\ AshNext /\ UNCHANGED <<part, twoAreas, area>>
  \/ part = "two areas" /\ TwoAreas!AshNext /\ UNCHANGED <<part, ashVars, area>>
  \/ part = "area" /\ Area!AreaNext /\ UNCHANGED <<part, ashVars, twoAreas>>

AshmemSpec == AshmemInit /\ [][AshmemNext]_vars

-----------------------------------------------------------------------------
\* PagesSpec and AshmemExact are those of Ashmem.

\* lru_count is exact also with two areas, failing allocations and pins of nothing
\* (Ashmem), and the name of an area that has its file is that of the file,
\* whatever ASHMEM_SET_NAME races with mmap (AshmemArea).
AreasExact == TwoAreas!AshmemExact /\ Area!NameOfFile

=============================================================================
