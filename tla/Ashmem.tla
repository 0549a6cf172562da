------------------------------- MODULE Ashmem --------------------------------
(***************************************************************************)
(* Unpinned pages of anonymous shared memory, mm/ashmem.c: each area keeps *)
(* a list of ranges of unpinned pages, and all ranges that have not been   *)
(* purged are on one LRU list from which the shrinker takes pages back.    *)
(*                                                                         *)
(* ashmem_mutex makes each operation one step.  The areas are mapped, with *)
(* a size of Pages pages (AshmemArea has how they come by it).  Offsets    *)
(* and lengths are in pages, Wrap pages being 4 GB; ones that are not      *)
(* page-aligned are rejected by the code and left out.                     *)
(***************************************************************************)
EXTENDS Integers, Sequences, SequencesExt, FiniteSetsExt

CONSTANTS
  Areas,       \* open files
  Pages,       \* the size of an area
  Wrap,        \* 2^32 bytes
  RangeIds,    \* memory for struct ashmem_range
  Scans,       \* how many pages the shrinker is asked for
  AllocFails,  \* may kmem_cache_zalloc fail?
  EmptyPins    \* does anybody pin or unpin from the end of the area onward?

PagesAssumption ==
  /\ Pages \in Nat \ {0} /\ Wrap \in Nat /\ Pages < Wrap
  /\ Scans \subseteq Nat
  /\ AllocFails \in BOOLEAN /\ EmptyPins \in BOOLEAN

VARIABLES
  opened,         \* areas that exist
  unpinned_list,  \* the ranges of each area
  range,          \* struct ashmem_range of each range
  lru_list,       \* ashmem_lru_list
  lru_count,
  lost            \* history: pages purged since they were unpinned, per area, that
                  \* no pin has reported

ashVars == <<opened, unpinned_list, range, lru_list, lru_count, lost>>

NoRange == [pgstart |-> 0, pgend |-> -1, purged |-> FALSE]

-----------------------------------------------------------------------------
range_size(r) == r.pgend - r.pgstart + 1
min_t(x, y) == IF x <= y THEN x ELSE y
max_t(x, y) == IF x <= y THEN y ELSE x
range_before_page(r, page) == r.pgend < page
page_in_range(r, page) == r.pgstart <= page /\ r.pgend >= page
page_range_subsumes_range(r, start, end) == r.pgstart >= start /\ r.pgend <= end
page_range_subsumed_by_range(r, start, end) == r.pgstart <= start /\ r.pgend >= end

\* Mutant of page_range_in_range: only the ends of the interval are looked at.
page_range_in_range_ends(r, start, end) == page_in_range(r, start) \/ page_in_range(r, end)

page_range_in_range(r, start, end) ==
  page_in_range(r, start) \/ page_in_range(r, end) \/ page_range_subsumes_range(r, start, end)

Used == UNION {Range(unpinned_list[a]) : a \in Areas}

\* Everything the operations on ranges work on: the list of one area, the
\* table of ranges, the LRU list and its count.
Heap(a) == [list |-> unpinned_list[a], range |-> range, lru |-> lru_list, count |-> lru_count]

SetHeap(a, h) ==
  /\ unpinned_list' = [unpinned_list EXCEPT ![a] = h.list]
  /\ range' = h.range
  /\ lru_list' = h.lru
  /\ lru_count' = h.count

\* Lists of ranges hold none twice.
Position(s, id) == CHOOSE i \in DOMAIN s : s[i] = id
Without(s, id) == RemoveAt(s, Position(s, id))

\* The pages of the first k ranges of a list, for each k.
sizes(ranges, s) ==
  LET upto[k \in 0 .. Len(s)] == IF k = 0 THEN 0 ELSE upto[k - 1] + range_size(ranges[s[k]])
  IN  upto

\* Mutant of range_alloc: the new range is linked at the end of the list.
range_alloc_at_end(h, id, pos, purged, start, end) ==
  LET r == [pgstart |-> start, pgend |-> end, purged |-> purged]
  IN  [list |-> Append(h.list, id),
       range |-> [h.range EXCEPT ![id] = r],
       lru |-> IF purged THEN h.lru ELSE Append(h.lru, id),
       count |-> IF purged THEN h.count ELSE h.count + range_size(r)]

\* range_alloc: id is linked before the range at position pos.
range_alloc(h, id, pos, purged, start, end) ==
  LET r == [pgstart |-> start, pgend |-> end, purged |-> purged]
  IN  [list |-> InsertAt(h.list, pos, id),
       range |-> [h.range EXCEPT ![id] = r],
       lru |-> IF purged THEN h.lru ELSE Append(h.lru, id),
       count |-> IF purged THEN h.count ELSE h.count + range_size(r)]

range_del(h, id) ==
  LET r == h.range[id]
  IN  [list |-> Without(h.list, id),
       range |-> [h.range EXCEPT ![id] = NoRange],
       lru |-> IF r.purged THEN h.lru ELSE Without(h.lru, id),
       count |-> IF r.purged THEN h.count ELSE h.count - range_size(r)]

\* Mutant of range_shrink: the count is left alone.
range_shrink_no_count(h, id, start, end) ==
  [h EXCEPT !.range[id].pgstart = start, !.range[id].pgend = end]

range_shrink(h, id, start, end) ==
  LET r == h.range[id]
      s == [pgstart |-> start, pgend |-> end, purged |-> r.purged]
  IN  [list |-> h.list,
       range |-> [h.range EXCEPT ![id] = s],
       lru |-> h.lru,
       count |-> IF r.purged THEN h.count ELSE h.count - (range_size(r) - range_size(s))]

-----------------------------------------------------------------------------
\* One turn of the loop of ashmem_pin; hole is the range whose other side needs
\* a new range, if any.
PinStep(acc, id, pgstart, pgend) ==
  LET r == acc.heap.range[id]
      Overlap(h) == [heap |-> h, told |-> acc.told \/ r.purged, stop |-> FALSE, hole |-> {}]
  IN  IF acc.stop \/ range_before_page(r, pgstart)
        THEN [acc EXCEPT !.stop = TRUE]
      ELSE IF ~page_range_in_range(r, pgstart, pgend)
        THEN acc
      ELSE IF page_range_subsumes_range(r, pgstart, pgend)                    \* Case #1
        THEN Overlap(range_del(acc.heap, id))
      ELSE IF r.pgstart >= pgstart                                            \* Case #2
        THEN Overlap(range_shrink(acc.heap, id, pgend + 1, r.pgend))
      ELSE IF r.pgend <= pgend                                                \* Case #3
        THEN Overlap(range_shrink(acc.heap, id, r.pgstart, pgstart - 1))
        ELSE [heap |-> acc.heap, told |-> acc.told \/ r.purged,               \* Case #4
              stop |-> TRUE, hole |-> {id}]

\* The loop.
PinLoop(a, pgstart, pgend) ==
  LET list == unpinned_list[a]
      after[k \in 0 .. Len(list)] ==
        IF k = 0 THEN [heap |-> Heap(a), told |-> FALSE, stop |-> FALSE, hole |-> {}]
        ELSE PinStep(after[k - 1], list[k], pgstart, pgend)
  IN  after[Len(list)]

\* Case #4: the upper side of range id moves to new, and id keeps the lower one.
lower_side(h, id, pgstart) == range_shrink(h, id, h.range[id].pgstart, pgstart - 1)

upper_side(h, id, new, pgend) ==
  range_alloc(h, new, Position(h.list, id), h.range[id].purged, pgend + 1, h.range[id].pgend)

ashmem_pin(a, pgstart, pgend) ==
  LET done == PinLoop(a, pgstart, pgend)
  IN  /\ \/ done.hole = {} /\ SetHeap(a, done.heap)
         \/ \E id \in done.hole, new \in RangeIds \ Used :
              SetHeap(a, lower_side(upper_side(done.heap, id, new, pgend), id, pgstart))
         \/ \E id \in done.hole :   \* the error is ignored
              AllocFails /\ SetHeap(a, lower_side(done.heap, id, pgstart))
      /\ lost' = [lost EXCEPT ![a] = IF done.told THEN @ \ (pgstart .. pgend) ELSE @]
      /\ UNCHANGED opened

\* The place of the first range at which a loop over the list does not just go on:
\* it is before the pages, or overlaps them (0: there is none).
StopsAt(list, ranges, start, end) ==
  LET stops == {i \in 1 .. Len(list) : \/ range_before_page(ranges[list[i]], start)
                                       \/ page_range_in_range(ranges[list[i]], start, end)}
  IN  IF stops = {} THEN 0 ELSE Min(stops)

\* Mutant of UnpinMerge: the state of a merged range is forgotten.
UnpinMerge_not_purged(m) ==
  LET stop == StopsAt(m.heap.list, m.heap.range, m.start, m.end)
      r == m.heap.range[m.heap.list[stop]]
  IN  IF stop = 0 \/ range_before_page(r, m.start) \/ page_range_subsumed_by_range(r, m.start, m.end)
        THEN [m EXCEPT !.pos = stop]
        ELSE [heap |-> range_del(m.heap, m.heap.list[stop]), pos |-> 0, purged |-> m.purged,
              start |-> min_t(r.pgstart, m.start), end |-> max_t(r.pgend, m.end)]

\* One pass of the loop of ashmem_unpin up to restart: the first range that
\* overlaps is merged, and pos is where the loop stopped otherwise (0: the end).
UnpinMerge(m) ==
  LET stop == StopsAt(m.heap.list, m.heap.range, m.start, m.end)
      r == m.heap.range[m.heap.list[stop]]
  IN  IF stop = 0 \/ range_before_page(r, m.start) \/ page_range_subsumed_by_range(r, m.start, m.end)
        THEN [m EXCEPT !.pos = stop]
        ELSE [heap |-> range_del(m.heap, m.heap.list[stop]), pos |-> 0,
              purged |-> m.purged \/ r.purged,
              start |-> min_t(r.pgstart, m.start), end |-> max_t(r.pgend, m.end)]

\* All passes: each but the last takes a range out of the list.
UnpinLoop(a, pgstart, pgend) ==
  LET passes == Len(unpinned_list[a]) + 1
      merged[n \in 0 .. passes] ==
        IF n = 0
          THEN [heap |-> Heap(a), pos |-> 0, purged |-> FALSE, start |-> pgstart, end |-> pgend]
          ELSE UnpinMerge(merged[n - 1])
  IN  merged[passes]

\* The loop stopped since the pages are unpinned already.
Subsumed(m) ==
  /\ m.pos # 0
  /\ LET r == m.heap.range[m.heap.list[m.pos]]
     IN  ~range_before_page(r, m.start) /\ page_range_subsumed_by_range(r, m.start, m.end)

ashmem_unpin(a, pgstart, pgend) ==
  LET m == UnpinLoop(a, pgstart, pgend)
      before == IF m.pos = 0 THEN Len(m.heap.list) + 1 ELSE m.pos
  IN  /\ \/ Subsumed(m) /\ SetHeap(a, m.heap)
         \/ /\ ~Subsumed(m)
            /\ \E new \in RangeIds \ Used :
                 SetHeap(a, range_alloc(m.heap, new, before, m.purged, m.start, m.end))
         \/ ~Subsumed(m) /\ AllocFails /\ SetHeap(a, m.heap)   \* -ENOMEM
      /\ UNCHANGED <<opened, lost>>

ashmem_get_pin_status(a, pgstart, pgend) ==
  LET stop == StopsAt(unpinned_list[a], range, pgstart, pgend)
  IN  IF stop # 0 /\ ~range_before_page(range[unpinned_list[a][stop]], pgstart)
        THEN "unpinned" ELSE "pinned"

-----------------------------------------------------------------------------
\* ashmem_pin_unpin: the length that zero stands for, and the checks.
PinLen(offset, len) == IF len = 0 THEN (Pages - offset) % Wrap ELSE len

PinValid(offset, len) ==
  /\ PinLen(offset, len) < Wrap - offset
  /\ offset + PinLen(offset, len) <= Pages

ashmem_pin_unpin(a, offset, len) ==
  /\ a \in opened
  /\ PinValid(offset, len)
  /\ EmptyPins \/ PinLen(offset, len) # 0
  /\ LET pgend == offset + PinLen(offset, len) - 1
     IN  ashmem_pin(a, offset, pgend) \/ ashmem_unpin(a, offset, pgend)

ashmem_open(a) ==
  /\ a \notin opened
  /\ opened' = opened \cup {a}
  /\ UNCHANGED <<unpinned_list, range, lru_list, lru_count, lost>>

\* All ranges of the area are deleted.
ReleaseLoop(a) ==
  LET list == unpinned_list[a]
      after[k \in 0 .. Len(list)] ==
        IF k = 0 THEN Heap(a) ELSE range_del(after[k - 1], list[k])
  IN  after[Len(list)]

ashmem_release(a) ==
  /\ a \in opened
  /\ opened' = opened \ {a}
  /\ SetHeap(a, ReleaseLoop(a))
  /\ lost' = [lost EXCEPT ![a] = {}]

\* The ranges are purged from the least recently unpinned on until nr_to_scan
\* pages are gone: the first n.
ashmem_shrink(nr_to_scan) ==
  LET freed == sizes(range, lru_list)
      n == Min({k \in 1 .. Len(lru_list) : freed[k] >= nr_to_scan} \cup {Len(lru_list)})
      gone == Range(SubSeq(lru_list, 1, n))
  IN  /\ lru_list # <<>>
      /\ range' = [id \in RangeIds |-> IF id \in gone THEN [range[id] EXCEPT !.purged = TRUE] ELSE range[id]]
      /\ lru_list' = SubSeq(lru_list, n + 1, Len(lru_list))
      /\ lru_count' = lru_count - freed[n]
      /\ lost' = [a \in Areas |-> lost[a] \cup
           UNION {range[id].pgstart .. range[id].pgend : id \in gone \cap Range(unpinned_list[a])}]
      /\ UNCHANGED <<opened, unpinned_list>>

-----------------------------------------------------------------------------
AshInit ==
  /\ opened = {}
  /\ unpinned_list = [a \in Areas |-> <<>>]
  /\ range = [id \in RangeIds |-> NoRange]
  /\ lru_list = <<>>
  /\ lru_count = 0
  /\ lost = [a \in Areas |-> {}]

AshNext ==
  \/ \E a \in Areas :
       \/ ashmem_open(a)
       \/ ashmem_release(a)
       \/ \E offset \in 0 .. Wrap - 1, len \in 0 .. Wrap - 1 : ashmem_pin_unpin(a, offset, len)
  \/ \E nr_to_scan \in Scans : ashmem_shrink(nr_to_scan)

AshSpec == AshInit /\ [][AshNext]_ashVars

-----------------------------------------------------------------------------
PagesOf(id) == range[id].pgstart .. range[id].pgend

UnpinnedPages(a) == UNION {PagesOf(id) : id \in Range(unpinned_list[a])}

(***************************************************************************)
(* The ranges of an area are disjoint and sorted from its end to its       *)
(* start: the loops stop at the first range before the pages they are      *)
(* about.                                                                  *)
(***************************************************************************)
RangesSorted ==
  \A a \in Areas : \A i \in 2 .. Len(unpinned_list[a]) :
    range[unpinned_list[a][i]].pgend < range[unpinned_list[a][i - 1]].pgstart

(***************************************************************************)
(* lru_count, which tells the memory management how much there is to take  *)
(* back, is the number of pages on the LRU list, and the list holds each   *)
(* range that was not purged once, and no freed one.                       *)
(***************************************************************************)
LruExact ==
  /\ lru_count = sizes(range, lru_list)[Len(lru_list)]
  /\ Range(lru_list) = {id \in Used : ~range[id].purged}
  /\ IsInjective(lru_list)

(***************************************************************************)
(* Whatever ranges are merged, split and purged, a page whose content is   *)
(* gone is unpinned until a pin of it returns ASHMEM_WAS_PURGED.           *)
(***************************************************************************)
PurgeReported == \A a \in Areas : lost[a] \subseteq UnpinnedPages(a)

(***************************************************************************)
(* "Returns ASHMEM_IS_UNPINNED if _any_ pages in the given interval are    *)
(* unpinned and ASHMEM_IS_PINNED otherwise": ashmem_get_pin_status.        *)
(***************************************************************************)
StatusExact ==
  \A a \in opened : \A start, end \in 0 .. Pages - 1 : start <= end =>
    (ashmem_get_pin_status(a, start, end) = "unpinned")
      = (UnpinnedPages(a) \cap (start .. end) # {})

(***************************************************************************)
(* The lists behind the pages: lru_count is exact whatever is allocated or *)
(* not, unpinned_list stays sorted and free of overlaps, and               *)
(* ashmem_get_pin_status answers what is true of the pages asked for, as   *)
(* long as nobody unpins an empty interval.                                *)
(***************************************************************************)
AshmemExact == LruExact /\ (EmptyPins \/ (RangesSorted /\ StatusExact))

(***************************************************************************)
(* If memory for ranges never runs out, pin, unpin and shrink do to the    *)
(* sets of unpinned and of lost pages what their names say.                *)
(***************************************************************************)
Unpinned == [a \in Areas |-> UnpinnedPages(a)]

AsPages == INSTANCE AshmemPages WITH Page <- 0 .. Pages - 1, unpinned <- Unpinned

PagesSpec == AsPages!Spec

(***************************************************************************)
(* struct ashmem_range "represents an interval of unpinned (evictable)     *)
(* pages": an unpinned page that still has its content can be taken back.  *)
(***************************************************************************)
UnpinnedEvictable ==
  \A a \in Areas : \A id \in Range(unpinned_list[a]) :
    PagesOf(id) \subseteq lost[a] \/ id \in Range(lru_list)

=============================================================================
