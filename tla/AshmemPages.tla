----------------------------- MODULE AshmemPages -----------------------------
(***************************************************************************)
(* What ashmem promises of the pages of its areas: an unpinned page may be *)
(* purged at any time, a pinned one never, and whoever pins a page that    *)
(* was purged is told so.                                                  *)
(***************************************************************************)
CONSTANTS Areas, Page

VARIABLES
  unpinned,  \* the unpinned pages of each area
  lost       \* the pages whose content was purged and whose user does not know

pagesVars == <<unpinned, lost>>

Init ==
  /\ unpinned = [a \in Areas |-> {}]
  /\ lost = [a \in Areas |-> {}]

Unpin(a, S) ==
  /\ unpinned' = [unpinned EXCEPT ![a] = @ \cup S]
  /\ UNCHANGED lost

\* Pinning S tells the user of what was lost in it.
Pin(a, S) ==
  /\ unpinned' = [unpinned EXCEPT ![a] = @ \ S]
  /\ lost' = [lost EXCEPT ![a] = @ \ S]

Purge ==
  /\ \A a \in Areas : lost[a] \subseteq lost'[a] /\ lost'[a] \subseteq lost[a] \cup unpinned[a]
  /\ UNCHANGED unpinned

Close(a) ==
  /\ unpinned' = [unpinned EXCEPT ![a] = {}]
  /\ lost' = [lost EXCEPT ![a] = {}]

Next ==
  \/ \E a \in Areas : Close(a) \/ \E S \in SUBSET Page : Unpin(a, S) \/ Pin(a, S)
  \/ Purge

Spec == Init /\ [][Next]_pagesVars
=============================================================================
