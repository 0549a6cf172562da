---------------------------- MODULE UserLockNames ----------------------------
(***************************************************************************)
(* What /sys/power/wake_lock and /sys/power/wake_unlock promise: each name *)
(* that was ever written to wake_lock is one lock of its own, and a write  *)
(* of a name is about the lock of that name.                               *)
(***************************************************************************)
CONSTANTS
  Names,
  Times,    \* timeouts a lock may be taken for
  Asked,    \* timeouts as they are written
  None      \* no timeout is written

VARIABLES
  lock,     \* the state of each name's lock
  given     \* the timeout last written with each name whose lock it still holds

names == <<lock, given>>

Absent == <<"absent">>
Unlocked == <<"unlocked">>
Untimed == <<"untimed">>
Timed == {<<"timed", t>> : t \in Times}

Init ==
  /\ lock = [n \in Names |-> Absent]
  /\ given = [n \in Names |-> None]

\* The lock and the history of one name change together.
Lock(n) ==
  \E ns \in Asked \cup {None} :
    /\ given' = [given EXCEPT ![n] = ns]
    /\ \E l \in IF ns = None THEN {Untimed} ELSE Timed : lock' = [lock EXCEPT ![n] = l]

Release(n) ==
  /\ given' = [given EXCEPT ![n] = None]
  /\ lock' = [lock EXCEPT ![n] = Unlocked]

Unlock(n) == lock[n] # Absent /\ Release(n)

\* A lock taken for a time ends by itself; no other lock does.
Expire(n) == lock[n] \in Timed /\ Release(n)

Next == \E n \in Names : Lock(n) \/ Unlock(n) \/ Expire(n)

Spec == Init /\ [][Next]_names
=============================================================================
