---------------------------- MODULE UserWakeLock -----------------------------
(***************************************************************************)
(* Wake locks of user space, kernel/power/userwakelock.c: the tree of      *)
(* names behind /sys/power/wake_lock and wake_unlock and the conversion of *)
(* a timeout from nanoseconds to jiffies.                                  *)
(*                                                                         *)
(* tree_lock makes each write one step.  A write that is rejected (no      *)
(* name, junk behind the timeout, an unknown name, no memory) changes      *)
(* nothing.  The red-black tree is kept as the sequence of its nodes in    *)
(* order: rb_insert_color rotates, which keeps the order, and the search   *)
(* below is made through every tree of that order.                         *)
(***************************************************************************)
EXTENDS Integers, Sequences, SequencesExt

CONSTANTS
  Names,       \* lock names: sequences of letters, which are numbers from 1 on
  Timeouts,    \* timeouts that are written, in nanoseconds
  NsPerJiffy,  \* NSEC_PER_SEC / HZ
  ULLONG_MAX,  \* 2^64 - 1, the largest u64
  LONG_MAX     \* 2^31 - 1, the largest long

NamesAssumption ==
  /\ Names \subseteq Seq(Nat \ {0}) \ {<<>>}
  /\ ULLONG_MAX \in Nat /\ LONG_MAX \in 1 .. ULLONG_MAX
  /\ NsPerJiffy \in Nat \ {0}
  /\ Timeouts \subseteq 0 .. ULLONG_MAX

None == -1

VARIABLES
  user_wake_locks, \* the nodes: name, is the wake lock active, its timeout in jiffies
  given            \* history: the timeout last written with each name, or None

userVars == <<user_wake_locks, given>>

-----------------------------------------------------------------------------
\* Character i of a string that ends with NUL.
CharAt(s, i) == IF i <= Len(s) THEN s[i] ELSE 0

strncmp(buf, name, n) ==
  LET differ == {i \in 1 .. n : CharAt(buf, i) # CharAt(name, i)}
  IN  IF differ = {} THEN 0
      ELSE LET i == CHOOSE i \in differ : \A j \in differ : i <= j
           IN  CharAt(buf, i) - CharAt(name, i)

\* Mutants of compare: a node whose name only starts with the one looked for
\* is taken for it, or is put before it.
compare_prefix(buf, name) == strncmp(buf, name, Len(buf))

compare_longer_first(buf, name) ==
  LET diff == strncmp(buf, name, Len(buf))
  IN  IF diff = 0 /\ CharAt(name, Len(buf) + 1) # 0 THEN 1 ELSE diff

compare(buf, name) ==
  LET diff == strncmp(buf, name, Len(buf))
  IN  IF diff = 0 /\ CharAt(name, Len(buf) + 1) # 0 THEN -1 ELSE diff

\* Where the loop of lookup_wake_lock_name may end, whatever the tree's shape:
\* at a node, or with *p between the nodes pos - 1 and pos.
Search(buf) ==
  LET tree == user_wake_locks
      \* the subtree of the nodes sub[1] .. sub[2]
      within[sub \in (1 .. Len(tree) + 1) \X (0 .. Len(tree))] ==
        IF sub[1] > sub[2] THEN {[found |-> FALSE, pos |-> sub[1]]}
        ELSE UNION {LET diff == compare(buf, tree[k].name)
                    IN  CASE diff < 0 -> within[<<sub[1], k - 1>>]
                          [] diff > 0 -> within[<<k + 1, sub[2]>>]
                          [] OTHER -> {[found |-> TRUE, pos |-> k]} : k \in sub[1] .. sub[2]}
  IN  within[<<1, Len(tree)>>]

\* A u64 that is assigned to a long.
as_long(n) ==
  LET low == n % (2 * (LONG_MAX + 1))
  IN  IF low > LONG_MAX THEN low - 2 * (LONG_MAX + 1) ELSE low

\* Mutant of jiffies_of: the timeout is rounded down.
jiffies_of_down(ns) ==
  LET timeout == ns \div NsPerJiffy
      positive == IF timeout <= 0 THEN 1 ELSE timeout
  IN  as_long(positive)

\* The timeout in jiffies: computed in u64, assigned to a long.
jiffies_of(ns) ==
  LET timeout == ((ns + NsPerJiffy - 1) % (ULLONG_MAX + 1)) \div NsPerJiffy
      positive == IF timeout <= 0 THEN 1 ELSE timeout
  IN  as_long(positive)

-----------------------------------------------------------------------------
\* The tree after the wake lock of a node was taken or released.
WithLock(pos, active, timeout) ==
  [user_wake_locks EXCEPT ![pos] = [name |-> @.name, active |-> active, timeout |-> timeout]]

\* timeout 0: wake_lock; else wake_lock_timeout.
wake_lock_store(name, ns) ==
  LET timeout == IF ns = None THEN 0 ELSE jiffies_of(ns)
      node == [name |-> name, active |-> TRUE, timeout |-> timeout]
  IN  /\ \E s \in Search(name) :
           user_wake_locks' = IF s.found
             THEN WithLock(s.pos, TRUE, timeout)
             ELSE InsertAt(user_wake_locks, s.pos, node)
      /\ given' = [given EXCEPT ![name] = ns]

wake_unlock_store(name) ==
  /\ \E s \in Search(name) :
       /\ s.found
       /\ user_wake_locks' = WithLock(s.pos, FALSE, 0)
  /\ given' = [given EXCEPT ![name] = None]

\* The wake lock of a node expires: expire_wake_lock of wakelock.c.
expire_wake_lock(pos) ==
  /\ user_wake_locks[pos].active /\ user_wake_locks[pos].timeout # 0
  /\ user_wake_locks' = WithLock(pos, FALSE, 0)
  /\ given' = [given EXCEPT ![user_wake_locks[pos].name] = None]

\* What the two files show, up to the first PAGE_SIZE characters.
show(active) ==
  LET upto[k \in 0 .. Len(user_wake_locks)] ==
        IF k = 0 THEN <<>>
        ELSE IF user_wake_locks[k].active = active
          THEN Append(upto[k - 1], user_wake_locks[k])
          ELSE upto[k - 1]
  IN  upto[Len(user_wake_locks)]

wake_lock_show == show(TRUE)

wake_unlock_show == show(FALSE)

-----------------------------------------------------------------------------
UserInit ==
  /\ user_wake_locks = <<>>
  /\ given = [n \in Names |-> None]

UserNext ==
  \/ \E name \in Names :
       \/ \E ns \in Timeouts \cup {None} : wake_lock_store(name, ns)
       \/ wake_unlock_store(name)
  \/ \E pos \in DOMAIN user_wake_locks : expire_wake_lock(pos)

UserSpec == UserInit /\ [][UserNext]_userVars

-----------------------------------------------------------------------------
Jiffies == {jiffies_of(ns) : ns \in Timeouts} \ {0}

NodesOf(n) == {k \in DOMAIN user_wake_locks : user_wake_locks[k].name = n}

StateOf(node) ==
  CASE ~node.active -> <<"unlocked">>
    [] node.active /\ node.timeout = 0 -> <<"untimed">>
    [] OTHER -> <<"timed", node.timeout>>

\* The lock of each name.
LockByName ==
  [n \in Names |-> IF NodesOf(n) = {} THEN <<"absent">>
                  ELSE StateOf(user_wake_locks[CHOOSE k \in NodesOf(n) : TRUE])]

(***************************************************************************)
(* Each name is one lock: no write through the tree finds the lock of      *)
(* another name, one that is a prefix included, misses its own, or makes a *)
(* second lock of the same name.                                           *)
(***************************************************************************)
ByName == INSTANCE UserLockNames WITH
  lock <- LockByName, Times <- Jiffies, Asked <- Timeouts

OneLockPerName == ByName!Spec

(***************************************************************************)
(* The two files together show every lock once, and in the order of their  *)
(* names: the tree holds no name twice, which a search that goes left for  *)
(* one node and right for another would bring about.                       *)
(***************************************************************************)
ShownOnce ==
  LET shown == wake_lock_show \o wake_unlock_show
  IN  /\ \A i, j \in DOMAIN shown : i # j => shown[i].name # shown[j].name
      /\ \A k \in DOMAIN user_wake_locks : \E i \in DOMAIN shown : shown[i] = user_wake_locks[k]
      /\ \A i \in 2 .. Len(user_wake_locks) :
           compare(user_wake_locks[i].name, user_wake_locks[i - 1].name) > 0

\* Every timeout that is written is one that a long holds in jiffies; of longer
\* ones the conversion keeps what is left of them in 32 bits.
TimeoutsFit ==
  \A ns \in Timeouts : ns <= LONG_MAX * NsPerJiffy /\ ns + NsPerJiffy - 1 <= ULLONG_MAX

(***************************************************************************)
(* A lock is held at least as long as was asked for, to the next jiffy,    *)
(* and never without a timeout when one was given.                         *)
(***************************************************************************)
HeldAsLongAsGiven ==
  \A n \in Names : \A k \in NodesOf(n) :
    given[n] # None =>
      LET jiffies == user_wake_locks[k].timeout
      IN  /\ jiffies * NsPerJiffy >= given[n]
          /\ (jiffies - 1) * NsPerJiffy < given[n] \/ jiffies = 1

\* The two files show each lock once, and a lock taken with a timeout is held for
\* the time asked for, to the next jiffy.
UserLocksExact == ShownOnce /\ HeldAsLongAsGiven

(***************************************************************************)
(* The comment on the conversion: "convert timeout from nanoseconds to     *)
(* jiffies > 0".                                                           *)
(***************************************************************************)
TimeoutPositive ==
  \A n \in Names : \A k \in NodesOf(n) :
    given[n] # None => user_wake_locks[k].timeout > 0

=============================================================================
