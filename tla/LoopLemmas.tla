----------------------------- MODULE LoopLemmas ------------------------------
(***************************************************************************)
(* Facts the proofs about loops and lists share.  A loop of the code is a  *)
(* recursive function of the model; that there is such a function, and     *)
(* what it computes, follows from the well-foundedness of < on the natural *)
(* numbers.  A list of the code is a sequence of the model.                *)
(***************************************************************************)
EXTENDS Integers, Sequences, SequencesExt, SequenceTheorems, WellFoundedInduction, TLAPS

-----------------------------------------------------------------------------
(***************************************************************************)
(* Loops.                                                                  *)
(***************************************************************************)

\* A set of natural numbers has a least element.
LEMMA LeastElement ==
  ASSUME NEW T \in SUBSET Nat, T # {}
  PROVE  \E x \in T : \A y \in T : x <= y
<1> DEFINE R == {ss \in Nat \X Nat : ss[1] < ss[2]}
<1>1. IsWellFoundedOn(R, Nat)
  BY NatLessThanWellFounded, Zenon DEF OpToRel
<1>2. \A y, x \in T : y < x => <<y, x>> \in R
  OBVIOUS
<1> HIDE DEF R
<1>3. \E x \in T : \A y \in T : ~ (<<y, x>> \in R)
  BY <1>1, WFMin, Zenon
<1>4. PICK x \in T : \A y \in T : ~ (<<y, x>> \in R)
  BY <1>3
<1>5. \A y \in T : ~ (y < x)
  BY <1>2, <1>4
<1>6. \A y \in T : x <= y
  <2> SUFFICES ASSUME NEW y \in T PROVE x <= y
    OBVIOUS
  <2>1. x \in Nat /\ y \in Nat
    OBVIOUS
  <2> QED BY <2>1, <1>5
<1> QED BY <1>6

\* A set that holds 0 and with each number the next holds all of them.
LEMMA SetInduction ==
  ASSUME NEW S, 0 \in S, \A n \in Nat : n \in S => n + 1 \in S
  PROVE  \A n \in Nat : n \in S
<1> SUFFICES ASSUME Nat \ S # {} PROVE FALSE
  OBVIOUS
<1>1. PICK x \in Nat \ S : \A y \in Nat \ S : x <= y
  BY LeastElement
<1>2. x # 0 /\ x - 1 \in Nat
  OBVIOUS
<1>3. x - 1 \in S
  BY <1>1, <1>2
<1>4. (x - 1) + 1 = x
  OBVIOUS
<1> QED BY <1>2, <1>3, <1>4

\* A set that holds a number whenever it holds all smaller ones holds all.
LEMMA StrongInduction ==
  ASSUME NEW S, \A n \in Nat : (\A m \in Nat : m < n => m \in S) => n \in S
  PROVE  \A n \in Nat : n \in S
<1> SUFFICES ASSUME Nat \ S # {} PROVE FALSE
  OBVIOUS
<1>1. PICK x \in Nat \ S : \A y \in Nat \ S : x <= y
  BY LeastElement
<1>2. \A m \in Nat : m < x => m \in S
  BY <1>1
<1> QED BY <1>2

\* The rank of n is smaller at the next point nx[n], up to the points of Stop.
Ranked(D, V, Stop, rk, val, nx, c) ==
  /\ rk \in [D -> Nat] /\ val \in [D -> V] /\ nx \in [D -> D] /\ c \in [D \X V -> V]
  /\ \E K \in Nat : \A n \in D : rk[n] < K
  /\ \A n \in D : n \notin Stop => rk[nx[n]] < rk[n]

\* f is given on Stop and elsewhere computed from its value at the next point.
Recursive(f, D, V, Stop, val, nx, c) ==
  /\ f \in [D -> V]
  /\ \A n \in D : n \in Stop => f[n] = val[n]
  /\ \A n \in D : n \notin Stop => f[n] = c[<<n, f[nx[n]]>>]

\* There is such a function.
LEMMA RecursionExists ==
  ASSUME NEW D, NEW V, NEW Stop, NEW rk, NEW val, NEW nx, NEW c,
         Ranked(D, V, Stop, rk, val, nx, c)
  PROVE  \E f : Recursive(f, D, V, Stop, val, nx, c)
<1> USE DEF Ranked
<1>0. PICK K \in Nat : \A n \in D : rk[n] < K
  OBVIOUS
<1> DEFINE Eq(f, n) == /\ n \in Stop => f[n] = val[n]
                       /\ n \notin Stop => f[n] = c[<<n, f[nx[n]]>>]
           S == {k \in Nat : \E f \in [D -> V] : \A n \in D : rk[n] < k => Eq(f, n)}
<1>1. 0 \in S
  OBVIOUS
<1>2. ASSUME NEW k \in Nat, k \in S PROVE k + 1 \in S
  <2>1. PICK f \in [D -> V] : \A n \in D : rk[n] < k => Eq(f, n)
    BY <1>2
  <2> DEFINE g == [n \in D |-> IF rk[n] < k THEN f[n]
                               ELSE IF n \in Stop THEN val[n] ELSE c[<<n, f[nx[n]]>>]]
  <2>2. g \in [D -> V]
    OBVIOUS
  <2>3. ASSUME NEW n \in D, rk[n] < k + 1 PROVE Eq(g, n)
    <3>1. rk[n] \in Nat /\ (rk[n] < k \/ rk[n] = k)
      BY <2>3
    <3>2. CASE n \in Stop
      BY <2>1, <3>2
    <3>3. CASE n \notin Stop
      <4>1. nx[n] \in D /\ rk[nx[n]] \in Nat /\ rk[nx[n]] < k
        BY <3>1, <3>3
      <4>2. g[nx[n]] = f[nx[n]]
        BY <4>1
      <4>3. g[n] = c[<<n, f[nx[n]]>>]
        BY <2>1, <3>3, <3>1
      <4> QED BY <4>2, <4>3, <3>3
    <3> QED BY <3>2, <3>3
  <2> HIDE DEF g, Eq
  <2> QED BY <2>2, <2>3
<1> HIDE DEF S
<1>3. K \in S
  BY <1>1, <1>2, SetInduction
<1>4. PICK f \in [D -> V] : \A n \in D : rk[n] < K => Eq(f, n)
  BY <1>3 DEF S
<1>5. Recursive(f, D, V, Stop, val, nx, c)
  BY <1>0, <1>4 DEF Recursive
<1> QED BY <1>5

\* f[i] is what a loop that starts with a has computed after i of N rounds, where
\* round i takes v to c[<<i, v>>].
Loop(f, N, a, c) ==
  f = [i \in 0 .. N |-> IF i = 0 THEN a ELSE c[<<i, f[i - 1]>>]]

\* There is such a function, with values in V.
LEMMA LoopExists ==
  ASSUME NEW N \in Nat, NEW V, NEW a \in V, NEW c \in [(1 .. N) \X V -> V]
  PROVE  \E f : f \in [0 .. N -> V] /\ Loop(f, N, a, c)
<1> DEFINE D == 0 .. N
           Stop == {0}
           rk == [i \in D |-> i]
           val == [i \in D |-> a]
           nx == [i \in D |-> IF i = 0 THEN 0 ELSE i - 1]
           d == [x \in D \X V |-> IF x[1] = 0 THEN a ELSE c[<<x[1], x[2]>>]]
<1>1. rk \in [D -> Nat] /\ val \in [D -> V] /\ nx \in [D -> D]
  OBVIOUS
<1>2. d \in [D \X V -> V]
  <2> SUFFICES ASSUME NEW x \in D \X V PROVE (IF x[1] = 0 THEN a ELSE c[<<x[1], x[2]>>]) \in V
    OBVIOUS
  <2>1. x[1] \in D /\ x[2] \in V
    OBVIOUS
  <2>2. CASE x[1] # 0
    <3>1. x[1] \in 1 .. N
      BY <2>1, <2>2
    <3>2. <<x[1], x[2]>> \in (1 .. N) \X V
      BY <2>1, <3>1
    <3> QED BY <2>2, <3>2
  <2> QED BY <2>2
<1>3. \E K \in Nat : \A n \in D : rk[n] < K
  <2>1. N + 1 \in Nat /\ \A n \in D : rk[n] < N + 1
    OBVIOUS
  <2> QED BY <2>1
<1>4. \A n \in D : n \notin Stop => rk[nx[n]] < rk[n]
  OBVIOUS
<1>5. Ranked(D, V, Stop, rk, val, nx, d)
  <2> HIDE DEF D, Stop, rk, val, nx, d
  <2> QED BY <1>1, <1>2, <1>3, <1>4 DEF Ranked
<1>6. PICK f : Recursive(f, D, V, Stop, val, nx, d)
  <2> HIDE DEF D, Stop, rk, val, nx, d
  <2> QED BY <1>5, RecursionExists
<1>7. f \in [D -> V] /\ f[0] = a
  BY <1>6 DEF Recursive
<1>8. ASSUME NEW i \in D, i # 0 PROVE f[i] = c[<<i, f[i - 1]>>]
  <2>1. f[i] = d[<<i, f[nx[i]]>>] /\ nx[i] = i - 1
    <3> HIDE DEF d
    <3> QED BY <1>6, <1>8 DEF Recursive
  <2>2. i - 1 \in D /\ f[i - 1] \in V
    BY <1>7, <1>8
  <2>3. d[<<i, f[i - 1]>>] = c[<<i, f[i - 1]>>]
    BY <1>8, <2>2
  <2> QED BY <2>1, <2>3
<1>9. f = [i \in D |-> IF i = 0 THEN a ELSE c[<<i, f[i - 1]>>]]
  BY <1>7, <1>8
<1> QED BY <1>7, <1>9 DEF Loop

\* What holds at first and is kept by every round holds in the end: H is the set
\* of the pairs of a round and a value that are as wanted.
LEMMA LoopInduction ==
  ASSUME NEW N \in Nat, NEW f, NEW a, NEW c, Loop(f, N, a, c),
         NEW H, <<0, a>> \in H,
         \A i \in 1 .. N : \A v : <<i - 1, v>> \in H => <<i, c[<<i, v>>]>> \in H
  PROVE  \A i \in 0 .. N : <<i, f[i]>> \in H
<1> DEFINE S == {i \in Nat : i <= N => <<i, f[i]>> \in H}
<1>0. f[0] = a
  <2>1. 0 \in 0 .. N
    OBVIOUS
  <2> QED BY <2>1 DEF Loop
<1>1. 0 \in S
  BY <1>0
<1>2. ASSUME NEW n \in Nat, n \in S PROVE n + 1 \in S
  <2> SUFFICES ASSUME n + 1 <= N PROVE <<n + 1, f[n + 1]>> \in H
    OBVIOUS
  <2>1. <<n, f[n]>> \in H /\ n + 1 \in 1 .. N /\ (n + 1) - 1 = n
    BY <1>2
  <2>2. f[n + 1] = c[<<n + 1, f[n]>>]
    BY <2>1 DEF Loop
  <2> QED BY <2>1, <2>2
<1> HIDE DEF S
<1>3. \A n \in Nat : n \in S
  BY <1>1, <1>2, SetInduction
<1> QED BY <1>3 DEF S

\* The same, for rounds that make sense only of what the rounds before them leave:
\* there is such a function, and it keeps to H.
LEMMA LoopKeeps ==
  ASSUME NEW N \in Nat, NEW V, NEW a, NEW c, NEW H, H \subseteq (0 .. N) \X V, <<0, a>> \in H,
         \A i \in 1 .. N : \A v \in V : <<i - 1, v>> \in H => <<i, c[<<i, v>>]>> \in H
  PROVE  \E f : f \in [0 .. N -> V] /\ Loop(f, N, a, c) /\ \A i \in 0 .. N : <<i, f[i]>> \in H
<1> DEFINE d == [x \in (1 .. N) \X V |-> IF <<x[1] - 1, x[2]>> \in H THEN c[<<x[1], x[2]>>] ELSE a]
<1>1. \A i : \A v : <<i, v>> \in H => i \in 0 .. N /\ v \in V
  OBVIOUS
<1>2. a \in V
  BY <1>1
<1>3. \A i \in 1 .. N : \A v \in V :
        d[<<i, v>>] = IF <<i - 1, v>> \in H THEN c[<<i, v>>] ELSE a
  OBVIOUS
<1>4. d \in [(1 .. N) \X V -> V]
  <2>1. \A x \in (1 .. N) \X V :
          (IF <<x[1] - 1, x[2]>> \in H THEN c[<<x[1], x[2]>>] ELSE a) \in V
    <3> SUFFICES ASSUME NEW x \in (1 .. N) \X V, <<x[1] - 1, x[2]>> \in H
                 PROVE  c[<<x[1], x[2]>>] \in V
      BY <1>2
    <3>1. x[1] \in 1 .. N /\ x[2] \in V
      OBVIOUS
    <3>2. <<x[1], c[<<x[1], x[2]>>]>> \in H
      BY <3>1
    <3> QED BY <1>1, <3>2
  <2> QED BY <2>1
<1> HIDE DEF d
<1>5. PICK f : f \in [0 .. N -> V] /\ Loop(f, N, a, d)
  BY <1>2, <1>4, LoopExists
<1>6. \A i \in 1 .. N : \A v : <<i - 1, v>> \in H => <<i, d[<<i, v>>]>> \in H
  BY <1>1, <1>3
<1>7. \A i \in 0 .. N : <<i, f[i]>> \in H
  BY <1>5, <1>6, LoopInduction
<1>8. \A i \in 1 .. N : d[<<i, f[i - 1]>>] = c[<<i, f[i - 1]>>]
  <2> SUFFICES ASSUME NEW i \in 1 .. N PROVE d[<<i, f[i - 1]>>] = c[<<i, f[i - 1]>>]
    OBVIOUS
  <2>1. i - 1 \in 0 .. N
    OBVIOUS
  <2>2. <<i - 1, f[i - 1]>> \in H /\ f[i - 1] \in V
    BY <1>5, <1>7, <2>1
  <2> QED BY <1>3, <2>2
<1>9. \A i \in 0 .. N : i # 0 => i \in 1 .. N
  OBVIOUS
<1>10. Loop(f, N, a, c)
  BY <1>5, <1>8, <1>9 DEF Loop
<1> QED BY <1>5, <1>7, <1>10

\* The value of a function at x is computed from its values at points of a
\* smaller rank: c[<<x, f>>].
Descends(D, V, rk, c) ==
  /\ V # {} /\ rk \in [D -> Nat] /\ c \in [D \X [D -> V] -> V]
  /\ \E K \in Nat : \A x \in D : rk[x] < K
  /\ \A x \in D : \A f, g \in [D -> V] :
       (\A y \in D : rk[y] < rk[x] => f[y] = g[y]) => c[<<x, f>>] = c[<<x, g>>]

\* There is such a function.
LEMMA DescentExists ==
  ASSUME NEW D, NEW V, NEW rk, NEW c, Descends(D, V, rk, c)
  PROVE  \E f \in [D -> V] : \A x \in D : f[x] = c[<<x, f>>]
<1> USE DEF Descends
<1>0. PICK K \in Nat : \A x \in D : rk[x] < K
  OBVIOUS
<1> DEFINE S == {k \in Nat : \E f \in [D -> V] : \A x \in D : rk[x] < k => f[x] = c[<<x, f>>]}
<1>1. 0 \in S
  <2>0. PICK a : a \in V
    OBVIOUS
  <2>1. [x \in D |-> a] \in [D -> V] /\ \A x \in D : ~ (rk[x] < 0)
    BY <2>0
  <2> QED BY <2>1
<1>2. ASSUME NEW k \in Nat, k \in S PROVE k + 1 \in S
  <2>1. PICK f \in [D -> V] : \A x \in D : rk[x] < k => f[x] = c[<<x, f>>]
    BY <1>2
  <2> DEFINE g == [x \in D |-> IF rk[x] < k THEN f[x] ELSE c[<<x, f>>]]
  <2>2. g \in [D -> V]
    <3> SUFFICES ASSUME NEW x \in D PROVE c[<<x, f>>] \in V
      OBVIOUS
    <3>1. <<x, f>> \in D \X [D -> V]
      OBVIOUS
    <3> QED BY <3>1
  <2>3. \A x \in D : g[x] = c[<<x, f>>] /\ (rk[x] < k => g[x] = f[x])
    BY <2>1
  <2> HIDE DEF g
  <2>4. ASSUME NEW x \in D, rk[x] < k + 1 PROVE g[x] = c[<<x, g>>]
    <3>1. \A y \in D : rk[y] < rk[x] => f[y] = g[y]
      <4> SUFFICES ASSUME NEW y \in D, rk[y] < rk[x] PROVE f[y] = g[y]
        OBVIOUS
      <4>1. rk[x] \in Nat /\ rk[y] \in Nat
        OBVIOUS
      <4>2. rk[y] < k
        BY <2>4, <4>1
      <4> QED BY <2>3, <4>2
    <3>2. c[<<x, f>>] = c[<<x, g>>]
      BY <2>2, <3>1
    <3> QED BY <2>3, <3>2
  <2> QED BY <2>2, <2>4
<1> HIDE DEF S
<1>3. K \in S
  BY <1>1, <1>2, SetInduction
<1> QED BY <1>0, <1>3 DEF S

-----------------------------------------------------------------------------
(***************************************************************************)
(* Lists.                                                                  *)
(***************************************************************************)

\* The elements of a sequence.
LEMMA ElementInSet ==
  ASSUME NEW S, NEW s \in Seq(S)
  PROVE  Len(s) \in Nat /\ DOMAIN s = 1 .. Len(s) /\ \A k \in 1 .. Len(s) : s[k] \in S
OBVIOUS

\* The end of a sequence.
LEMMA Suffix ==
  ASSUME NEW S, NEW s \in Seq(S), NEW i \in 1 .. Len(s) + 1
  PROVE  /\ SubSeq(s, i, Len(s)) \in Seq(S)
         /\ Len(SubSeq(s, i, Len(s))) = Len(s) - i + 1
         /\ \A k \in 1 .. Len(s) - i + 1 : SubSeq(s, i, Len(s))[k] = s[i + k - 1]
<1>1. Len(s) \in Nat /\ i \in Int /\ \A k \in i .. Len(s) : s[k] \in S
  BY ElementInSet
<1>2. /\ SubSeq(s, i, Len(s)) \in Seq(S)
      /\ Len(SubSeq(s, i, Len(s))) = IF i <= Len(s) THEN Len(s) - i + 1 ELSE 0
      /\ \A k \in 1 .. Len(s) - i + 1 : SubSeq(s, i, Len(s))[k] = s[i + k - 1]
  BY <1>1, SubSeqProperties
<1>3. Len(s) - i + 1 = IF i <= Len(s) THEN Len(s) - i + 1 ELSE 0
  BY <1>1
<1> QED BY <1>2, <1>3

\* Its beginning.
LEMMA Prefix ==
  ASSUME NEW S, NEW s \in Seq(S), NEW i \in 1 .. Len(s) + 1
  PROVE  /\ SubSeq(s, 1, i - 1) \in Seq(S)
         /\ Len(SubSeq(s, 1, i - 1)) = i - 1
         /\ \A k \in 1 .. i - 1 : SubSeq(s, 1, i - 1)[k] = s[k]
<1>1. Len(s) \in Nat /\ i - 1 \in Int /\ 1 \in Int /\ \A k \in 1 .. i - 1 : s[k] \in S
  BY ElementInSet
<1>2. /\ SubSeq(s, 1, i - 1) \in Seq(S)
      /\ Len(SubSeq(s, 1, i - 1)) = IF 1 <= i - 1 THEN i - 1 - 1 + 1 ELSE 0
      /\ \A k \in 1 .. i - 1 - 1 + 1 : SubSeq(s, 1, i - 1)[k] = s[1 + k - 1]
  BY <1>1, SubSeqProperties
<1>3. i - 1 - 1 + 1 = i - 1 /\ i - 1 = IF 1 <= i - 1 THEN i - 1 - 1 + 1 ELSE 0
  BY <1>1
<1>4. \A k \in 1 .. i - 1 : 1 + k - 1 = k
  BY <1>1
<1> QED BY <1>2, <1>3, <1>4

\* A sequence with an element more.
LEMMA Inserted ==
  ASSUME NEW S, NEW s \in Seq(S), NEW i \in 1 .. Len(s) + 1, NEW e \in S
  PROVE  /\ InsertAt(s, i, e) \in Seq(S)
         /\ Len(InsertAt(s, i, e)) = Len(s) + 1
         /\ \A k \in 1 .. Len(s) + 1 :
              InsertAt(s, i, e)[k] = IF k < i THEN s[k] ELSE IF k = i THEN e ELSE s[k - 1]
<1> DEFINE b == SubSeq(s, 1, i - 1)
           m == <<e>>
           a == SubSeq(s, i, Len(s))
<1>1. b \in Seq(S) /\ Len(b) = i - 1 /\ \A k \in 1 .. i - 1 : b[k] = s[k]
  BY Prefix
<1>2. a \in Seq(S) /\ Len(a) = Len(s) - i + 1 /\ \A k \in 1 .. Len(s) - i + 1 : a[k] = s[i + k - 1]
  BY Suffix
<1>3. m \in Seq(S) /\ Len(m) = 1 /\ m[1] = e
  OBVIOUS
<1>4. InsertAt(s, i, e) = (b \o m) \o a
  BY DEF InsertAt
<1>5. Len(s) \in Nat /\ i \in Nat
  BY ElementInSet
<1> HIDE DEF a, b, m
<1>6. PICK c : c = b \o m
  OBVIOUS
<1>7. /\ c \in Seq(S) /\ Len(c) = i
      /\ \A k \in 1 .. i : c[k] = IF k <= i - 1 THEN b[k] ELSE m[k - (i - 1)]
  <2>1. /\ c \in Seq(S) /\ Len(c) = Len(b) + Len(m)
        /\ \A k \in 1 .. Len(b) + Len(m) : c[k] = IF k <= Len(b) THEN b[k] ELSE m[k - Len(b)]
    BY <1>1, <1>3, <1>6, ConcatProperties
  <2>2. Len(b) + Len(m) = i
    BY <1>1, <1>3, <1>5
  <2> QED BY <1>1, <2>1, <2>2
<1>8. \A k \in 1 .. i : c[k] = IF k < i THEN s[k] ELSE e
  <2> TAKE k \in 1 .. i
  <2>1. CASE k < i
    BY <1>1, <1>5, <1>7, <2>1
  <2>2. CASE k = i
    <3>1. k - (i - 1) = 1 /\ ~ (k <= i - 1)
      BY <1>5, <2>2
    <3> QED BY <1>3, <1>5, <1>7, <2>2, <3>1
  <2> QED BY <1>5, <2>1, <2>2
<1>9. PICK d : d = c \o a
  OBVIOUS
<1>10. /\ d \in Seq(S) /\ Len(d) = Len(s) + 1
       /\ \A k \in 1 .. Len(s) + 1 : d[k] = IF k <= i THEN c[k] ELSE a[k - i]
  <2>1. /\ d \in Seq(S) /\ Len(d) = Len(c) + Len(a)
        /\ \A k \in 1 .. Len(c) + Len(a) : d[k] = IF k <= Len(c) THEN c[k] ELSE a[k - Len(c)]
    BY <1>2, <1>7, <1>9, ConcatProperties
  <2>2. Len(c) + Len(a) = Len(s) + 1
    BY <1>2, <1>5, <1>7
  <2> QED BY <1>7, <2>1, <2>2
<1>11. \A k \in 1 .. Len(s) + 1 : d[k] = IF k < i THEN s[k] ELSE IF k = i THEN e ELSE s[k - 1]
  <2> TAKE k \in 1 .. Len(s) + 1
  <2>1. CASE k <= i
    BY <1>5, <1>8, <1>10, <2>1
  <2>2. CASE k > i
    <3>1. k - i \in 1 .. Len(s) - i + 1 /\ i + (k - i) - 1 = k - 1
      BY <1>5, <2>2
    <3>2. a[k - i] = s[k - 1]
      BY <1>2, <3>1
    <3> QED BY <1>5, <1>10, <2>2, <3>2
  <2> QED BY <1>5, <2>1, <2>2
<1> QED BY <1>4, <1>6, <1>9, <1>10, <1>11

\* A sequence with an element less.
LEMMA Removed ==
  ASSUME NEW S, NEW s \in Seq(S), NEW i \in 1 .. Len(s)
  PROVE  /\ RemoveAt(s, i) \in Seq(S)
         /\ Len(RemoveAt(s, i)) = Len(s) - 1
         /\ \A k \in 1 .. Len(s) - 1 : RemoveAt(s, i)[k] = IF k < i THEN s[k] ELSE s[k + 1]
<1> DEFINE b == SubSeq(s, 1, i - 1)
           a == SubSeq(s, i + 1, Len(s))
<1>1. Len(s) \in Nat /\ i \in Nat
  BY ElementInSet
<1>2. i \in 1 .. Len(s) + 1 /\ i + 1 \in 1 .. Len(s) + 1
  BY <1>1
<1>3. b \in Seq(S) /\ Len(b) = i - 1 /\ \A k \in 1 .. i - 1 : b[k] = s[k]
  BY <1>2, Prefix
<1>4. /\ a \in Seq(S) /\ Len(a) = Len(s) - (i + 1) + 1
      /\ \A k \in 1 .. Len(s) - (i + 1) + 1 : a[k] = s[i + 1 + k - 1]
  BY <1>2, Suffix
<1>5. RemoveAt(s, i) = b \o a
  BY DEF RemoveAt
<1> HIDE DEF a, b
<1>6. PICK d : d = b \o a
  OBVIOUS
<1>7. /\ d \in Seq(S) /\ Len(d) = Len(s) - 1
      /\ \A k \in 1 .. Len(s) - 1 : d[k] = IF k < i THEN b[k] ELSE a[k - (i - 1)]
  <2>1. /\ d \in Seq(S) /\ Len(d) = Len(b) + Len(a)
        /\ \A k \in 1 .. Len(b) + Len(a) : d[k] = IF k <= Len(b) THEN b[k] ELSE a[k - Len(b)]
    BY <1>3, <1>4, <1>6, ConcatProperties
  <2>2. Len(b) + Len(a) = Len(s) - 1
    BY <1>1, <1>3, <1>4
  <2>3. \A k \in 1 .. Len(s) - 1 : k <= Len(b) <=> k < i
    BY <1>1, <1>3
  <2> QED BY <1>3, <2>1, <2>2, <2>3
<1>8. \A k \in 1 .. Len(s) - 1 : d[k] = IF k < i THEN s[k] ELSE s[k + 1]
  <2> TAKE k \in 1 .. Len(s) - 1
  <2>1. CASE k < i
    BY <1>1, <1>3, <1>7, <2>1, SMTT(40)
  <2>2. CASE ~ (k < i)
    <3>1. k - (i - 1) \in 1 .. Len(s) - (i + 1) + 1 /\ i + 1 + (k - (i - 1)) - 1 = k + 1
      BY <1>1, <2>2
    <3>2. a[k - (i - 1)] = s[k + 1]
      BY <1>4, <3>1
    <3> QED BY <1>7, <2>2, <3>2
  <2> QED BY <2>1, <2>2
<1> QED BY <1>5, <1>6, <1>7, <1>8
=============================================================================
