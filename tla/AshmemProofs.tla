---------------------------- MODULE AshmemProofs -----------------------------
(***************************************************************************)
(* Anonymous shared memory, for any number of areas, pages and ranges: the *)
(* lists of unpinned ranges and the LRU list stay exact, and together they *)
(* implement the sets of pages of AshmemPages.  At the end, for any number *)
(* of threads: the name of an area, AshmemArea.                            *)
(***************************************************************************)
EXTENDS Ashmem, LoopLemmas, TLAPS

-----------------------------------------------------------------------------
(***************************************************************************)
(* Lists of ranges and the number of their pages.                          *)
(***************************************************************************)
Ranges == [pgstart : Nat, pgend : Int, purged : BOOLEAN]

Tables == [RangeIds -> Ranges]

Lists == Seq(RangeIds)

\* The ranges of a list.
Ids(s) == {s[i] : i \in 1 .. Len(s)}

Once(s) == \A i, j \in 1 .. Len(s) : s[i] = s[j] => i = j

Total(ranges, s) == sizes(ranges, s)[Len(s)]

\* The size of a range is a number.
LEMMA SizeIsInt ==
  ASSUME NEW ranges \in Tables, NEW id \in RangeIds
  PROVE  range_size(ranges[id]) \in Int
<1>1. ranges[id] \in Ranges
  BY DEF Tables
<1> QED BY <1>1 DEF Ranges, range_size

\* The recursive function sizes.
LEMMA SizesFunction ==
  ASSUME NEW ranges \in Tables, NEW s \in Lists
  PROVE  /\ sizes(ranges, s) \in [0 .. Len(s) -> Int]
         /\ sizes(ranges, s)[0] = 0
         /\ \A k \in 1 .. Len(s) :
              sizes(ranges, s)[k] = sizes(ranges, s)[k - 1] + range_size(ranges[s[k]])
<1> DEFINE N == Len(s)
           c == [x \in (1 .. N) \X Int |-> x[2] + range_size(ranges[s[x[1]]])]
           IsUpto(g) == g = [k \in 0 .. Len(s) |->
                               IF k = 0 THEN 0 ELSE g[k - 1] + range_size(ranges[s[k]])]
           upto == CHOOSE g : IsUpto(g)
<1>1. N \in Nat /\ \A k \in 1 .. N : range_size(ranges[s[k]]) \in Int
  BY SizeIsInt, ElementInSet DEF Lists
<1>2. sizes(ranges, s) = upto
  BY Zenon DEF sizes
<1>3. \A k \in 1 .. N : \A v \in Int : c[<<k, v>>] = v + range_size(ranges[s[k]])
  OBVIOUS
<1>4. c \in [(1 .. N) \X Int -> Int]
  <2>1. \A x \in (1 .. N) \X Int : x[2] + range_size(ranges[s[x[1]]]) \in Int
    BY <1>1
  <2> QED BY <2>1
<1> HIDE DEF c
<1>5. PICK f : f \in [0 .. N -> Int] /\ Loop(f, N, 0, c)
  <2> DEFINE V == Int
             zero == 0
  <2>1. zero \in V /\ c \in [(1 .. N) \X V -> V]
    BY <1>4
  <2> HIDE DEF V, zero
  <2>2. \E f : f \in [0 .. N -> V] /\ Loop(f, N, zero, c)
    BY <1>1, <2>1, LoopExists
  <2> QED BY <2>2 DEF V, zero
<1>6. \A k \in 0 .. N : k # 0 => f[k - 1] \in Int /\ c[<<k, f[k - 1]>>] = f[k - 1] + range_size(ranges[s[k]])
  <2> SUFFICES ASSUME NEW k \in 0 .. N, k # 0
               PROVE  f[k - 1] \in Int /\ c[<<k, f[k - 1]>>] = f[k - 1] + range_size(ranges[s[k]])
    OBVIOUS
  <2>1. k \in 1 .. N /\ k - 1 \in 0 .. N
    BY <1>1
  <2> QED BY <1>3, <1>5, <2>1
<1>7. IsUpto(f)
  BY <1>5, <1>6 DEF Loop
<1>8. IsUpto(upto)
  <2> HIDE DEF IsUpto
  <2> QED BY <1>7, Zenon
<1> HIDE DEF upto
<1>9. upto[0] = 0 /\ \A k \in 1 .. N : upto[k] = upto[k - 1] + range_size(ranges[s[k]])
  <2>1. 0 \in 0 .. N /\ \A k \in 1 .. N : k \in 0 .. N /\ k # 0
    BY <1>1
  <2> QED BY <1>8, <2>1
<1> DEFINE S == {k \in Nat : k <= N => upto[k] \in Int}
<1>10. 0 \in S
  BY <1>9
<1>11. ASSUME NEW n \in Nat, n \in S PROVE n + 1 \in S
  <2> SUFFICES ASSUME n + 1 <= N PROVE upto[n + 1] \in Int
    OBVIOUS
  <2>1. n + 1 \in 1 .. N /\ (n + 1) - 1 = n /\ upto[n] \in Int
    BY <1>1, <1>11
  <2> QED BY <1>1, <1>9, <2>1
<1> HIDE DEF S
<1>12. \A n \in Nat : n \in S
  BY <1>10, <1>11, SetInduction
<1>13. upto \in [0 .. N -> Int]
  <2>1. \A k \in 0 .. N : upto[k] \in Int
    BY <1>1, <1>12 DEF S
  <2>2. upto = [k \in 0 .. N |-> upto[k]]
    BY <1>8
  <2> HIDE DEF IsUpto
  <2> QED BY <2>1, <2>2
<1> QED BY <1>2, <1>9, <1>13

\* Sums of lists that agree on their first n ranges.
LEMMA SameSizes ==
  ASSUME NEW r1 \in Tables, NEW r2 \in Tables, NEW s1 \in Lists, NEW s2 \in Lists,
         NEW n \in Nat, n <= Len(s1), n <= Len(s2),
         \A k \in 1 .. n : range_size(r1[s1[k]]) = range_size(r2[s2[k]])
  PROVE  sizes(r1, s1)[n] = sizes(r2, s2)[n]
<1>1. Len(s1) \in Nat /\ Len(s2) \in Nat
  BY DEF Lists
<1> DEFINE S == {k \in Nat : k <= n => sizes(r1, s1)[k] = sizes(r2, s2)[k]}
<1>2. 0 \in S
  BY SizesFunction
<1>3. ASSUME NEW k \in Nat, k \in S PROVE k + 1 \in S
  <2> SUFFICES ASSUME k + 1 <= n PROVE sizes(r1, s1)[k + 1] = sizes(r2, s2)[k + 1]
    OBVIOUS
  <2>1. /\ k + 1 \in 1 .. n /\ k + 1 \in 1 .. Len(s1) /\ k + 1 \in 1 .. Len(s2) /\ (k + 1) - 1 = k
        /\ sizes(r1, s1)[k] = sizes(r2, s2)[k]
    BY <1>1, <1>3
  <2>2. /\ sizes(r1, s1)[k + 1] = sizes(r1, s1)[(k + 1) - 1] + range_size(r1[s1[k + 1]])
        /\ sizes(r2, s2)[k + 1] = sizes(r2, s2)[(k + 1) - 1] + range_size(r2[s2[k + 1]])
    BY <2>1, SizesFunction
  <2> QED BY <2>1, <2>2
<1> HIDE DEF S
<1>4. n \in S
  BY <1>2, <1>3, SetInduction
<1> QED BY <1>4 DEF S

\* A list with one range more has its pages more.
LEMMA TotalAppend ==
  ASSUME NEW ranges \in Tables, NEW s \in Lists, NEW id \in RangeIds
  PROVE  Total(ranges, Append(s, id)) = Total(ranges, s) + range_size(ranges[id])
<1> DEFINE s2 == Append(s, id)
<1>1. /\ Len(s) \in Nat /\ s2 \in Lists /\ Len(s2) = Len(s) + 1 /\ s2[Len(s) + 1] = id
      /\ \A k \in 1 .. Len(s) : s2[k] = s[k]
  BY DEF Lists
<1> HIDE DEF s2
<1>2. sizes(ranges, s2)[Len(s)] = sizes(ranges, s)[Len(s)]
  BY <1>1, SameSizes
<1>3. Len(s) + 1 \in 1 .. Len(s2) /\ (Len(s) + 1) - 1 = Len(s)
  BY <1>1
<1>4. sizes(ranges, s2)[Len(s) + 1] = sizes(ranges, s2)[(Len(s) + 1) - 1] + range_size(ranges[s2[Len(s) + 1]])
  BY <1>1, <1>3, SizesFunction
<1> QED BY <1>1, <1>2, <1>3, <1>4 DEF Total, s2

\* A list with one range less has its pages less.
LEMMA TotalRemove ==
  ASSUME NEW ranges \in Tables, NEW s \in Lists, NEW p \in 1 .. Len(s)
  PROVE  /\ Total(ranges, RemoveAt(s, p)) = Total(ranges, s) - range_size(ranges[s[p]])
         /\ Total(ranges, s) \in Int
<1> DEFINE s2 == RemoveAt(s, p)
           z == range_size(ranges[s[p]])
<1>1. /\ s2 \in Lists /\ Len(s2) = Len(s) - 1
      /\ \A k \in 1 .. Len(s) - 1 : s2[k] = IF k < p THEN s[k] ELSE s[k + 1]
  BY Removed DEF Lists
<1>2. Len(s) \in Nat /\ p \in Nat /\ p >= 1 /\ p <= Len(s) /\ s[p] \in RangeIds
  BY DEF Lists
<1>3. z \in Int
  BY <1>2, SizeIsInt
<1> HIDE DEF s2, z
<1> DEFINE f == sizes(ranges, s)
           g == sizes(ranges, s2)
<1>4. /\ f \in [0 .. Len(s) -> Int]
      /\ \A k \in 1 .. Len(s) : f[k] = f[k - 1] + range_size(ranges[s[k]])
  BY SizesFunction
<1>5. /\ g \in [0 .. Len(s) - 1 -> Int]
      /\ \A k \in 1 .. Len(s) - 1 : g[k] = g[k - 1] + range_size(ranges[s2[k]])
  BY <1>1, SizesFunction
<1>6. g[p - 1] = f[p - 1]
  <2>1. p - 1 \in Nat /\ p - 1 <= Len(s) /\ p - 1 <= Len(s2) /\ \A k \in 1 .. p - 1 : s2[k] = s[k]
    BY <1>1, <1>2
  <2> HIDE DEF f, g
  <2> QED BY <1>1, <2>1, SameSizes DEF f, g
<1>7. f[p] = f[p - 1] + z
  BY <1>4 DEF z
<1> HIDE DEF f, g
<1> DEFINE S == {k \in Nat : p + k <= Len(s) => g[p + k - 1] = f[p + k] - z}
<1>8. 0 \in S
  <2>1. p + 0 - 1 = p - 1 /\ p + 0 = p /\ p - 1 \in 0 .. Len(s) /\ f[p - 1] \in Int
    BY <1>2, <1>4
  <2> QED BY <1>3, <1>6, <1>7, <2>1
<1>9. ASSUME NEW k \in Nat, k \in S PROVE k + 1 \in S
  <2> SUFFICES ASSUME p + (k + 1) <= Len(s) PROVE g[p + (k + 1) - 1] = f[p + (k + 1)] - z
    OBVIOUS
  <2> DEFINE q == p + k
  <2>1. /\ q \in 1 .. Len(s) - 1 /\ q + 1 \in 1 .. Len(s) /\ (q + 1) - 1 = q /\ q - 1 \in 0 .. Len(s) - 1
        /\ q \in 0 .. Len(s) /\ ~ (q < p) /\ p + (k + 1) - 1 = q /\ p + (k + 1) = q + 1
    BY <1>2
  <2>2. g[q - 1] = f[q] - z
    BY <1>9, <2>1
  <2> HIDE DEF q
  <2>3. s2[q] = s[q + 1]
    BY <1>1, <2>1
  <2>4. range_size(ranges[s[q + 1]]) \in Int
    BY <2>1, SizeIsInt, ElementInSet DEF Lists
  <2>5. g[q] = g[q - 1] + range_size(ranges[s[q + 1]])
    BY <1>5, <2>1, <2>3
  <2>6. f[q + 1] = f[q] + range_size(ranges[s[q + 1]])
    BY <1>4, <2>1
  <2>7. f[q] \in Int
    BY <1>4, <2>1
  <2>8. g[q] = f[q + 1] - z
    BY <1>3, <2>2, <2>4, <2>5, <2>6, <2>7
  <2> QED BY <2>1, <2>8
<1> HIDE DEF S
<1>10. Len(s) - p \in Nat /\ p + (Len(s) - p) = Len(s)
  BY <1>2
<1>11. Len(s) - p \in S
  BY <1>8, <1>9, <1>10, SetInduction
<1>12. g[Len(s) - 1] = f[Len(s)] - z
  BY <1>10, <1>11 DEF S
<1>13. f[Len(s)] \in Int
  BY <1>2, <1>4
<1> QED BY <1>1, <1>12, <1>13 DEF Total, f, g, s2, z

\* What becomes of ranges that are not on a list does not change its pages.
LEMMA TotalFrame ==
  ASSUME NEW r1 \in Tables, NEW r2 \in Tables, NEW s \in Lists,
         \A id \in Ids(s) : range_size(r1[id]) = range_size(r2[id])
  PROVE  Total(r1, s) = Total(r2, s)
<1>1. Len(s) \in Nat
  BY DEF Lists
<1>2. \A k \in 1 .. Len(s) : range_size(r1[s[k]]) = range_size(r2[s[k]])
  BY DEF Ids
<1> QED BY <1>1, <1>2, SameSizes DEF Total

\* The end of a list has the pages that its beginning has not.
LEMMA TotalSuffix ==
  ASSUME NEW ranges \in Tables, NEW s \in Lists, NEW n \in 0 .. Len(s)
  PROVE  Total(ranges, SubSeq(s, n + 1, Len(s))) = Total(ranges, s) - sizes(ranges, s)[n]
<1> DEFINE s2 == SubSeq(s, n + 1, Len(s))
<1>0. Len(s) \in Nat /\ n \in Nat /\ n + 1 \in 1 .. Len(s) + 1 /\ Len(s) - (n + 1) + 1 = Len(s) - n
  BY DEF Lists
<1>1. /\ s2 \in Lists /\ Len(s2) = Len(s) - (n + 1) + 1
      /\ \A k \in 1 .. Len(s) - (n + 1) + 1 : s2[k] = s[(n + 1) + k - 1]
  BY <1>0, Suffix DEF Lists
<1> HIDE DEF s2
<1> DEFINE f == sizes(ranges, s)
           g == sizes(ranges, s2)
<1>4. /\ f \in [0 .. Len(s) -> Int]
      /\ \A k \in 1 .. Len(s) : f[k] = f[k - 1] + range_size(ranges[s[k]])
  BY SizesFunction
<1>5. /\ g \in [0 .. Len(s) - n -> Int] /\ g[0] = 0
      /\ \A k \in 1 .. Len(s) - n : g[k] = g[k - 1] + range_size(ranges[s2[k]])
  <2>1. Len(s2) = Len(s) - n
    BY <1>0, <1>1
  <2> QED BY <1>1, <2>1, SizesFunction
<1> HIDE DEF f, g
<1> DEFINE S == {k \in Nat : n + k <= Len(s) => g[k] = f[n + k] - f[n]}
<1>6. 0 \in S
  <2>1. n + 0 = n /\ f[n] \in Int
    BY <1>0, <1>4
  <2> QED BY <1>5, <2>1
<1>7. ASSUME NEW k \in Nat, k \in S PROVE k + 1 \in S
  <2> SUFFICES ASSUME n + (k + 1) <= Len(s) PROVE g[k + 1] = f[n + (k + 1)] - f[n]
    OBVIOUS
  <2> DEFINE q == n + (k + 1)
  <2>1. /\ q \in 1 .. Len(s) /\ q - 1 = n + k /\ n + k \in 0 .. Len(s) /\ k + 1 \in 1 .. Len(s) - n
        /\ (k + 1) - 1 = k /\ (n + 1) + (k + 1) - 1 = q /\ k + 1 \in 1 .. Len(s) - (n + 1) + 1
        /\ n + k <= Len(s)
    BY <1>0
  <2>2. g[k] = f[n + k] - f[n]
    BY <1>7, <2>1
  <2> HIDE DEF q
  <2>3. s2[k + 1] = s[q]
    BY <1>1, <2>1
  <2>4. range_size(ranges[s[q]]) \in Int
    BY <2>1, SizeIsInt, ElementInSet DEF Lists
  <2>5. g[k + 1] = g[k] + range_size(ranges[s[q]])
    BY <1>5, <2>1, <2>3
  <2>6. f[q] = f[n + k] + range_size(ranges[s[q]])
    BY <1>4, <2>1
  <2>7. f[n + k] \in Int /\ f[n] \in Int
    BY <1>0, <1>4, <2>1
  <2>8. g[k + 1] = f[q] - f[n]
    BY <2>2, <2>4, <2>5, <2>6, <2>7
  <2> QED BY <2>8 DEF q
<1> HIDE DEF S
<1>8. Len(s) - n \in S /\ Len(s) - n \in Nat /\ n + (Len(s) - n) = Len(s)
  BY <1>0, <1>6, <1>7, SetInduction
<1>9. g[Len(s) - n] = f[Len(s)] - f[n]
  BY <1>8 DEF S
<1> QED BY <1>0, <1>1, <1>9 DEF Total, f, g, s2
\* The ranges of a list that holds none twice, with one less.
LEMMA IdsRemove ==
  ASSUME NEW s \in Lists, Once(s), NEW p \in 1 .. Len(s)
  PROVE  /\ RemoveAt(s, p) \in Lists /\ Once(RemoveAt(s, p))
         /\ Len(RemoveAt(s, p)) = Len(s) - 1
         /\ Ids(RemoveAt(s, p)) = Ids(s) \ {s[p]}
<1>1. PICK s2 : s2 = RemoveAt(s, p)
  OBVIOUS
<1>2. /\ s2 \in Lists /\ Len(s2) = Len(s) - 1 /\ Len(s) \in Nat
      /\ \A k \in 1 .. Len(s) - 1 : s2[k] = IF k < p THEN s[k] ELSE s[k + 1]
  <2>1. /\ RemoveAt(s, p) \in Lists /\ Len(RemoveAt(s, p)) = Len(s) - 1
        /\ \A k \in 1 .. Len(s) - 1 : RemoveAt(s, p)[k] = IF k < p THEN s[k] ELSE s[k + 1]
    BY Removed DEF Lists
  <2>2. Len(s) \in Nat
    BY DEF Lists
  <2> QED BY <1>1, <2>1, <2>2
<1>3. ASSUME NEW i \in 1 .. Len(s) - 1, NEW j \in 1 .. Len(s) - 1, s2[i] = s2[j] PROVE i = j
  <2> DEFINE i2 == IF i < p THEN i ELSE i + 1
             j2 == IF j < p THEN j ELSE j + 1
  <2>1. i2 \in 1 .. Len(s) /\ j2 \in 1 .. Len(s) /\ (i2 = j2 => i = j)
    BY <1>2
  <2>2. s2[i] = s[i2] /\ s2[j] = s[j2]
    BY <1>2
  <2> HIDE DEF i2, j2
  <2> QED BY <1>3, <2>1, <2>2 DEF Once
<1>4. ASSUME NEW k \in 1 .. Len(s) - 1 PROVE s2[k] \in Ids(s) \ {s[p]}
  <2> DEFINE k2 == IF k < p THEN k ELSE k + 1
  <2>1. k2 \in 1 .. Len(s) /\ k2 # p /\ s2[k] = s[k2]
    BY <1>2
  <2> HIDE DEF k2
  <2> QED BY <2>1 DEF Once, Ids
<1>5. ASSUME NEW k \in 1 .. Len(s), k # p PROVE \E q \in 1 .. Len(s) - 1 : s2[q] = s[k]
  <2> DEFINE q == IF k < p THEN k ELSE k - 1
  <2>1. q \in 1 .. Len(s) - 1
    BY <1>2, <1>5
  <2>2. s2[q] = s[k]
    <3>1. CASE k < p
      BY <1>2, <2>1, <3>1
    <3>2. CASE ~ (k < p)
      <4>1. q = k - 1 /\ ~ (q < p) /\ q + 1 = k
        BY <1>2, <1>5, <3>2
      <4> HIDE DEF q
      <4> QED BY <1>2, <2>1, <4>1
    <3> QED BY <3>1, <3>2
  <2> QED BY <2>1, <2>2
<1>6. Ids(s2) = Ids(s) \ {s[p]}
  <2>1. Ids(s2) \subseteq Ids(s) \ {s[p]}
    BY <1>2, <1>4 DEF Ids
  <2>2. ASSUME NEW x \in Ids(s), x # s[p] PROVE x \in Ids(s2)
    <3>1. PICK k \in 1 .. Len(s) : x = s[k]
      BY DEF Ids
    <3> QED BY <1>2, <1>5, <2>2, <3>1 DEF Ids
  <2> QED BY <2>1, <2>2
<1>7. Once(s2)
  BY <1>2, <1>3 DEF Once
<1> QED BY <1>1, <1>2, <1>6, <1>7

\* With one more.
LEMMA IdsInsert ==
  ASSUME NEW s \in Lists, Once(s), NEW p \in 1 .. Len(s) + 1, NEW id \in RangeIds, id \notin Ids(s)
  PROVE  /\ InsertAt(s, p, id) \in Lists /\ Once(InsertAt(s, p, id))
         /\ Ids(InsertAt(s, p, id)) = Ids(s) \cup {id}
<1>1. PICK s2 : s2 = InsertAt(s, p, id)
  OBVIOUS
<1>2. /\ s2 \in Lists /\ Len(s2) = Len(s) + 1 /\ Len(s) \in Nat
      /\ \A k \in 1 .. Len(s) + 1 : s2[k] = IF k < p THEN s[k] ELSE IF k = p THEN id ELSE s[k - 1]
  <2>1. /\ InsertAt(s, p, id) \in Lists /\ Len(InsertAt(s, p, id)) = Len(s) + 1
        /\ \A k \in 1 .. Len(s) + 1 : InsertAt(s, p, id)[k] = IF k < p THEN s[k] ELSE IF k = p THEN id ELSE s[k - 1]
    <3>1. s \in Seq(RangeIds)
      BY DEF Lists
    <3>2. /\ InsertAt(s, p, id) \in Seq(RangeIds) /\ Len(InsertAt(s, p, id)) = Len(s) + 1
          /\ \A k \in 1 .. Len(s) + 1 :
               InsertAt(s, p, id)[k] = IF k < p THEN s[k] ELSE IF k = p THEN id ELSE s[k - 1]
      BY <3>1, Inserted
    <3> QED BY <3>2 DEF Lists
  <2>2. Len(s) \in Nat
    BY DEF Lists
  <2> QED BY <1>1, <2>1, <2>2
<1>3. \A k \in 1 .. Len(s) + 1 :
        \/ k < p /\ k \in 1 .. Len(s) /\ s2[k] = s[k]
        \/ k = p /\ s2[k] = id
        \/ k > p /\ k - 1 \in 1 .. Len(s) /\ s2[k] = s[k - 1]
  BY <1>2
<1>4. \A k \in 1 .. Len(s) : s[k] # id
  BY DEF Ids
<1>5. ASSUME NEW i \in 1 .. Len(s) + 1, NEW j \in 1 .. Len(s) + 1, s2[i] = s2[j] PROVE i = j
  <2>1. \A x, y \in 1 .. Len(s) : s[x] = s[y] => x = y
    BY DEF Once
  <2>2. CASE i = p \/ j = p
    BY <1>2, <1>3, <1>4, <1>5, <2>2
  <2>3. CASE i # p /\ j # p
    <3> DEFINE i2 == IF i < p THEN i ELSE i - 1
               j2 == IF j < p THEN j ELSE j - 1
    <3>1. i2 \in 1 .. Len(s) /\ j2 \in 1 .. Len(s) /\ (i2 = j2 => i = j)
      BY <1>2, <2>3
    <3>2. s2[i] = s[i2] /\ s2[j] = s[j2]
      BY <1>2, <2>3
    <3> HIDE DEF i2, j2
    <3> QED BY <1>5, <2>1, <3>1, <3>2
  <2> QED BY <2>2, <2>3
<1>6. Ids(s2) \subseteq Ids(s) \cup {id}
  BY <1>2, <1>3 DEF Ids
<1>7. ASSUME NEW k \in 1 .. Len(s) PROVE \E q \in 1 .. Len(s) + 1 : s2[q] = s[k]
  <2>1. CASE k < p
    <3>1. k \in 1 .. Len(s) + 1 /\ s2[k] = s[k]
      BY <1>2, <2>1
    <3> QED BY <3>1
  <2>2. CASE ~ (k < p)
    <3>1. k + 1 \in 1 .. Len(s) + 1 /\ ~ (k + 1 < p) /\ k + 1 # p /\ (k + 1) - 1 = k
      BY <1>2, <2>2
    <3>2. s2[k + 1] = s[k]
      BY <1>2, <3>1
    <3> QED BY <3>1, <3>2
  <2> QED BY <2>1, <2>2
<1>8. p \in 1 .. Len(s) + 1 /\ s2[p] = id
  BY <1>2, <1>3
<1>9. Ids(s) \cup {id} \subseteq Ids(s2)
  BY <1>2, <1>7, <1>8 DEF Ids
<1>10. Once(s2)
  BY <1>2, <1>5 DEF Once
<1> QED BY <1>1, <1>2, <1>6, <1>9, <1>10

\* At its end.
LEMMA IdsAppend ==
  ASSUME NEW s \in Lists, Once(s), NEW id \in RangeIds, id \notin Ids(s)
  PROVE  /\ Append(s, id) \in Lists /\ Once(Append(s, id))
         /\ Ids(Append(s, id)) = Ids(s) \cup {id}
<1> DEFINE s2 == Append(s, id)
<1>1. /\ Len(s) \in Nat /\ s2 \in Lists /\ Len(s2) = Len(s) + 1 /\ s2[Len(s) + 1] = id
      /\ \A k \in 1 .. Len(s) : s2[k] = s[k]
  BY DEF Lists
<1> HIDE DEF s2
<1>2. \A k \in 1 .. Len(s2) : k \in 1 .. Len(s) \/ k = Len(s) + 1
  BY <1>1
<1>3. \A k \in 1 .. Len(s) : s[k] # id /\ k \in 1 .. Len(s2)
  BY <1>1 DEF Ids
<1>4. Len(s) + 1 \in 1 .. Len(s2)
  BY <1>1
<1>5. Once(s2)
  BY <1>1, <1>2, <1>3 DEF Once
<1>6. Ids(s2) = Ids(s) \cup {id}
  BY <1>1, <1>2, <1>3, <1>4 DEF Ids
<1> QED BY <1>1, <1>5, <1>6 DEF s2

\* Where a range of the list is.
LEMMA PositionOf ==
  ASSUME NEW s \in Lists, NEW id \in Ids(s)
  PROVE  Position(s, id) \in 1 .. Len(s) /\ s[Position(s, id)] = id
<1>1. DOMAIN s = 1 .. Len(s)
  BY DEF Lists
<1>2. \E i \in DOMAIN s : s[i] = id
  BY <1>1 DEF Ids
<1> QED BY <1>1, <1>2 DEF Position

\* A list without one of its ranges.
LEMMA WithoutExact ==
  ASSUME NEW s \in Lists, Once(s), NEW id \in Ids(s)
  PROVE  /\ Without(s, id) \in Lists /\ Once(Without(s, id))
         /\ Len(Without(s, id)) = Len(s) - 1
         /\ Ids(Without(s, id)) = Ids(s) \ {id}
         /\ \A ranges \in Tables :
              Total(ranges, Without(s, id)) = Total(ranges, s) - range_size(ranges[id])
<1>1. Position(s, id) \in 1 .. Len(s) /\ s[Position(s, id)] = id
  BY PositionOf
<1> QED BY <1>1, IdsRemove, TotalRemove DEF Without

-----------------------------------------------------------------------------
(***************************************************************************)
(* Order.                                                                  *)
(***************************************************************************)

\* The ranges of a list are not empty and are within the area, and they are
\* disjoint and sorted from its end to its start.
Tidy(s, ranges) ==
  /\ \A id \in Ids(s) : ranges[id].pgstart <= ranges[id].pgend /\ ranges[id].pgend <= Pages - 1
  /\ \A i, j \in 1 .. Len(s) : i < j => ranges[s[j]].pgend < ranges[s[i]].pgstart

\* It stays so with a range less.
LEMMA TidyRemove ==
  ASSUME NEW s \in Lists, Once(s), NEW p \in 1 .. Len(s), NEW r1, NEW r2, Tidy(s, r1),
         \A id \in Ids(s) \ {s[p]} : r2[id] = r1[id]
  PROVE  Tidy(RemoveAt(s, p), r2)
<1>1. PICK s2 : s2 = RemoveAt(s, p)
  OBVIOUS
<1>2. /\ s2 \in Lists /\ Len(s2) = Len(s) - 1 /\ Len(s) \in Nat
      /\ \A k \in 1 .. Len(s) - 1 : s2[k] = IF k < p THEN s[k] ELSE s[k + 1]
  <2>1. /\ RemoveAt(s, p) \in Lists /\ Len(RemoveAt(s, p)) = Len(s) - 1
        /\ \A k \in 1 .. Len(s) - 1 : RemoveAt(s, p)[k] = IF k < p THEN s[k] ELSE s[k + 1]
    BY Removed DEF Lists
  <2>2. Len(s) \in Nat
    BY DEF Lists
  <2> QED BY <1>1, <2>1, <2>2
<1>3. Ids(s2) = Ids(s) \ {s[p]}
  BY <1>1, IdsRemove
<1>4. ASSUME NEW i \in 1 .. Len(s2), NEW j \in 1 .. Len(s2), i < j
      PROVE  r2[s2[j]].pgend < r2[s2[i]].pgstart
  <2> DEFINE i2 == IF i < p THEN i ELSE i + 1
             j2 == IF j < p THEN j ELSE j + 1
  <2>1. i2 \in 1 .. Len(s) /\ j2 \in 1 .. Len(s) /\ i2 < j2
    BY <1>2, <1>4
  <2>2. s2[i] = s[i2] /\ s2[j] = s[j2]
    BY <1>2
  <2> HIDE DEF i2, j2
  <2>3. r2[s2[i]] = r1[s2[i]] /\ r2[s2[j]] = r1[s2[j]]
    <3>1. s2[i] \in Ids(s2) /\ s2[j] \in Ids(s2)
      BY DEF Ids
    <3> QED BY <1>3, <3>1
  <2> QED BY <2>1, <2>2, <2>3 DEF Tidy
<1> QED BY <1>1, <1>3, <1>4 DEF Tidy

\* With smaller ranges.
LEMMA TidyShrink ==
  ASSUME PagesAssumption, NEW s \in Lists, NEW r1 \in Tables, NEW r2 \in Tables, Tidy(s, r1),
         \A id \in Ids(s) : /\ r2[id].pgstart <= r2[id].pgend
                            /\ r1[id].pgstart <= r2[id].pgstart /\ r2[id].pgend <= r1[id].pgend
  PROVE  Tidy(s, r2)
<1>1. \A id \in Ids(s) : r1[id] \in Ranges /\ r2[id] \in Ranges
  BY ElementInSet DEF Ids, Tables, Lists
<1>2. \A id \in Ids(s) : /\ r1[id].pgstart \in Int /\ r2[id].pgstart \in Int
                         /\ r1[id].pgend \in Int /\ r2[id].pgend \in Int
  BY <1>1 DEF Ranges
<1>3. Pages - 1 \in Int
  BY DEF PagesAssumption
<1>4. ASSUME NEW id \in Ids(s) PROVE r2[id].pgend <= Pages - 1
  <2>1. r2[id].pgend <= r1[id].pgend /\ r1[id].pgend <= Pages - 1
    BY DEF Tidy
  <2> QED BY <1>2, <1>3, <2>1
<1>5. ASSUME NEW i \in 1 .. Len(s), NEW j \in 1 .. Len(s), i < j
      PROVE  r2[s[j]].pgend < r2[s[i]].pgstart
  <2>1. s[i] \in Ids(s) /\ s[j] \in Ids(s)
    BY DEF Ids
  <2>2. r1[s[j]].pgend < r1[s[i]].pgstart
    BY <1>5 DEF Tidy
  <2> QED BY <1>2, <2>1, <2>2
<1> QED BY <1>4, <1>5 DEF Tidy

\* With a range more, at its place.
LEMMA TidyInsert ==
  ASSUME NEW s \in Lists, Once(s), NEW p \in 1 .. Len(s) + 1, NEW id \in RangeIds, id \notin Ids(s),
         NEW r1, NEW r2, Tidy(s, r1), \A x \in Ids(s) : r2[x] = r1[x],
         r2[id].pgstart <= r2[id].pgend /\ r2[id].pgend <= Pages - 1,
         \A k \in 1 .. Len(s) : IF k < p THEN r2[id].pgend < r1[s[k]].pgstart
                                ELSE r1[s[k]].pgend < r2[id].pgstart
  PROVE  Tidy(InsertAt(s, p, id), r2)
<1>1. PICK s2 : s2 = InsertAt(s, p, id)
  OBVIOUS
<1>2. /\ s2 \in Lists /\ Len(s2) = Len(s) + 1 /\ Len(s) \in Nat
      /\ \A k \in 1 .. Len(s) + 1 : s2[k] = IF k < p THEN s[k] ELSE IF k = p THEN id ELSE s[k - 1]
  <2>1. /\ InsertAt(s, p, id) \in Lists /\ Len(InsertAt(s, p, id)) = Len(s) + 1
        /\ \A k \in 1 .. Len(s) + 1 : InsertAt(s, p, id)[k] = IF k < p THEN s[k] ELSE IF k = p THEN id ELSE s[k - 1]
    <3>1. s \in Seq(RangeIds)
      BY DEF Lists
    <3>2. /\ InsertAt(s, p, id) \in Seq(RangeIds) /\ Len(InsertAt(s, p, id)) = Len(s) + 1
          /\ \A k \in 1 .. Len(s) + 1 :
               InsertAt(s, p, id)[k] = IF k < p THEN s[k] ELSE IF k = p THEN id ELSE s[k - 1]
      BY <3>1, Inserted
    <3> QED BY <3>2 DEF Lists
  <2>2. Len(s) \in Nat
    BY DEF Lists
  <2> QED BY <1>1, <2>1, <2>2
<1>3. Ids(s2) = Ids(s) \cup {id}
  BY <1>1, IdsInsert
<1>4. \A k \in 1 .. Len(s) : r2[s[k]] = r1[s[k]]
  BY DEF Ids
<1>5. ASSUME NEW i \in 1 .. Len(s2), NEW j \in 1 .. Len(s2), i < j
      PROVE  r2[s2[j]].pgend < r2[s2[i]].pgstart
  <2>1. CASE j < p
    <3>1. /\ i \in 1 .. Len(s) /\ j \in 1 .. Len(s) /\ s2[i] = s[i] /\ s2[j] = s[j]
      BY <1>2, <1>5, <2>1
    <3> QED BY <1>4, <1>5, <3>1 DEF Tidy
  <2>2. CASE j = p
    <3>1. i \in 1 .. Len(s) /\ i < p /\ s2[i] = s[i] /\ s2[j] = id
      BY <1>2, <1>5, <2>2
    <3> QED BY <1>4, <3>1
  <2>3. CASE j > p
    <3>1. j - 1 \in 1 .. Len(s) /\ ~ (j - 1 < p) /\ s2[j] = s[j - 1]
      BY <1>2, <1>5, <2>3
    <3>2. CASE i < p
      <4>1. i \in 1 .. Len(s) /\ i < j - 1 /\ s2[i] = s[i]
        BY <1>2, <2>3, <3>2
      <4> QED BY <1>4, <3>1, <4>1 DEF Tidy
    <3>3. CASE i = p
      <4>1. s2[i] = id
        BY <1>2, <3>3
      <4> QED BY <1>4, <3>1, <4>1
    <3>4. CASE i > p
      <4>1. i - 1 \in 1 .. Len(s) /\ i - 1 < j - 1 /\ s2[i] = s[i - 1]
        BY <1>2, <1>5, <3>4
      <4> QED BY <1>4, <3>1, <4>1 DEF Tidy
    <3> QED BY <1>2, <3>2, <3>3, <3>4
  <2> QED BY <1>2, <2>1, <2>2, <2>3
<1>6. \A x \in Ids(s2) : r2[x].pgstart <= r2[x].pgend /\ r2[x].pgend <= Pages - 1
  BY <1>3 DEF Tidy
<1> QED BY <1>1, <1>5, <1>6 DEF Tidy
-----------------------------------------------------------------------------
(***************************************************************************)
(* The heap and what range_alloc, range_del and range_shrink do to it.     *)
(***************************************************************************)
Heaps == [list : Lists, range : Tables, lru : Lists, count : Int]

\* No range is on a list twice; the LRU list has exactly the ranges of this and
\* other areas that were not purged, and its count is the number of their pages.
HeapOK(h, others) ==
  /\ h \in Heaps /\ others \subseteq RangeIds
  /\ Once(h.list) /\ Ids(h.list) \cap others = {}
  /\ Once(h.lru)
  /\ \A id \in RangeIds :
       id \in Ids(h.lru) <=> (id \in Ids(h.list) \cup others /\ h.range[id].purged = FALSE)
  /\ h.count = Total(h.range, h.lru)

\* h2 is h with the table changed at id only.
Changes(h, h2, id) == \A x \in RangeIds : x # id => h2.range[x] = h.range[x]

\* The components of a heap.
LEMMA HeapParts ==
  ASSUME NEW h \in Heaps
  PROVE  /\ h.list \in Lists /\ h.range \in Tables /\ h.lru \in Lists /\ h.count \in Int
         /\ Ids(h.list) \subseteq RangeIds /\ Ids(h.lru) \subseteq RangeIds
         /\ \A id \in RangeIds : /\ h.range[id] \in Ranges
                                 /\ h.range[id].pgstart \in Nat /\ h.range[id].pgend \in Int
                                 /\ h.range[id].purged \in BOOLEAN
<1>1. h.list \in Lists /\ h.range \in Tables /\ h.lru \in Lists /\ h.count \in Int
  BY DEF Heaps
<1>2. Ids(h.list) \subseteq RangeIds /\ Ids(h.lru) \subseteq RangeIds
  BY <1>1, ElementInSet DEF Ids, Lists
<1>3. \A id \in RangeIds : h.range[id] \in Ranges
  BY <1>1 DEF Tables
<1> QED BY <1>1, <1>2, <1>3 DEF Ranges

\* h2 is h with a range less.
Deleted(h, o, h2, id) ==
  /\ HeapOK(h2, o) /\ Changes(h, h2, id)
  /\ Ids(h2.list) = Ids(h.list) \ {id} /\ Len(h2.list) = Len(h.list) - 1
  /\ Tidy(h.list, h.range) => Tidy(h2.list, h2.range)

\* range_del.
LEMMA DelOK ==
  ASSUME NEW h, NEW o, HeapOK(h, o), NEW id \in Ids(h.list)
  PROVE  Deleted(h, o, range_del(h, id), id)
<1> DEFINE r == h.range[id]
           list2 == Without(h.list, id)
           range2 == [h.range EXCEPT ![id] = NoRange]
           lru2 == IF r.purged THEN h.lru ELSE Without(h.lru, id)
           count2 == IF r.purged THEN h.count ELSE h.count - range_size(r)
<1>1. PICK h2 : h2 = range_del(h, id)
  OBVIOUS
<1>2. h2 = [list |-> list2, range |-> range2, lru |-> lru2, count |-> count2]
  BY <1>1 DEF range_del
<1>3. h2.list = list2 /\ h2.range = range2 /\ h2.lru = lru2 /\ h2.count = count2
  BY <1>2
<1>4. h \in Heaps
  BY DEF HeapOK
<1>5. /\ h.list \in Lists /\ h.range \in Tables /\ h.lru \in Lists /\ h.count \in Int
      /\ id \in RangeIds /\ r.purged \in BOOLEAN /\ Once(h.list) /\ Once(h.lru)
  BY <1>4, HeapParts DEF HeapOK
<1>6. list2 \in Lists /\ Once(list2) /\ Len(list2) = Len(h.list) - 1 /\ Ids(list2) = Ids(h.list) \ {id}
  BY <1>5, WithoutExact
<1>7. range2 \in Tables
  <2>1. NoRange \in Ranges
    BY DEF NoRange, Ranges
  <2> QED BY <1>5, <2>1 DEF Tables
<1>8. \A x \in RangeIds : x # id => range2[x] = h.range[x]
  BY <1>5 DEF Tables
<1>9. range_size(r) \in Int
  BY <1>5, SizeIsInt
<1>10. r.purged = FALSE => id \in Ids(h.lru)
  BY <1>5 DEF HeapOK
<1>11. r.purged = TRUE => id \notin Ids(h.lru)
  BY <1>5 DEF HeapOK
<1>12. lru2 \in Lists /\ Once(lru2) /\ Ids(lru2) = Ids(h.lru) \ {id}
  <2>1. CASE r.purged = TRUE
    BY <1>5, <1>11, <2>1
  <2>2. CASE r.purged = FALSE
    <3>1. id \in Ids(h.lru) /\ lru2 = Without(h.lru, id)
      BY <1>10, <2>2
    <3> HIDE DEF lru2
    <3> QED BY <1>5, <3>1, WithoutExact
  <2> QED BY <1>5, <2>1, <2>2
<1>13. count2 \in Int /\ count2 = Total(h.range, lru2)
  <2>1. CASE r.purged = TRUE
    BY <1>5, <2>1 DEF HeapOK
  <2>2. CASE r.purged = FALSE
    <3>1. id \in Ids(h.lru) /\ lru2 = Without(h.lru, id) /\ count2 = h.count - range_size(r)
      BY <1>10, <2>2
    <3>2. Total(h.range, Without(h.lru, id)) = Total(h.range, h.lru) - range_size(r)
      BY <1>5, <3>1, WithoutExact
    <3>3. h.count = Total(h.range, h.lru)
      BY DEF HeapOK
    <3> HIDE DEF lru2, count2, r
    <3> QED BY <1>5, <1>9, <3>1, <3>2, <3>3
  <2> QED BY <1>5, <2>1, <2>2
<1> HIDE DEF list2, range2, lru2, count2
<1>14. Total(h.range, lru2) = Total(range2, lru2)
  <2>1. \A x \in Ids(lru2) : x \in RangeIds /\ x # id
    BY <1>4, <1>12, HeapParts
  <2>2. \A x \in Ids(lru2) : range_size(h.range[x]) = range_size(range2[x])
    BY <1>8, <2>1
  <2> QED BY <1>5, <1>7, <1>12, <2>2, TotalFrame
<1>15. \A x \in RangeIds :
         x \in Ids(lru2) <=> (x \in Ids(list2) \cup o /\ range2[x].purged = FALSE)
  <2>1. id \notin o
    BY DEF HeapOK
  <2> SUFFICES ASSUME NEW x \in RangeIds
               PROVE  x \in Ids(lru2) <=> (x \in Ids(list2) \cup o /\ range2[x].purged = FALSE)
    OBVIOUS
  <2>2. CASE x = id
    BY <1>6, <1>12, <2>1, <2>2
  <2>3. CASE x # id
    BY <1>6, <1>8, <1>12, <2>3 DEF HeapOK
  <2> QED BY <2>2, <2>3
<1>16. h2 \in Heaps
  BY <1>2, <1>6, <1>7, <1>12, <1>13 DEF Heaps
<1>17. HeapOK(h2, o)
  <2>1. o \subseteq RangeIds /\ Ids(list2) \cap o = {}
    BY <1>6 DEF HeapOK
  <2> QED BY <1>3, <1>6, <1>12, <1>13, <1>14, <1>15, <1>16, <2>1 DEF HeapOK
<1>18. Tidy(h.list, h.range) => Tidy(list2, range2)
  <2>1. Position(h.list, id) \in 1 .. Len(h.list) /\ h.list[Position(h.list, id)] = id
    BY <1>5, PositionOf
  <2>2. \A x \in Ids(h.list) \ {id} : range2[x] = h.range[x]
    BY <1>4, <1>8, HeapParts
  <2> QED BY <1>5, <2>1, <2>2, TidyRemove DEF list2, Without
<1> QED BY <1>1, <1>3, <1>6, <1>8, <1>17, <1>18 DEF Deleted, Changes

\* range_shrink.
LEMMA ShrinkOK ==
  ASSUME NEW h, NEW o, HeapOK(h, o), NEW id \in Ids(h.list), NEW start \in Nat, NEW end \in Int
  PROVE  /\ HeapOK(range_shrink(h, id, start, end), o)
         /\ Changes(h, range_shrink(h, id, start, end), id)
         /\ range_shrink(h, id, start, end).list = h.list
         /\ range_shrink(h, id, start, end).range[id]
              = [pgstart |-> start, pgend |-> end, purged |-> h.range[id].purged]
<1> DEFINE r == h.range[id]
           s == [pgstart |-> start, pgend |-> end, purged |-> r.purged]
           range2 == [h.range EXCEPT ![id] = s]
           count2 == IF r.purged THEN h.count ELSE h.count - (range_size(r) - range_size(s))
<1>1. PICK h2 : h2 = range_shrink(h, id, start, end)
  OBVIOUS
<1>2. h2 = [list |-> h.list, range |-> range2, lru |-> h.lru, count |-> count2]
  BY <1>1 DEF range_shrink
<1>3. h2.list = h.list /\ h2.range = range2 /\ h2.lru = h.lru /\ h2.count = count2
  BY <1>2
<1>4. h \in Heaps
  BY DEF HeapOK
<1>5. /\ h.list \in Lists /\ h.range \in Tables /\ h.lru \in Lists /\ h.count \in Int
      /\ id \in RangeIds /\ r.purged \in BOOLEAN /\ Once(h.list) /\ Once(h.lru)
  BY <1>4, HeapParts DEF HeapOK
<1>6. s \in Ranges /\ s.purged = r.purged
  BY <1>5 DEF Ranges
<1> HIDE DEF s
<1>7. range2 \in Tables /\ range2[id] = s
  BY <1>5, <1>6 DEF Tables
<1>8. \A x \in RangeIds : x # id => range2[x] = h.range[x]
  BY <1>5 DEF Tables
<1>9. range_size(r) \in Int /\ range_size(s) \in Int
  BY <1>5, <1>7, SizeIsInt
<1>10. r.purged = FALSE => id \in Ids(h.lru)
  BY <1>5 DEF HeapOK
<1>11. r.purged = TRUE => id \notin Ids(h.lru)
  BY <1>5 DEF HeapOK
<1>12. Ids(h.lru) \subseteq RangeIds
  BY <1>4, HeapParts
<1>13. count2 \in Int /\ count2 = Total(range2, h.lru)
  <2>0. h.count = Total(h.range, h.lru)
    BY DEF HeapOK
  <2>1. CASE r.purged = TRUE
    <3>1. count2 = h.count
      BY <2>1
    <3> HIDE DEF count2, range2
    <3>2. \A x \in Ids(h.lru) : range_size(h.range[x]) = range_size(range2[x])
      BY <1>8, <1>11, <1>12, <2>1
    <3>3. Total(h.range, h.lru) = Total(range2, h.lru)
      BY <1>5, <1>7, <3>2, TotalFrame
    <3> QED BY <1>5, <2>0, <3>1, <3>3
  <2>2. CASE r.purged = FALSE
    <3>1. id \in Ids(h.lru) /\ count2 = h.count - (range_size(r) - range_size(s))
      BY <1>10, <2>2
    <3> HIDE DEF count2, range2
    <3> DEFINE rest == Without(h.lru, id)
    <3>2. /\ rest \in Lists /\ Ids(rest) = Ids(h.lru) \ {id}
          /\ Total(h.range, rest) = Total(h.range, h.lru) - range_size(r)
          /\ Total(range2, rest) = Total(range2, h.lru) - range_size(s)
      BY <1>5, <1>7, <3>1, WithoutExact
    <3>3. \A x \in Ids(rest) : range_size(h.range[x]) = range_size(range2[x])
      BY <1>8, <1>12, <3>2
    <3>4. Total(h.range, rest) = Total(range2, rest)
      BY <1>5, <1>7, <3>2, <3>3, TotalFrame
    <3>5. Total(range2, h.lru) \in Int
      BY <1>5, <1>7, <3>1, TotalRemove DEF Ids
    <3> HIDE DEF rest, r
    <3> QED BY <1>5, <1>9, <2>0, <3>1, <3>2, <3>4, <3>5
  <2> QED BY <1>5, <2>1, <2>2
<1> HIDE DEF range2, count2
<1>14. \A x \in RangeIds :
         x \in Ids(h.lru) <=> (x \in Ids(h.list) \cup o /\ range2[x].purged = FALSE)
  BY <1>6, <1>7, <1>8 DEF HeapOK
<1>15. h2 \in Heaps
  BY <1>2, <1>5, <1>7, <1>13 DEF Heaps
<1>16. HeapOK(h2, o)
  BY <1>3, <1>5, <1>13, <1>14, <1>15 DEF HeapOK
<1> QED BY <1>1, <1>3, <1>7, <1>8, <1>16 DEF Changes, s

\* What purged can be.
Flags == BOOLEAN

\* h2 is h with a range more.
Allocated(h, o, h2, id, p, purged, start, end) ==
  /\ HeapOK(h2, o) /\ Changes(h, h2, id)
  /\ h2.list = InsertAt(h.list, p, id) /\ Ids(h2.list) = Ids(h.list) \cup {id}
  /\ h2.range[id] = [pgstart |-> start, pgend |-> end, purged |-> purged]

\* range_alloc.
LEMMA AllocOK ==
  ASSUME NEW h, NEW o, HeapOK(h, o), NEW id \in RangeIds, id \notin Ids(h.list) \cup o,
         NEW p \in 1 .. Len(h.list) + 1, NEW purged \in Flags, NEW start \in Nat, NEW end \in Int
  PROVE  Allocated(h, o, range_alloc(h, id, p, purged, start, end), id, p, purged, start, end)
<1> DEFINE r == [pgstart |-> start, pgend |-> end, purged |-> purged]
           list2 == InsertAt(h.list, p, id)
           range2 == [h.range EXCEPT ![id] = r]
           lru2 == IF purged THEN h.lru ELSE Append(h.lru, id)
           count2 == IF purged THEN h.count ELSE h.count + range_size(r)
<1>0. purged \in BOOLEAN
  BY DEF Flags
<1>1. PICK h2 : h2 = range_alloc(h, id, p, purged, start, end)
  OBVIOUS
<1>2. h2 = [list |-> list2, range |-> range2, lru |-> lru2, count |-> count2]
  BY <1>1 DEF range_alloc
<1>3. h2.list = list2 /\ h2.range = range2 /\ h2.lru = lru2 /\ h2.count = count2
  BY <1>2
<1>4. h \in Heaps
  BY DEF HeapOK
<1>5. /\ h.list \in Lists /\ h.range \in Tables /\ h.lru \in Lists /\ h.count \in Int
      /\ Once(h.list) /\ Once(h.lru)
  BY <1>4, HeapParts DEF HeapOK
<1>6. list2 \in Lists /\ Once(list2) /\ Ids(list2) = Ids(h.list) \cup {id}
  BY <1>5, IdsInsert
<1>7. r \in Ranges /\ r.purged = purged
  BY <1>0 DEF Ranges
<1> HIDE DEF r
<1>8. range2 \in Tables /\ range2[id] = r
  BY <1>5, <1>7 DEF Tables
<1>9. \A x \in RangeIds : x # id => range2[x] = h.range[x]
  BY <1>5 DEF Tables
<1>10. range_size(r) \in Int
  BY <1>8, SizeIsInt
<1>11. id \notin Ids(h.lru) /\ Ids(h.lru) \subseteq RangeIds
  BY <1>4, HeapParts DEF HeapOK
<1>12. lru2 \in Lists /\ Once(lru2) /\ Ids(lru2) = IF purged THEN Ids(h.lru) ELSE Ids(h.lru) \cup {id}
  BY <1>0, <1>5, <1>11, IdsAppend
<1>13. count2 \in Int /\ count2 = Total(range2, lru2)
  <2>1. \A x \in Ids(h.lru) : range_size(h.range[x]) = range_size(range2[x])
    BY <1>9, <1>11
  <2>2. h.count = Total(range2, h.lru)
    <3> HIDE DEF range2
    <3>1. Total(h.range, h.lru) = Total(range2, h.lru)
      BY <1>5, <1>8, <2>1, TotalFrame
    <3> QED BY <3>1 DEF HeapOK
  <2>3. CASE purged = TRUE
    BY <1>5, <2>2, <2>3
  <2>4. CASE purged = FALSE
    <3>1. lru2 = Append(h.lru, id) /\ count2 = h.count + range_size(r)
      BY <2>4
    <3> HIDE DEF range2, lru2, count2
    <3>2. Total(range2, Append(h.lru, id)) = Total(range2, h.lru) + range_size(r)
      BY <1>5, <1>8, TotalAppend
    <3> QED BY <1>5, <1>10, <2>2, <3>1, <3>2
  <2> QED BY <1>0, <2>3, <2>4
<1> HIDE DEF range2, lru2, count2
<1>14. \A x \in RangeIds :
         x \in Ids(lru2) <=> (x \in Ids(list2) \cup o /\ range2[x].purged = FALSE)
  <2> SUFFICES ASSUME NEW x \in RangeIds
               PROVE  x \in Ids(lru2) <=> (x \in Ids(list2) \cup o /\ range2[x].purged = FALSE)
    OBVIOUS
  <2>1. CASE x = id
    <3>1. range2[x].purged = purged /\ x \in Ids(list2)
      BY <1>6, <1>7, <1>8, <2>1
    <3>2. x \in Ids(lru2) <=> purged = FALSE
      BY <1>0, <1>11, <1>12, <2>1
    <3> QED BY <3>1, <3>2
  <2>2. CASE x # id
    <3>1. x \in Ids(lru2) <=> x \in Ids(h.lru)
      BY <1>12, <2>2
    <3> QED BY <1>6, <1>9, <2>2, <3>1 DEF HeapOK
  <2> QED BY <2>1, <2>2
<1>15. h2 \in Heaps
  BY <1>2, <1>6, <1>8, <1>12, <1>13 DEF Heaps
<1>16. HeapOK(h2, o)
  <2>1. o \subseteq RangeIds /\ Ids(list2) \cap o = {}
    BY <1>6 DEF HeapOK
  <2> QED BY <1>3, <1>6, <1>12, <1>13, <1>14, <1>15, <2>1 DEF HeapOK
<1> QED BY <1>1, <1>3, <1>6, <1>8, <1>9, <1>16 DEF Allocated, Changes, r, list2

-----------------------------------------------------------------------------
(***************************************************************************)
(* Pages, and where the loops over a list stop.                            *)
(***************************************************************************)

\* Page p is in range id.
Covers(ranges, id, p) == ranges[id].pgstart <= p /\ p <= ranges[id].pgend

\* Page p is in a range of the area whose purged is one of w.
Holds(h, p, w) == \E id \in Ids(h.list) : Covers(h.range, id, p) /\ h.range[id].purged \in w

\* An interval of an area, which may be empty at its end.
Interval(start, end) == start \in Nat /\ end \in Int /\ start - 1 <= end /\ end <= Pages - 1

\* page_range_in_range finds any overlap.
LEMMA OverlapExact ==
  ASSUME NEW r \in Ranges, NEW start \in Nat, NEW end \in Int,
         r.pgstart <= r.pgend, start <= end
  PROVE  /\ page_range_in_range(r, start, end) <=> (r.pgstart <= end /\ start <= r.pgend)
         /\ range_before_page(r, start) <=> r.pgend < start
<1>1. r.pgstart \in Int /\ r.pgend \in Int
  BY DEF Ranges
<1> QED BY <1>1 DEF page_range_in_range, page_in_range, page_range_subsumes_range, range_before_page

\* The range at which a loop stops stops it.
Stops(list, ranges, start, end, i) ==
  \/ range_before_page(ranges[list[i]], start)
  \/ page_range_in_range(ranges[list[i]], start, end)

\* StopsAt is the first one that does.
LEMMA StopsAtFirst ==
  ASSUME NEW list \in Lists, NEW ranges, NEW start, NEW end
  PROVE  /\ StopsAt(list, ranges, start, end) \in 0 .. Len(list)
         /\ StopsAt(list, ranges, start, end) = 0 =>
              \A i \in 1 .. Len(list) : ~ Stops(list, ranges, start, end, i)
         /\ StopsAt(list, ranges, start, end) # 0 =>
              /\ Stops(list, ranges, start, end, StopsAt(list, ranges, start, end))
              /\ \A i \in 1 .. Len(list) :
                   i < StopsAt(list, ranges, start, end) => ~ Stops(list, ranges, start, end, i)
<1> DEFINE stops == {i \in 1 .. Len(list) : Stops(list, ranges, start, end, i)}
<1>1. Len(list) \in Nat
  BY DEF Lists
<1>2. StopsAt(list, ranges, start, end) = IF stops = {} THEN 0 ELSE Min(stops)
  BY Zenon DEF StopsAt, Stops
<1>3. stops \in SUBSET Nat
  BY <1>1
<1>4. stops # {} => Min(stops) \in stops /\ \A y \in stops : Min(stops) <= y
  <2> HIDE DEF stops
  <2> SUFFICES ASSUME stops # {} PROVE Min(stops) \in stops /\ \A y \in stops : Min(stops) <= y
    OBVIOUS
  <2>1. \E x \in stops : \A y \in stops : x <= y
    BY <1>3, LeastElement
  <2> QED BY <2>1, Zenon DEF Min
<1>5. CASE stops = {}
  <2>1. StopsAt(list, ranges, start, end) = 0
    BY <1>2, <1>5
  <2>2. \A i \in 1 .. Len(list) : ~ Stops(list, ranges, start, end, i)
    BY <1>5
  <2> QED BY <1>1, <2>1, <2>2
<1>6. CASE stops # {}
  <2>1. PICK x : x = Min(stops)
    OBVIOUS
  <2>2. StopsAt(list, ranges, start, end) = x /\ x \in stops /\ \A y \in stops : x <= y
    BY <1>2, <1>4, <1>6, <2>1
  <2>3. x \in 1 .. Len(list) /\ Stops(list, ranges, start, end, x)
    BY <2>2
  <2>4. \A i \in 1 .. Len(list) : i < x => ~ Stops(list, ranges, start, end, i)
    <3>1. \A i \in 1 .. Len(list) : i < x => ~ (x <= i)
      BY <1>1, <2>3
    <3> QED BY <2>2, <3>1
  <2> QED BY <1>1, <2>2, <2>3, <2>4
<1> QED BY <1>5, <1>6

-----------------------------------------------------------------------------
(***************************************************************************)
(* The loop of ashmem_pin.                                                 *)
(***************************************************************************)
Pins == [heap : Heaps, told : BOOLEAN, stop : BOOLEAN, hole : SUBSET RangeIds]

\* After k ranges of the list of h0 the heap is exact, other areas are left alone,
\* and so are the ranges still to come.
PinOK(h0, o, k, m) ==
  /\ m \in Pins /\ HeapOK(m.heap, o)
  /\ \A x \in o : m.heap.range[x] = h0.range[x]
  /\ Ids(m.heap.list) \subseteq Ids(h0.list)
  /\ m.hole \subseteq Ids(m.heap.list)
  /\ \A i \in 1 .. Len(h0.list) : i > k =>
       h0.list[i] \in Ids(m.heap.list) /\ m.heap.range[h0.list[i]] = h0.range[h0.list[i]]

\* What a turn does to the other ranges and to its own.
LeavesOthers(h, h2, id) ==
  \A x \in RangeIds : x # id => /\ h2.range[x] = h.range[x]
                                /\ x \in Ids(h2.list) <=> x \in Ids(h.list)

PinCase(acc, id, s, e, m) ==
  LET r == acc.heap.range[id]
      r2 == m.heap.range[id]
  IN  \/ /\ acc.stop = TRUE \/ r.pgend < s
         /\ m.heap = acc.heap /\ m.told = acc.told /\ m.stop = TRUE /\ m.hole = acc.hole
      \/ /\ acc.stop = FALSE /\ ~ (r.pgend < s) /\ ~ page_range_in_range(r, s, e)
         /\ m = acc
      \/ /\ acc.stop = FALSE /\ ~ (r.pgend < s) /\ page_range_in_range(r, s, e)
         /\ m.told = FALSE <=> (acc.told = FALSE /\ r.purged = FALSE)
         /\ \/ /\ m.stop = FALSE /\ m.hole = {} /\ id \notin Ids(m.heap.list)
               /\ r.pgstart >= s /\ r.pgend <= e
               /\ Tidy(acc.heap.list, acc.heap.range) => Tidy(m.heap.list, m.heap.range)
            \/ /\ m.stop = FALSE /\ m.hole = {} /\ m.heap.list = acc.heap.list
               /\ r.pgstart >= s /\ r.pgend > e
               /\ r2.pgstart = e + 1 /\ r2.pgend = r.pgend /\ r2.purged = r.purged
            \/ /\ m.stop = FALSE /\ m.hole = {} /\ m.heap.list = acc.heap.list
               /\ r.pgstart < s /\ r.pgend <= e
               /\ r2.pgstart = r.pgstart /\ r2.pgend = s - 1 /\ r2.purged = r.purged
            \/ /\ m.stop = TRUE /\ m.hole = {id} /\ m.heap = acc.heap
               /\ r.pgstart < s /\ r.pgend > e

\* Each turn is one of these.
LEMMA PinTurn ==
  ASSUME NEW o, NEW acc \in Pins, HeapOK(acc.heap, o), NEW id \in Ids(acc.heap.list),
         NEW s \in Nat, NEW e \in Int, e >= -1
  PROVE  /\ PinStep(acc, id, s, e) \in Pins
         /\ HeapOK(PinStep(acc, id, s, e).heap, o)
         /\ LeavesOthers(acc.heap, PinStep(acc, id, s, e).heap, id)
         /\ PinCase(acc, id, s, e, PinStep(acc, id, s, e))
<1> DEFINE r == acc.heap.range[id]
           Overlap(h) == [heap |-> h, told |-> acc.told \/ r.purged, stop |-> FALSE, hole |-> {}]
<1>1. PICK m : m = PinStep(acc, id, s, e)
  OBVIOUS
<1>2. /\ acc.heap \in Heaps /\ acc.told \in BOOLEAN /\ acc.stop \in BOOLEAN /\ acc.hole \subseteq RangeIds
      /\ id \in RangeIds /\ r \in Ranges /\ r.pgstart \in Nat /\ r.pgend \in Int /\ r.purged \in BOOLEAN
  <2>1. acc.heap \in Heaps /\ acc.told \in BOOLEAN /\ acc.stop \in BOOLEAN /\ acc.hole \subseteq RangeIds
    BY DEF Pins
  <2> QED BY <2>1, HeapParts
<1>3. CASE acc.stop \/ range_before_page(r, s)
  <2>1. m = [acc EXCEPT !.stop = TRUE]
    BY <1>1, <1>3 DEF PinStep
  <2>2. m.heap = acc.heap /\ m.told = acc.told /\ m.stop = TRUE /\ m.hole = acc.hole /\ m \in Pins
    BY <2>1 DEF Pins
  <2>3. acc.stop = TRUE \/ r.pgend < s
    BY <1>2, <1>3 DEF range_before_page
  <2> QED BY <1>1, <2>2, <2>3 DEF LeavesOthers, PinCase
<1>4. CASE ~ (acc.stop \/ range_before_page(r, s))
  <2>0. acc.stop = FALSE /\ ~ (r.pgend < s)
    BY <1>2, <1>4 DEF range_before_page
  <2>1. CASE ~ page_range_in_range(r, s, e)
    <3>1. m = acc
      BY <1>1, <1>4, <2>1 DEF PinStep
    <3> QED BY <1>1, <2>0, <2>1, <3>1 DEF LeavesOthers, PinCase
  <2>2. CASE page_range_in_range(r, s, e)
    <3>1. (acc.told \/ r.purged) \in BOOLEAN
      BY <1>2
    <3>2. (acc.told \/ r.purged) = FALSE <=> (acc.told = FALSE /\ r.purged = FALSE)
      BY <1>2
    <3>3. CASE page_range_subsumes_range(r, s, e)
      <4>1. PICK h : h = range_del(acc.heap, id)
        OBVIOUS
      <4>2. m = Overlap(h)
        BY <1>1, <1>4, <2>2, <3>3, <4>1 DEF PinStep
      <4>3. /\ HeapOK(h, o) /\ Changes(acc.heap, h, id)
            /\ Ids(h.list) = Ids(acc.heap.list) \ {id}
            /\ Tidy(acc.heap.list, acc.heap.range) => Tidy(h.list, h.range)
        <5>1. Deleted(acc.heap, o, h, id)
          BY <4>1, DelOK
        <5> QED BY <5>1 DEF Deleted
      <4>4. /\ m.heap = h /\ m.told = (acc.told \/ r.purged) /\ m.stop = FALSE /\ m.hole = {} /\ m \in Pins
        BY <3>1, <4>2, <4>3 DEF Pins, HeapOK
      <4>5. r.pgstart >= s /\ r.pgend <= e
        BY <3>3 DEF page_range_subsumes_range
      <4>6. PinCase(acc, id, s, e, m)
        BY <2>0, <2>2, <3>2, <4>3, <4>4, <4>5 DEF PinCase
      <4> QED BY <1>1, <4>3, <4>4, <4>6 DEF LeavesOthers, Changes
    <3>4. CASE ~ page_range_subsumes_range(r, s, e) /\ r.pgstart >= s
      <4>1. PICK h : h = range_shrink(acc.heap, id, e + 1, r.pgend)
        OBVIOUS
      <4>2. m = Overlap(h)
        BY <1>1, <1>4, <2>2, <3>4, <4>1 DEF PinStep
      <4>3. /\ HeapOK(h, o) /\ Changes(acc.heap, h, id) /\ h.list = acc.heap.list
            /\ h.range[id] = [pgstart |-> e + 1, pgend |-> r.pgend, purged |-> r.purged]
        <5>1. e + 1 \in Nat /\ r.pgend \in Int
          BY <1>2
        <5> QED BY <4>1, <5>1, ShrinkOK
      <4>4. /\ m.heap = h /\ m.told = (acc.told \/ r.purged) /\ m.stop = FALSE /\ m.hole = {} /\ m \in Pins
        BY <3>1, <4>2, <4>3 DEF Pins, HeapOK
      <4>5. r.pgend > e
        BY <1>2, <3>4 DEF page_range_subsumes_range
      <4>6. PinCase(acc, id, s, e, m)
        <5>1. /\ m.heap.range[id].pgstart = e + 1 /\ m.heap.range[id].pgend = r.pgend
              /\ m.heap.range[id].purged = r.purged /\ m.heap.list = acc.heap.list
          BY <4>3, <4>4
        <5>2. m.told = FALSE <=> (acc.told = FALSE /\ r.purged = FALSE)
          BY <3>2, <4>4
        <5> QED BY <2>0, <2>2, <3>4, <4>4, <4>5, <5>1, <5>2 DEF PinCase
      <4> QED BY <1>1, <4>3, <4>4, <4>6 DEF LeavesOthers, Changes
    <3>5. CASE ~ (r.pgstart >= s) /\ r.pgend <= e
      <4>0. ~ page_range_subsumes_range(r, s, e)
        BY <3>5 DEF page_range_subsumes_range
      <4>1. PICK h : h = range_shrink(acc.heap, id, r.pgstart, s - 1)
        OBVIOUS
      <4>2. m = Overlap(h)
        BY <1>1, <1>4, <2>2, <3>5, <4>0, <4>1 DEF PinStep
      <4>3. /\ HeapOK(h, o) /\ Changes(acc.heap, h, id) /\ h.list = acc.heap.list
            /\ h.range[id] = [pgstart |-> r.pgstart, pgend |-> s - 1, purged |-> r.purged]
        <5>1. r.pgstart \in Nat /\ s - 1 \in Int
          BY <1>2
        <5> QED BY <4>1, <5>1, ShrinkOK
      <4>4. /\ m.heap = h /\ m.told = (acc.told \/ r.purged) /\ m.stop = FALSE /\ m.hole = {} /\ m \in Pins
        BY <3>1, <4>2, <4>3 DEF Pins, HeapOK
      <4>5. r.pgstart < s
        BY <1>2, <3>5
      <4>6. PinCase(acc, id, s, e, m)
        <5>1. /\ m.heap.range[id].pgstart = r.pgstart /\ m.heap.range[id].pgend = s - 1
              /\ m.heap.range[id].purged = r.purged /\ m.heap.list = acc.heap.list
          BY <4>3, <4>4
        <5>2. m.told = FALSE <=> (acc.told = FALSE /\ r.purged = FALSE)
          BY <3>2, <4>4
        <5> QED BY <2>0, <2>2, <3>5, <4>4, <4>5, <5>1, <5>2 DEF PinCase
      <4> QED BY <1>1, <4>3, <4>4, <4>6 DEF LeavesOthers, Changes
    <3>6. CASE ~ (r.pgstart >= s) /\ ~ (r.pgend <= e)
      <4>0. ~ page_range_subsumes_range(r, s, e)
        BY <3>6 DEF page_range_subsumes_range
      <4>2. m = [heap |-> acc.heap, told |-> acc.told \/ r.purged, stop |-> TRUE, hole |-> {id}]
        BY <1>1, <1>4, <2>2, <3>6, <4>0 DEF PinStep
      <4>4. /\ m.heap = acc.heap /\ m.told = (acc.told \/ r.purged) /\ m.stop = TRUE /\ m.hole = {id} /\ m \in Pins
        BY <1>2, <3>1, <4>2 DEF Pins
      <4>5. r.pgstart < s /\ r.pgend > e
        BY <1>2, <3>6
      <4>6. PinCase(acc, id, s, e, m)
        BY <2>0, <2>2, <3>2, <4>4, <4>5 DEF PinCase
      <4> QED BY <1>1, <4>4, <4>6 DEF LeavesOthers
    <3> QED BY <3>3, <3>4, <3>5, <3>6
  <2> QED BY <2>1, <2>2
<1> QED BY <1>3, <1>4

\* A turn keeps the heap exact.
LEMMA PinKeepsOK ==
  ASSUME NEW h0, NEW o, HeapOK(h0, o), NEW k \in 1 .. Len(h0.list), NEW acc, PinOK(h0, o, k - 1, acc),
         NEW s \in Nat, NEW e \in Int, e >= -1
  PROVE  PinOK(h0, o, k, PinStep(acc, h0.list[k], s, e))
<1>1. PICK id : id = h0.list[k]
  OBVIOUS
<1>2. PICK m : m = PinStep(acc, h0.list[k], s, e)
  OBVIOUS
<1>3. acc \in Pins /\ HeapOK(acc.heap, o) /\ acc.heap \in Heaps /\ h0 \in Heaps /\ Len(h0.list) \in Nat
  BY HeapParts DEF PinOK, HeapOK, Heaps, Lists
<1>4. id \in Ids(acc.heap.list) /\ acc.heap.range[id] = h0.range[id]
  <2>1. k > k - 1
    BY <1>3
  <2> QED BY <1>1, <2>1 DEF PinOK
<1>5. /\ m \in Pins /\ HeapOK(m.heap, o) /\ LeavesOthers(acc.heap, m.heap, id)
      /\ PinCase(acc, id, s, e, m)
  BY <1>1, <1>2, <1>3, <1>4, PinTurn
<1>6. /\ Ids(acc.heap.list) \subseteq RangeIds /\ Ids(h0.list) \subseteq RangeIds
      /\ Ids(m.heap.list) \subseteq RangeIds
      /\ o \subseteq RangeIds /\ id \in Ids(h0.list) /\ id \notin o
  <2>1. m.heap \in Heaps
    BY <1>5 DEF HeapOK
  <2>2. id \in Ids(h0.list)
    BY <1>1 DEF Ids
  <2> QED BY <1>3, <2>1, <2>2, HeapParts DEF HeapOK
<1>7. \A x \in o : m.heap.range[x] = h0.range[x]
  BY <1>5, <1>6 DEF LeavesOthers, PinOK
<1>8. Ids(m.heap.list) \subseteq Ids(h0.list)
  <2> SUFFICES ASSUME NEW x \in Ids(m.heap.list) PROVE x \in Ids(h0.list)
    OBVIOUS
  <2>1. x = id \/ x \in Ids(acc.heap.list)
    BY <1>5, <1>6 DEF LeavesOthers
  <2> QED BY <1>6, <2>1 DEF PinOK
<1>9. m.hole \subseteq Ids(m.heap.list)
  <2>1. \/ m.heap = acc.heap /\ m.hole = acc.hole
        \/ m.hole = {}
        \/ m.heap = acc.heap /\ m.hole = {id}
    BY <1>5 DEF PinCase
  <2> QED BY <1>4, <2>1 DEF PinOK
<1>10. ASSUME NEW i \in 1 .. Len(h0.list), i > k
       PROVE  h0.list[i] \in Ids(m.heap.list) /\ m.heap.range[h0.list[i]] = h0.range[h0.list[i]]
  <2>1. i > k - 1 /\ i # k
    BY <1>3, <1>10
  <2>2. h0.list[i] # id
    BY <1>1, <2>1 DEF HeapOK, Once
  <2>3. h0.list[i] \in Ids(acc.heap.list) /\ acc.heap.range[h0.list[i]] = h0.range[h0.list[i]]
    BY <2>1 DEF PinOK
  <2>4. h0.list[i] \in RangeIds
    BY <1>6, <2>3
  <2> QED BY <1>5, <2>2, <2>3, <2>4 DEF LeavesOthers
<1> QED BY <1>2, <1>5, <1>7, <1>8, <1>9, <1>10 DEF PinOK

\* What has become of a range of the list: only the pages that are not pinned are
\* left of it, unless it is the one with a hole, which is still to be cut.
Cut(h0, s, e, m, x) ==
  /\ x \in m.hole => /\ m.heap.range[x] = h0.range[x]
                     /\ h0.range[x].pgstart < s /\ e < h0.range[x].pgend
  /\ x \notin m.hole => \A p \in Int : (x \in Ids(m.heap.list) /\ Covers(m.heap.range, x, p))
                                         <=> (Covers(h0.range, x, p) /\ p \notin s .. e)
  /\ x \in Ids(m.heap.list) => m.heap.range[x].purged = h0.range[x].purged

\* This is so after k ranges of the list of h0, and the user is told of any of
\* them that was purged and overlaps.
PinExact(h0, s, e, k, m) ==
  /\ Tidy(m.heap.list, m.heap.range)
  /\ m.hole # {} => m.stop = TRUE
  /\ \A x, y \in m.hole : x = y
  /\ \A i \in 1 .. Len(h0.list) : i > k => h0.list[i] \notin m.hole
  /\ \A i \in 1 .. Len(h0.list) : i <= k =>
       /\ Cut(h0, s, e, m, h0.list[i])
       /\ m.told = FALSE /\ h0.range[h0.list[i]].purged = TRUE =>
            \A p \in s .. e : ~ Covers(h0.range, h0.list[i], p)
  /\ m.stop = TRUE => \A i \in 1 .. Len(h0.list) : i > k => h0.range[h0.list[i]].pgend < s

\* A turn keeps to that.
LEMMA PinKeepsExact ==
  ASSUME PagesAssumption, NEW h0, NEW o, HeapOK(h0, o), Tidy(h0.list, h0.range),
         NEW k \in 1 .. Len(h0.list), NEW acc, PinOK(h0, o, k - 1, acc),
         NEW s \in Nat, NEW e \in Int, s <= e, PinExact(h0, s, e, k - 1, acc)
  PROVE  PinExact(h0, s, e, k, PinStep(acc, h0.list[k], s, e))
<1>1. PICK id : id = h0.list[k]
  OBVIOUS
<1>2. PICK m : m = PinStep(acc, h0.list[k], s, e)
  OBVIOUS
<1>3. acc \in Pins /\ HeapOK(acc.heap, o) /\ acc.heap \in Heaps /\ h0 \in Heaps /\ Len(h0.list) \in Nat
  BY HeapParts DEF PinOK, HeapOK, Heaps, Lists
<1>4. id \in Ids(acc.heap.list) /\ acc.heap.range[id] = h0.range[id]
  <2>1. k > k - 1
    BY <1>3
  <2> QED BY <1>1, <2>1 DEF PinOK
<1>5. /\ m \in Pins /\ HeapOK(m.heap, o) /\ LeavesOthers(acc.heap, m.heap, id)
      /\ PinCase(acc, id, s, e, m)
  <2>1. e >= -1
    OBVIOUS
  <2> QED BY <1>1, <1>2, <1>3, <1>4, <2>1, PinTurn
<1>6. /\ Ids(acc.heap.list) \subseteq RangeIds /\ Ids(h0.list) \subseteq RangeIds
      /\ m.heap \in Heaps /\ id \in Ids(h0.list) /\ id \in RangeIds
      /\ acc.hole \subseteq Ids(acc.heap.list)
  <2>1. m.heap \in Heaps
    BY <1>5 DEF HeapOK
  <2>2. id \in Ids(h0.list)
    BY <1>1 DEF Ids
  <2> QED BY <1>3, <2>1, <2>2, HeapParts DEF PinOK
<1> DEFINE r == h0.range[id]
           r2 == m.heap.range[id]
<1>7. /\ r \in Ranges /\ r.pgstart \in Nat /\ r.pgend \in Int /\ r.purged \in BOOLEAN
      /\ r.pgstart <= r.pgend
  BY <1>3, <1>6, HeapParts DEF Tidy
<1>8. page_range_in_range(r, s, e) <=> (r.pgstart <= e /\ s <= r.pgend)
  BY <1>7, OverlapExact
<1>9. acc.stop = TRUE => r.pgend < s
  <2>1. k > k - 1
    BY <1>3
  <2> QED BY <1>1, <2>1 DEF PinExact
\* The turn in the words of h0.
<1>10. \/ /\ m.heap = acc.heap /\ m.told = acc.told /\ m.hole = acc.hole
          /\ m.stop = TRUE /\ r.pgend < s
       \/ /\ m.heap = acc.heap /\ m.told = acc.told /\ m.hole = acc.hole
          /\ m.stop = FALSE /\ e < r.pgstart
       \/ /\ acc.stop = FALSE /\ m.stop = FALSE /\ m.hole = {}
          /\ m.told = FALSE => acc.told = FALSE /\ r.purged = FALSE
          /\ id \notin Ids(m.heap.list) /\ r.pgstart >= s /\ r.pgend <= e
          /\ Tidy(acc.heap.list, acc.heap.range) => Tidy(m.heap.list, m.heap.range)
       \/ /\ acc.stop = FALSE /\ m.stop = FALSE /\ m.hole = {}
          /\ m.told = FALSE => acc.told = FALSE /\ r.purged = FALSE
          /\ m.heap.list = acc.heap.list /\ r.pgstart >= s /\ r.pgstart <= e /\ r.pgend > e
          /\ r2.pgstart = e + 1 /\ r2.pgend = r.pgend /\ r2.purged = r.purged
       \/ /\ acc.stop = FALSE /\ m.stop = FALSE /\ m.hole = {}
          /\ m.told = FALSE => acc.told = FALSE /\ r.purged = FALSE
          /\ m.heap.list = acc.heap.list /\ r.pgstart < s /\ r.pgend >= s /\ r.pgend <= e
          /\ r2.pgstart = r.pgstart /\ r2.pgend = s - 1 /\ r2.purged = r.purged
       \/ /\ acc.stop = FALSE /\ m.stop = TRUE /\ m.hole = {id} /\ m.heap = acc.heap
          /\ m.told = FALSE => acc.told = FALSE /\ r.purged = FALSE
          /\ r.pgstart < s /\ r.pgend > e
  <2>1. acc.heap.range[id] = r
    BY <1>4
  <2> HIDE DEF r, r2
  <2> QED BY <1>5, <1>7, <1>8, <1>9, <2>1 DEF PinCase, r2
<1>11. \A x \in RangeIds : x # id => /\ m.heap.range[x] = acc.heap.range[x]
                                     /\ x \in Ids(m.heap.list) <=> x \in Ids(acc.heap.list)
  BY <1>5 DEF LeavesOthers
<1>12. Tidy(m.heap.list, m.heap.range)
  <2>1. Tidy(acc.heap.list, acc.heap.range)
    BY DEF PinExact
  <2>2. CASE /\ m.heap.list = acc.heap.list
             /\ r.pgstart <= r2.pgstart /\ r2.pgstart <= r2.pgend /\ r2.pgend <= r.pgend
    <3>1. acc.heap.list \in Lists /\ acc.heap.range \in Tables /\ m.heap.range \in Tables
      BY <1>3, <1>6, HeapParts
    <3>2. \A x \in Ids(acc.heap.list) :
            /\ m.heap.range[x].pgstart <= m.heap.range[x].pgend
            /\ acc.heap.range[x].pgstart <= m.heap.range[x].pgstart
            /\ m.heap.range[x].pgend <= acc.heap.range[x].pgend
      <4> SUFFICES ASSUME NEW x \in Ids(acc.heap.list)
                   PROVE  /\ m.heap.range[x].pgstart <= m.heap.range[x].pgend
                          /\ acc.heap.range[x].pgstart <= m.heap.range[x].pgstart
                          /\ m.heap.range[x].pgend <= acc.heap.range[x].pgend
        OBVIOUS
      <4>1. CASE x = id
        BY <1>4, <2>2, <4>1
      <4>2. CASE x # id
        <5>1. x \in RangeIds /\ m.heap.range[x] = acc.heap.range[x]
          BY <1>6, <1>11, <4>2
        <5>2. acc.heap.range[x].pgstart \in Nat /\ acc.heap.range[x].pgend \in Int
          BY <1>3, <5>1, HeapParts
        <5>3. acc.heap.range[x].pgstart <= acc.heap.range[x].pgend
          BY <2>1 DEF Tidy
        <5> QED BY <5>1, <5>2, <5>3
      <4> QED BY <4>1, <4>2
    <3> QED BY <2>1, <2>2, <3>1, <3>2, TidyShrink
  <2>3. CASE m.heap = acc.heap
    BY <2>1, <2>3
  <2>4. \/ m.heap = acc.heap
        \/ Tidy(m.heap.list, m.heap.range)
        \/ /\ m.heap.list = acc.heap.list
           /\ r.pgstart <= r2.pgstart /\ r2.pgstart <= r2.pgend /\ r2.pgend <= r.pgend
    <3> HIDE DEF r, r2
    <3> QED BY <1>7, <1>10, <2>1
  <2> QED BY <2>2, <2>3, <2>4
<1>13. /\ m.hole # {} => m.stop = TRUE
       /\ \A x, y \in m.hole : x = y
  <2>1. /\ acc.hole # {} => acc.stop = TRUE
        /\ \A x, y \in acc.hole : x = y
    BY DEF PinExact
  <2>2. \/ m.hole = acc.hole /\ m.stop = TRUE
        \/ m.hole = acc.hole /\ m.hole = {}
        \/ m.hole = {}
        \/ m.hole = {id} /\ m.stop = TRUE
    <3>1. acc.stop = FALSE => acc.hole = {}
      BY <2>1
    <3>2. m.heap = acc.heap /\ m.stop = FALSE /\ m.hole = acc.hole => acc.stop = FALSE
      <4>1. acc.stop \in BOOLEAN
        BY <1>3 DEF Pins
      <4>2. m.stop = FALSE => ~ (r.pgend < s) \/ acc.stop = FALSE
        BY <1>10, <1>9, <1>7
      <4> QED BY <1>9, <4>1, <4>2
    <3> QED BY <1>10, <3>1, <3>2
  <2> QED BY <2>1, <2>2
\* The range of the turn.
<1>14. id \notin acc.hole
  <2>1. k > k - 1
    BY <1>3
  <2> QED BY <1>1, <2>1 DEF PinExact
<1>15. Cut(h0, s, e, m, id)
  <2>1. id \in m.hole => m.heap.range[id] = r /\ r.pgstart < s /\ e < r.pgend
    BY <1>4, <1>10, <1>14
  <2>2. id \in Ids(m.heap.list) => r2.purged = r.purged
    BY <1>4, <1>10
  <2>3. ASSUME id \notin m.hole, NEW p \in Int
        PROVE  (id \in Ids(m.heap.list) /\ Covers(m.heap.range, id, p))
                 <=> (Covers(h0.range, id, p) /\ p \notin s .. e)
    <3>1. \/ id \in Ids(m.heap.list) /\ r2 = r /\ r.pgend < s
          \/ id \in Ids(m.heap.list) /\ r2 = r /\ e < r.pgstart
          \/ id \notin Ids(m.heap.list) /\ r.pgstart >= s /\ r.pgend <= e
          \/ /\ id \in Ids(m.heap.list) /\ r.pgstart >= s /\ r.pgstart <= e /\ r.pgend > e
             /\ r2.pgstart = e + 1 /\ r2.pgend = r.pgend
          \/ /\ id \in Ids(m.heap.list) /\ r.pgstart < s /\ r.pgend >= s /\ r.pgend <= e
             /\ r2.pgstart = r.pgstart /\ r2.pgend = s - 1
      BY <1>4, <1>10, <2>3
    <3> HIDE DEF r, r2
    <3>2. (id \in Ids(m.heap.list) /\ r2.pgstart <= p /\ p <= r2.pgend)
            <=> (r.pgstart <= p /\ p <= r.pgend /\ ~ (s <= p /\ p <= e))
      BY <1>7, <3>1
    <3>3. p \in s .. e <=> (s <= p /\ p <= e)
      OBVIOUS
    <3> QED BY <3>2, <3>3 DEF Covers, r, r2
  <2> QED BY <2>1, <2>2, <2>3 DEF Cut
<1>16. m.told = FALSE /\ r.purged = TRUE => \A p \in s .. e : ~ Covers(h0.range, id, p)
  <2>1. m.told = FALSE /\ r.purged = TRUE => r.pgend < s \/ e < r.pgstart
    BY <1>10
  <2> HIDE DEF r
  <2>2. r.pgend < s \/ e < r.pgstart => \A p \in s .. e : ~ (r.pgstart <= p /\ p <= r.pgend)
    BY <1>7
  <2> QED BY <2>1, <2>2 DEF Covers, r
\* The ranges before it.
<1>17. ASSUME NEW i \in 1 .. Len(h0.list), i < k
       PROVE  /\ Cut(h0, s, e, m, h0.list[i])
              /\ m.told = FALSE /\ h0.range[h0.list[i]].purged = TRUE =>
                   \A p \in s .. e : ~ Covers(h0.range, h0.list[i], p)
  <2>1. PICK x : x = h0.list[i]
    OBVIOUS
  <2>2. i <= k - 1 /\ i # k
    BY <1>3, <1>17
  <2>3. x # id /\ x \in RangeIds
    <3>1. x \in Ids(h0.list)
      BY <2>1 DEF Ids
    <3> QED BY <1>1, <1>6, <2>1, <2>2, <3>1 DEF HeapOK, Once
  <2>4. /\ Cut(h0, s, e, acc, x)
        /\ acc.told = FALSE /\ h0.range[x].purged = TRUE => \A p \in s .. e : ~ Covers(h0.range, x, p)
    BY <2>1, <2>2 DEF PinExact
  <2>5. m.heap.range[x] = acc.heap.range[x] /\ (x \in Ids(m.heap.list) <=> x \in Ids(acc.heap.list))
    BY <1>11, <2>3
  <2>6. x \in m.hole <=> x \in acc.hole
    <3>1. acc.stop = FALSE => acc.hole = {}
      BY DEF PinExact
    <3> QED BY <1>10, <2>3, <3>1
  <2>7. m.told = FALSE => acc.told = FALSE
    BY <1>10
  <2>8. \A p : Covers(m.heap.range, x, p) <=> Covers(acc.heap.range, x, p)
    BY <2>5 DEF Covers
  <2> QED BY <2>1, <2>4, <2>5, <2>6, <2>7, <2>8 DEF Cut
\* The ranges after it.
<1>18. ASSUME NEW i \in 1 .. Len(h0.list), i > k
       PROVE  h0.list[i] \notin m.hole /\ (m.stop = TRUE => h0.range[h0.list[i]].pgend < s)
  <2>1. i > k - 1 /\ i # k
    BY <1>3, <1>18
  <2>2. h0.list[i] # id /\ h0.list[i] \notin acc.hole
    BY <1>1, <2>1 DEF HeapOK, Once, PinExact
  <2>3. h0.list[i] \in RangeIds
    <3>1. h0.list[i] \in Ids(h0.list)
      BY DEF Ids
    <3> QED BY <1>6, <3>1
  <2>4. h0.range[h0.list[i]].pgend \in Int
    BY <1>3, <2>3, HeapParts
  <2>5. h0.range[h0.list[i]].pgend < r.pgstart
    BY <1>1, <1>18 DEF Tidy
  <2>6. m.stop = TRUE => r.pgstart < s
    BY <1>7, <1>10
  <2>7. h0.list[i] \notin m.hole
    <3> HIDE DEF r, r2
    <3> QED BY <1>10, <2>2
  <2>8. PICK x, y : x = h0.range[h0.list[i]].pgend /\ y = r.pgstart
    OBVIOUS
  <2>9. x \in Int /\ y \in Int /\ x < y /\ (m.stop = TRUE => y < s)
    BY <1>7, <2>4, <2>5, <2>6, <2>8
  <2>10. m.stop = TRUE => x < s
    BY <2>9
  <2> QED BY <2>7, <2>8, <2>10
<1>19. \A i \in 1 .. Len(h0.list) : i <= k => i < k \/ i = k
  BY <1>3
<1> HIDE DEF r, r2
<1>20. \A i \in 1 .. Len(h0.list) : i <= k =>
         /\ Cut(h0, s, e, m, h0.list[i])
         /\ m.told = FALSE /\ h0.range[h0.list[i]].purged = TRUE =>
              \A p \in s .. e : ~ Covers(h0.range, h0.list[i], p)
  BY <1>1, <1>15, <1>16, <1>17, <1>19 DEF r
<1> QED BY <1>2, <1>12, <1>13, <1>18, <1>20 DEF PinExact

\* What is kept by every turn holds after the loop.
LEMMA PinLoopExact ==
  ASSUME PagesAssumption, NEW a, NEW o, HeapOK(Heap(a), o), NEW s, NEW e, Interval(s, e)
  PROVE  /\ PinOK(Heap(a), o, Len(unpinned_list[a]), PinLoop(a, s, e))
         /\ Tidy(unpinned_list[a], range) /\ s <= e =>
              PinExact(Heap(a), s, e, Len(unpinned_list[a]), PinLoop(a, s, e))
<1> DEFINE list == unpinned_list[a]
           h0 == Heap(a)
           N == Len(list)
           ordered == Tidy(list, range) /\ s <= e
           first == [heap |-> h0, told |-> FALSE, stop |-> FALSE, hole |-> {}]
           IsAfter(g) == g = [k \in 0 .. Len(list) |->
                                IF k = 0 THEN [heap |-> Heap(a), told |-> FALSE, stop |-> FALSE, hole |-> {}]
                                ELSE PinStep(g[k - 1], list[k], s, e)]
           after == CHOOSE g : IsAfter(g)
           c == [x \in (1 .. N) \X Pins |-> PinStep(x[2], list[x[1]], s, e)]
           H == {x \in (0 .. N) \X Pins : /\ PinOK(h0, o, x[1], x[2])
                                          /\ ordered => PinExact(h0, s, e, x[1], x[2])}
<1>1. PinLoop(a, s, e) = after[Len(list)]
  BY Zenon DEF PinLoop
<1>2. /\ h0.list = list /\ h0.range = range /\ h0 \in Heaps /\ list \in Lists /\ N \in Nat
      /\ s \in Nat /\ e \in Int /\ e >= -1
  <2>1. h0.list = list /\ h0.range = range
    BY DEF Heap
  <2>2. h0 \in Heaps
    BY DEF HeapOK
  <2>3. list \in Lists
    BY <2>1, <2>2, HeapParts
  <2> HIDE DEF h0
  <2>4. N \in Nat
    BY <2>3 DEF Lists
  <2>5. s \in Nat /\ e \in Int /\ e >= -1
    BY DEF Interval, PagesAssumption
  <2> QED BY <2>1, <2>2, <2>3, <2>4, <2>5
<1> HIDE DEF h0, list
<1>3. \A i : \A v : <<i, v>> \in H <=> /\ i \in 0 .. N /\ v \in Pins /\ PinOK(h0, o, i, v)
                                       /\ ordered => PinExact(h0, s, e, i, v)
  OBVIOUS
<1>4. H \subseteq (0 .. N) \X Pins
  OBVIOUS
<1> HIDE DEF H
<1>5. <<0, first>> \in H
  <2>1. /\ first \in Pins /\ first.heap = h0 /\ first.told = FALSE /\ first.stop = FALSE /\ first.hole = {}
    BY <1>2 DEF Pins
  <2> HIDE DEF first
  <2>2. PinOK(h0, o, 0, first)
    <3>1. \A i \in 1 .. Len(h0.list) : h0.list[i] \in Ids(h0.list)
      BY DEF Ids
    <3> QED BY <2>1, <3>1 DEF PinOK, h0
  <2>3. \A i \in 1 .. Len(h0.list) : ~ (i <= 0)
    BY <1>2
  <2>4. ordered => PinExact(h0, s, e, 0, first)
    BY <1>2, <2>1, <2>3 DEF PinExact
  <2> QED BY <1>2, <1>3, <2>1, <2>2, <2>4
<1>6. ASSUME NEW i \in 1 .. N, NEW v, <<i - 1, v>> \in H PROVE <<i, PinStep(v, list[i], s, e)>> \in H
  <2>1. PinOK(h0, o, i - 1, v) /\ (ordered => PinExact(h0, s, e, i - 1, v))
    BY <1>3, <1>6
  <2>2. i \in 1 .. Len(h0.list) /\ list[i] = h0.list[i] /\ HeapOK(h0, o)
    BY <1>2 DEF h0
  <2>3. PinOK(h0, o, i, PinStep(v, h0.list[i], s, e))
    BY <1>2, <2>1, <2>2, PinKeepsOK
  <2>4. ordered => PinExact(h0, s, e, i, PinStep(v, h0.list[i], s, e))
    <3> SUFFICES ASSUME ordered PROVE PinExact(h0, s, e, i, PinStep(v, h0.list[i], s, e))
      OBVIOUS
    <3>1. Tidy(h0.list, h0.range) /\ s <= e /\ PinExact(h0, s, e, i - 1, v)
      BY <1>2, <2>1
    <3> QED BY <1>2, <2>1, <2>2, <3>1, PinKeepsExact
  <2>5. PinStep(v, list[i], s, e) \in Pins
    BY <2>2, <2>3 DEF PinOK
  <2>6. i \in 0 .. N
    BY <1>2
  <2> QED BY <1>3, <2>2, <2>3, <2>4, <2>5, <2>6
<1>7. \A i \in 1 .. N : \A v \in Pins : c[<<i, v>>] = PinStep(v, list[i], s, e)
  OBVIOUS
<1> HIDE DEF c
<1>8. \A i \in 1 .. N : \A v \in Pins : <<i - 1, v>> \in H => <<i, c[<<i, v>>]>> \in H
  BY <1>6, <1>7
<1> HIDE DEF first
<1>9. PICK f : f \in [0 .. N -> Pins] /\ Loop(f, N, first, c)
  BY <1>2, <1>4, <1>5, <1>8, LoopKeeps
<1>10. \A i \in 0 .. N : i # 0 => c[<<i, f[i - 1]>>] = PinStep(f[i - 1], list[i], s, e)
  <2> SUFFICES ASSUME NEW i \in 0 .. N, i # 0 PROVE c[<<i, f[i - 1]>>] = PinStep(f[i - 1], list[i], s, e)
    OBVIOUS
  <2>1. i \in 1 .. N /\ i - 1 \in 0 .. N
    BY <1>2
  <2> QED BY <1>7, <1>9, <2>1
<1>11. IsAfter(f)
  BY <1>9, <1>10 DEF Loop, first, h0
<1>12. IsAfter(after)
  <2> HIDE DEF IsAfter
  <2> QED BY <1>11, Zenon
<1> HIDE DEF after
<1>13. /\ after[0] = first
       /\ \A i \in 1 .. N : after[i] = PinStep(after[i - 1], list[i], s, e)
  <2>1. 0 \in 0 .. N /\ \A i \in 1 .. N : i \in 0 .. N /\ i # 0
    BY <1>2
  <2> QED BY <1>12, <2>1 DEF first, h0
<1> DEFINE S == {k \in Nat : k <= N => <<k, after[k]>> \in H}
<1>14. 0 \in S
  BY <1>5, <1>13
<1>15. ASSUME NEW n \in Nat, n \in S PROVE n + 1 \in S
  <2> SUFFICES ASSUME n + 1 <= N PROVE <<n + 1, after[n + 1]>> \in H
    OBVIOUS
  <2>1. n + 1 \in 1 .. N /\ (n + 1) - 1 = n /\ <<n, after[n]>> \in H
    BY <1>2, <1>15
  <2>2. after[n + 1] = PinStep(after[n], list[n + 1], s, e)
    BY <1>13, <2>1
  <2> QED BY <1>6, <2>1, <2>2
<1> HIDE DEF S
<1>16. N \in S
  BY <1>2, <1>14, <1>15, SetInduction
<1>17. <<N, after[N]>> \in H
  BY <1>2, <1>16 DEF S
<1> QED BY <1>1, <1>2, <1>3, <1>17 DEF h0, list

\* What is left is what was there without the pages from s to e.
Pinned(h0, h2, s, e) ==
  \A p \in Int : \A w : Holds(h2, p, w) <=> (Holds(h0, p, w) /\ p \notin s .. e)

\* h2 is as exact as h0, and other areas are left alone.
Follows(h0, o, h2) == HeapOK(h2, o) /\ \A x \in o : h2.range[x] = h0.range[x]

\* The end of the loop, seen from the list of before it.
LEMMA PinEnd ==
  ASSUME NEW h0, NEW o, HeapOK(h0, o), NEW s, NEW e, NEW m, PinExact(h0, s, e, Len(h0.list), m)
  PROVE  /\ \A x \in Ids(h0.list) : Cut(h0, s, e, m, x)
         /\ m.told = FALSE => \A p \in s .. e : ~ Holds(h0, p, {TRUE})
<1>1. h0 \in Heaps /\ Len(h0.list) \in Nat
  BY HeapParts DEF HeapOK, Heaps, Lists
<1>2. \A i \in 1 .. Len(h0.list) : i <= Len(h0.list)
  BY <1>1
<1>3. \A x \in Ids(h0.list) : Cut(h0, s, e, m, x)
  BY <1>2 DEF PinExact, Ids
<1>4. m.told = FALSE => \A x \in Ids(h0.list) : h0.range[x].purged = TRUE => \A p \in s .. e : ~ Covers(h0.range, x, p)
  BY <1>2 DEF PinExact, Ids
<1> QED BY <1>3, <1>4 DEF Holds

\* There was no hole.
LEMMA PinNoHole ==
  ASSUME NEW h0, NEW o, HeapOK(h0, o), NEW s \in Nat, NEW e \in Int, NEW m,
         PinOK(h0, o, Len(h0.list), m), m.hole = {}
  PROVE  /\ Follows(h0, o, m.heap)
         /\ PinExact(h0, s, e, Len(h0.list), m) =>
              Tidy(m.heap.list, m.heap.range) /\ Pinned(h0, m.heap, s, e)
<1>1. Follows(h0, o, m.heap)
  BY DEF PinOK, Follows
<1>2. ASSUME PinExact(h0, s, e, Len(h0.list), m) PROVE Pinned(h0, m.heap, s, e)
  <2>1. \A x \in Ids(h0.list) : Cut(h0, s, e, m, x)
    BY <1>2, PinEnd
  <2>2. Ids(m.heap.list) \subseteq Ids(h0.list)
    BY DEF PinOK
  <2>3. \A x \in Ids(h0.list) : \A p \in Int :
          (x \in Ids(m.heap.list) /\ Covers(m.heap.range, x, p)) <=> (Covers(h0.range, x, p) /\ p \notin s .. e)
    BY <2>1 DEF Cut
  <2>4. \A x \in Ids(m.heap.list) : m.heap.range[x].purged = h0.range[x].purged
    BY <2>1, <2>2 DEF Cut
  <2> QED BY <2>2, <2>3, <2>4 DEF Pinned, Holds
<1> QED BY <1>1, <1>2 DEF PinExact

\* There was one, and there is no memory for its upper side.
LEMMA PinLower ==
  ASSUME PagesAssumption, NEW h0, NEW o, HeapOK(h0, o), NEW s \in Nat, NEW e \in Int, NEW m,
         PinOK(h0, o, Len(h0.list), m), NEW id \in m.hole
  PROVE  /\ Follows(h0, o, lower_side(m.heap, id, s))
         /\ s <= e /\ PinExact(h0, s, e, Len(h0.list), m) =>
              Tidy(lower_side(m.heap, id, s).list, lower_side(m.heap, id, s).range)
<1>1. PICK h2 : h2 = lower_side(m.heap, id, s)
  OBVIOUS
<1>2. HeapOK(m.heap, o) /\ m.heap \in Heaps /\ h0 \in Heaps /\ id \in Ids(m.heap.list)
  BY DEF PinOK, HeapOK
<1>3. /\ id \in RangeIds /\ m.heap.range[id].pgstart \in Nat /\ m.heap.range[id].pgend \in Int
      /\ m.heap.list \in Lists /\ m.heap.range \in Tables /\ id \notin o
  BY <1>2, HeapParts DEF HeapOK
<1>4. /\ HeapOK(h2, o) /\ Changes(m.heap, h2, id) /\ h2.list = m.heap.list
      /\ h2.range[id] = [pgstart |-> m.heap.range[id].pgstart, pgend |-> s - 1, purged |-> m.heap.range[id].purged]
  <2>1. m.heap.range[id].pgstart \in Nat /\ s - 1 \in Int
    BY <1>3
  <2> QED BY <1>1, <1>2, <2>1, ShrinkOK DEF lower_side
<1>5. Follows(h0, o, h2)
  <2>1. \A x \in o : x \in RangeIds /\ x # id
    BY <1>2, <1>3 DEF HeapOK
  <2> QED BY <1>4, <2>1 DEF Follows, PinOK, Changes
<1>6. ASSUME s <= e, PinExact(h0, s, e, Len(h0.list), m) PROVE Tidy(h2.list, h2.range)
  <2>1. Tidy(m.heap.list, m.heap.range)
    BY <1>6 DEF PinExact
  <2>2. id \in Ids(h0.list)
    BY <1>2 DEF PinOK
  <2>3. Cut(h0, s, e, m, id)
    BY <1>6, <2>2, PinEnd
  <2>4. m.heap.range[id].pgstart < s /\ e < m.heap.range[id].pgend
    BY <2>3 DEF Cut
  <2>5. h2.range \in Tables
    BY <1>4, HeapParts DEF HeapOK
  <2>6. ASSUME NEW x \in Ids(m.heap.list)
        PROVE  /\ h2.range[x].pgstart <= h2.range[x].pgend
               /\ m.heap.range[x].pgstart <= h2.range[x].pgstart
               /\ h2.range[x].pgend <= m.heap.range[x].pgend
    <3>1. CASE x = id
      <4>1. h2.range[x].pgstart = m.heap.range[x].pgstart /\ h2.range[x].pgend = s - 1
        BY <1>4, <3>1
      <4> QED BY <1>3, <1>6, <2>4, <3>1, <4>1
    <3>2. CASE x # id
      <4>1. x \in RangeIds /\ m.heap.range[x].pgstart \in Nat /\ m.heap.range[x].pgend \in Int
        BY <1>2, HeapParts
      <4>2. h2.range[x] = m.heap.range[x]
        BY <1>4, <3>2, <4>1 DEF Changes
      <4>3. m.heap.range[x].pgstart <= m.heap.range[x].pgend
        BY <2>1 DEF Tidy
      <4> QED BY <4>1, <4>2, <4>3
    <3> QED BY <3>1, <3>2
  <2> QED BY <1>3, <1>4, <2>1, <2>5, <2>6, TidyShrink
<1> QED BY <1>1, <1>5, <1>6

\* There is memory for it.
LEMMA PinBoth ==
  ASSUME PagesAssumption, NEW h0, NEW o, HeapOK(h0, o), NEW s, NEW e, Interval(s, e), NEW m,
         PinOK(h0, o, Len(h0.list), m), NEW id \in m.hole,
         NEW new \in RangeIds, new \notin Ids(h0.list) \cup o
  PROVE  /\ Follows(h0, o, lower_side(upper_side(m.heap, id, new, e), id, s))
         /\ s <= e /\ PinExact(h0, s, e, Len(h0.list), m) =>
              /\ Tidy(lower_side(upper_side(m.heap, id, new, e), id, s).list,
                      lower_side(upper_side(m.heap, id, new, e), id, s).range)
              /\ Pinned(h0, lower_side(upper_side(m.heap, id, new, e), id, s), s, e)
<1>1. PICK h1 : h1 = upper_side(m.heap, id, new, e)
  OBVIOUS
<1>2. PICK h2 : h2 = lower_side(h1, id, s)
  OBVIOUS
<1>3. PICK pos : pos = Position(m.heap.list, id)
  OBVIOUS
<1> DEFINE r == m.heap.range[id]
<1>4. HeapOK(m.heap, o) /\ m.heap \in Heaps /\ h0 \in Heaps /\ id \in Ids(m.heap.list)
  BY DEF PinOK, HeapOK
<1>5. /\ id \in RangeIds /\ r.pgstart \in Nat /\ r.pgend \in Int /\ r.purged \in BOOLEAN
      /\ m.heap.list \in Lists /\ m.heap.range \in Tables /\ id \notin o /\ Len(m.heap.list) \in Nat
  <2>1. /\ id \in RangeIds /\ r.pgstart \in Nat /\ r.pgend \in Int /\ r.purged \in BOOLEAN
        /\ m.heap.list \in Lists /\ m.heap.range \in Tables /\ id \notin o
    BY <1>4, HeapParts DEF HeapOK
  <2> QED BY <2>1 DEF Lists
<1>6. pos \in 1 .. Len(m.heap.list) /\ m.heap.list[pos] = id
  BY <1>3, <1>4, <1>5, PositionOf
<1>7. new \notin Ids(m.heap.list) \cup o /\ new # id
  BY <1>4 DEF PinOK
<1>8. s \in Nat /\ e \in Int /\ e + 1 \in Nat /\ e <= Pages - 1 /\ Pages \in Int
  BY DEF Interval, PagesAssumption
<1>9. /\ HeapOK(h1, o) /\ Changes(m.heap, h1, new) /\ h1.list = InsertAt(m.heap.list, pos, new)
      /\ Ids(h1.list) = Ids(m.heap.list) \cup {new}
      /\ h1.range[new] = [pgstart |-> e + 1, pgend |-> r.pgend, purged |-> r.purged]
  <2>1. pos \in 1 .. Len(m.heap.list) + 1
    BY <1>5, <1>6
  <2>2. h1 = range_alloc(m.heap, new, pos, r.purged, e + 1, r.pgend)
    BY <1>1, <1>3 DEF upper_side
  <2>3. PICK start, end, purged : start = e + 1 /\ end = r.pgend /\ purged = r.purged
    OBVIOUS
  <2>4. purged \in Flags /\ start \in Nat /\ end \in Int
    BY <1>5, <1>8, <2>3 DEF Flags
  <2>5. h1 = range_alloc(m.heap, new, pos, purged, start, end)
    BY <2>2, <2>3
  <2>6. Allocated(m.heap, o, h1, new, pos, purged, start, end)
    BY <1>4, <1>7, <2>1, <2>4, <2>5, AllocOK
  <2> QED BY <2>3, <2>6 DEF Allocated
<1>10. h1.range[id] = r
  BY <1>5, <1>7, <1>9 DEF Changes
<1>11. /\ HeapOK(h2, o) /\ Changes(h1, h2, id) /\ h2.list = h1.list
       /\ h2.range[id] = [pgstart |-> r.pgstart, pgend |-> s - 1, purged |-> r.purged]
  <2>1. r.pgstart \in Nat /\ s - 1 \in Int /\ id \in Ids(h1.list)
    BY <1>4, <1>5, <1>8, <1>9
  <2> QED BY <1>2, <1>9, <1>10, <2>1, ShrinkOK DEF lower_side
<1>12. h2.range[new] = h1.range[new]
  BY <1>7, <1>11 DEF Changes
<1>13. \A x \in RangeIds : x # id /\ x # new => h2.range[x] = m.heap.range[x]
  BY <1>9, <1>11 DEF Changes
<1>14. Follows(h0, o, h2)
  <2>1. \A x \in o : x \in RangeIds /\ x # id /\ x # new
    BY <1>4, <1>5, <1>7 DEF HeapOK
  <2> QED BY <1>11, <1>13, <2>1 DEF Follows, PinOK
<1>15. /\ h2.range[id].pgstart = r.pgstart /\ h2.range[id].pgend = s - 1 /\ h2.range[id].purged = r.purged
       /\ h2.range[new].pgstart = e + 1 /\ h2.range[new].pgend = r.pgend /\ h2.range[new].purged = r.purged
  BY <1>9, <1>11, <1>12
<1> SUFFICES ASSUME s <= e, PinExact(h0, s, e, Len(h0.list), m)
             PROVE  Tidy(h2.list, h2.range) /\ Pinned(h0, h2, s, e)
  BY <1>1, <1>2, <1>14
<1>16. Tidy(m.heap.list, m.heap.range) /\ Ids(m.heap.list) \subseteq Ids(h0.list)
  BY DEF PinExact, PinOK
<1>17. \A x \in Ids(h0.list) : Cut(h0, s, e, m, x)
  BY PinEnd
<1>18. m.heap.range[id] = h0.range[id] /\ r.pgstart < s /\ e < r.pgend
  BY <1>4, <1>16, <1>17 DEF Cut
<1>19. r.pgend <= Pages - 1
  BY <1>4, <1>16 DEF Tidy
<1>20. Tidy(h2.list, h2.range)
  <2>1. PICK low : low = [m.heap.range EXCEPT ![id] = h2.range[id]]
    OBVIOUS
  <2>2. /\ low \in Tables /\ low[id] = h2.range[id] /\ h2.range \in Tables
        /\ \A x \in RangeIds : x # id => low[x] = m.heap.range[x]
    <3>1. h2.range \in Tables /\ h2.range[id] \in Ranges
      BY <1>5, <1>11, HeapParts DEF HeapOK
    <3> QED BY <1>5, <2>1, <3>1 DEF Tables
  <2>3. ASSUME NEW x \in Ids(m.heap.list)
        PROVE  /\ low[x].pgstart <= low[x].pgend
               /\ m.heap.range[x].pgstart <= low[x].pgstart
               /\ low[x].pgend <= m.heap.range[x].pgend
    <3>1. CASE x = id
      BY <1>5, <1>8, <1>15, <1>18, <2>2, <3>1, SMTT(40)
    <3>2. CASE x # id
      <4>1. x \in RangeIds /\ m.heap.range[x].pgstart \in Nat /\ m.heap.range[x].pgend \in Int
        BY <1>4, HeapParts
      <4>2. low[x] = m.heap.range[x]
        BY <2>2, <3>2, <4>1
      <4>3. m.heap.range[x].pgstart <= m.heap.range[x].pgend
        BY <1>16 DEF Tidy
      <4> QED BY <4>1, <4>2, <4>3
    <3> QED BY <3>1, <3>2
  <2>4. Tidy(m.heap.list, low)
    BY <1>5, <1>16, <2>2, <2>3, TidyShrink
  <2>5. \A x \in Ids(m.heap.list) : h2.range[x] = low[x]
    <3>1. \A x \in Ids(m.heap.list) : x \in RangeIds /\ x # new
      BY <1>4, <1>7, HeapParts
    <3> QED BY <1>13, <2>2, <3>1
  <2>6. ASSUME NEW k \in 1 .. Len(m.heap.list)
        PROVE  IF k < pos THEN h2.range[new].pgend < low[m.heap.list[k]].pgstart
               ELSE low[m.heap.list[k]].pgend < h2.range[new].pgstart
    <3>1. PICK x : x = m.heap.list[k]
      OBVIOUS
    <3>2. x \in Ids(m.heap.list) /\ x \in RangeIds
      <4>1. x \in Ids(m.heap.list)
        BY <3>1 DEF Ids
      <4> QED BY <1>4, <4>1, HeapParts
    <3>3. m.heap.range[x].pgstart \in Nat /\ m.heap.range[x].pgend \in Int
      BY <1>4, <3>2, HeapParts
    <3>4. CASE k = pos
      <4>1. x = id /\ ~ (k < pos)
        BY <1>6, <3>1, <3>4
      <4>2. s - 1 < e + 1
        BY <1>8
      <4> QED BY <1>15, <2>2, <3>1, <4>1, <4>2
    <3>5. CASE k # pos
      <4>1. x # id
        BY <1>4, <1>6, <3>1, <3>5 DEF HeapOK, Once
      <4>2. low[x] = m.heap.range[x]
        BY <2>2, <3>2, <4>1
      <4>3. CASE k < pos
        <5>1. r.pgend < m.heap.range[x].pgstart
          BY <1>6, <1>16, <3>1, <4>3 DEF Tidy
        <5> QED BY <1>15, <3>1, <4>2, <4>3, <5>1
      <4>4. CASE ~ (k < pos)
        <5>1. pos < k
          BY <1>6, <3>5, <4>4
        <5>2. m.heap.range[x].pgend < r.pgstart
          BY <1>6, <1>16, <3>1, <5>1 DEF Tidy
        <5>3. m.heap.range[x].pgend < e + 1
          BY <1>5, <1>8, <1>18, <3>3, <5>2
        <5> QED BY <1>15, <3>1, <4>2, <4>4, <5>3
      <4> QED BY <4>3, <4>4
    <3> QED BY <3>4, <3>5
  <2>7. h2.range[new].pgstart <= h2.range[new].pgend /\ h2.range[new].pgend <= Pages - 1
    BY <1>5, <1>8, <1>15, <1>18, <1>19
  <2>8. pos \in 1 .. Len(m.heap.list) + 1 /\ Once(m.heap.list) /\ new \notin Ids(m.heap.list)
    BY <1>4, <1>5, <1>6, <1>7 DEF HeapOK
  <2>9. Tidy(InsertAt(m.heap.list, pos, new), h2.range)
    BY <1>5, <2>4, <2>5, <2>6, <2>7, <2>8, TidyInsert
  <2> QED BY <1>9, <1>11, <2>9
<1>21. Pinned(h0, h2, s, e)
  <2> SUFFICES ASSUME NEW p \in Int, NEW w
               PROVE  Holds(h2, p, w) <=> (Holds(h0, p, w) /\ p \notin s .. e)
    BY DEF Pinned
  <2>1. Ids(h2.list) = Ids(m.heap.list) \cup {new} /\ id \in Ids(h0.list) /\ Ids(h0.list) \subseteq RangeIds
    BY <1>4, <1>9, <1>11, <1>16, HeapParts
  <2>2. (Covers(h2.range, id, p) \/ Covers(h2.range, new, p)) <=> (Covers(h0.range, id, p) /\ p \notin s .. e)
    <3>1. (r.pgstart <= p /\ p <= s - 1) \/ (e + 1 <= p /\ p <= r.pgend)
            <=> (r.pgstart <= p /\ p <= r.pgend /\ ~ (s <= p /\ p <= e))
      <4> HIDE DEF r
      <4> QED BY <1>5, <1>8, <1>18
    <3>2. p \in s .. e <=> (s <= p /\ p <= e)
      BY <1>8
    <3> QED BY <1>15, <1>18, <3>1, <3>2 DEF Covers
  <2>3. \A x, y \in m.hole : x = y
    BY DEF PinExact
  <2>4. ASSUME NEW x \in Ids(h0.list), x # id
        PROVE  /\ (x \in Ids(h2.list) /\ Covers(h2.range, x, p)) <=> (Covers(h0.range, x, p) /\ p \notin s .. e)
               /\ x \in Ids(h2.list) => h2.range[x].purged = h0.range[x].purged
    <3>1. x # new /\ x \in RangeIds /\ x \notin m.hole
      BY <2>1, <2>3, <2>4
    <3>2. h2.range[x] = m.heap.range[x] /\ (x \in Ids(h2.list) <=> x \in Ids(m.heap.list))
      BY <1>13, <2>1, <2>4, <3>1
    <3>3. Cut(h0, s, e, m, x)
      BY <1>17
    <3> QED BY <3>1, <3>2, <3>3 DEF Cut, Covers
  <2>5. h2.range[id].purged = h0.range[id].purged /\ h2.range[new].purged = h0.range[id].purged
    BY <1>15, <1>18
  <2>6. ASSUME Holds(h2, p, w) PROVE Holds(h0, p, w) /\ p \notin s .. e
    <3>1. PICK x \in Ids(h2.list) : Covers(h2.range, x, p) /\ h2.range[x].purged \in w
      BY <2>6 DEF Holds
    <3>2. CASE x = id \/ x = new
      <4>1. Covers(h0.range, id, p) /\ p \notin s .. e /\ h0.range[id].purged \in w
        BY <2>2, <2>5, <3>1, <3>2
      <4> QED BY <2>1, <4>1 DEF Holds
    <3>3. CASE x # id /\ x # new
      <4>1. x \in Ids(h0.list)
        BY <1>16, <2>1, <3>3
      <4> QED BY <2>4, <3>1, <3>3, <4>1 DEF Holds
    <3> QED BY <3>2, <3>3
  <2>7. ASSUME Holds(h0, p, w), p \notin s .. e PROVE Holds(h2, p, w)
    <3>1. PICK x \in Ids(h0.list) : Covers(h0.range, x, p) /\ h0.range[x].purged \in w
      BY <2>7 DEF Holds
    <3>2. CASE x = id
      <4>1. id \in Ids(h2.list) /\ new \in Ids(h2.list)
        BY <1>4, <2>1
      <4> QED BY <2>2, <2>5, <2>7, <3>1, <3>2, <4>1 DEF Holds
    <3>3. CASE x # id
      BY <2>4, <2>7, <3>1, <3>3 DEF Holds
    <3> QED BY <3>2, <3>3
  <2> QED BY <2>6, <2>7
<1> QED BY <1>20, <1>21

-----------------------------------------------------------------------------
(***************************************************************************)
(* The loop of ashmem_unpin.                                               *)
(***************************************************************************)
Unpins == [heap : Heaps, pos : Nat, purged : BOOLEAN, start : Nat, end : Int]

\* No more passes are needed.
Settled(m) ==
  /\ m.pos = StopsAt(m.heap.list, m.heap.range, m.start, m.end)
  /\ m.pos # 0 => LET r == m.heap.range[m.heap.list[m.pos]]
                  IN  range_before_page(r, m.start) \/ page_range_subsumed_by_range(r, m.start, m.end)

\* After n passes the heap is exact, other areas are left alone, and each pass
\* but the last has taken a range out of the list.
UnpinOK(h0, o, n, m) ==
  /\ m \in Unpins /\ Follows(h0, o, m.heap)
  /\ Ids(m.heap.list) \subseteq Ids(h0.list)
  /\ m.pos <= Len(m.heap.list)
  /\ Settled(m) \/ Len(m.heap.list) + n = Len(h0.list)

\* The range that a pass merges, and its ends.
Merges(m, id, m2) ==
  LET r == m.heap.range[id]
  IN  /\ id \in Ids(m.heap.list)
      /\ ~ range_before_page(r, m.start) /\ page_range_in_range(r, m.start, m.end)
      /\ m2.heap = range_del(m.heap, id) /\ m2.pos = 0
      /\ m2.purged = TRUE <=> (m.purged = TRUE \/ r.purged = TRUE)
      /\ m2.start = min_t(r.pgstart, m.start) /\ m2.end = max_t(r.pgend, m.end)

\* Each pass is the last one or merges a range.
LEMMA UnpinTurn ==
  ASSUME NEW m \in Unpins
  PROVE  /\ UnpinMerge(m) \in [heap : {UnpinMerge(m).heap}, pos : Nat, purged : BOOLEAN, start : Nat, end : Int]
         /\ \/ /\ UnpinMerge(m).heap = m.heap /\ UnpinMerge(m).purged = m.purged
               /\ UnpinMerge(m).start = m.start /\ UnpinMerge(m).end = m.end
               /\ UnpinMerge(m).pos \in 0 .. Len(m.heap.list) /\ Settled(UnpinMerge(m))
               /\ Settled(m) => UnpinMerge(m) = m
            \/ /\ ~ Settled(m)
               /\ \E id : Merges(m, id, UnpinMerge(m))
<1> DEFINE stop == StopsAt(m.heap.list, m.heap.range, m.start, m.end)
           r == m.heap.range[m.heap.list[stop]]
           last == \/ stop = 0
                   \/ range_before_page(r, m.start)
                   \/ page_range_subsumed_by_range(r, m.start, m.end)
<1>1. PICK m2 : m2 = UnpinMerge(m)
  OBVIOUS
<1>2. /\ m.heap \in Heaps /\ m.pos \in Nat /\ m.purged \in BOOLEAN /\ m.start \in Nat /\ m.end \in Int
  BY DEF Unpins
<1>3. /\ m.heap.list \in Lists /\ Len(m.heap.list) \in Nat
  <2>1. m.heap.list \in Lists
    BY <1>2, HeapParts
  <2> QED BY <2>1 DEF Lists
<1>4. /\ stop \in 0 .. Len(m.heap.list)
      /\ stop # 0 => Stops(m.heap.list, m.heap.range, m.start, m.end, stop)
  BY <1>3, StopsAtFirst
<1>5. CASE last
  <2>1. m2 = [m EXCEPT !.pos = stop]
    BY <1>1, <1>5 DEF UnpinMerge
  <2>2. /\ m2.heap = m.heap /\ m2.purged = m.purged /\ m2.start = m.start /\ m2.end = m.end
        /\ m2.pos = stop
    BY <2>1 DEF Unpins
  <2> HIDE DEF stop
  <2>3. stop \in Nat
    BY <1>3, <1>4
  <2>4. m2 \in [heap : {m2.heap}, pos : Nat, purged : BOOLEAN, start : Nat, end : Int]
    BY <1>2, <2>1, <2>2, <2>3 DEF Unpins
  <2>5. Settled(m2)
    BY <1>5, <2>2 DEF Settled, stop
  <2>6. Settled(m) => m2 = m
    <3>1. Settled(m) => m.pos = stop
      BY DEF Settled, stop
    <3>2. m.pos = stop => m2 = m
      BY <2>1 DEF Unpins
    <3> QED BY <3>1, <3>2
  <2> QED BY <1>1, <1>4, <2>2, <2>4, <2>5, <2>6
<1>6. CASE ~ last
  <2>1. PICK id : id = m.heap.list[stop]
    OBVIOUS
  <2>2. stop \in 1 .. Len(m.heap.list) /\ id \in Ids(m.heap.list) /\ r = m.heap.range[id]
    <3>1. stop \in 1 .. Len(m.heap.list)
      BY <1>3, <1>4, <1>6
    <3> HIDE DEF stop
    <3> QED BY <2>1, <3>1 DEF Ids
  <2>3. /\ m2 = [heap |-> range_del(m.heap, id), pos |-> 0, purged |-> m.purged \/ r.purged,
                 start |-> min_t(r.pgstart, m.start), end |-> max_t(r.pgend, m.end)]
    BY <1>1, <1>6, <2>1 DEF UnpinMerge
  <2>4. r.pgstart \in Nat /\ r.pgend \in Int /\ r.purged \in BOOLEAN
    <3> HIDE DEF r, stop
    <3> QED BY <1>2, <2>2, HeapParts
  <2>5. ~ Settled(m)
    <3>1. Settled(m) => last
      BY <1>6, <2>2 DEF Settled
    <3> QED BY <1>6, <3>1
  <2>6. ~ range_before_page(r, m.start) /\ page_range_in_range(r, m.start, m.end)
    BY <1>4, <1>6 DEF Stops
  <2> HIDE DEF r, stop, last
  <2>7. min_t(r.pgstart, m.start) \in Nat /\ max_t(r.pgend, m.end) \in Int
    BY <1>2, <2>4 DEF min_t, max_t
  <2>8. (m.purged \/ r.purged) \in BOOLEAN /\ ((m.purged \/ r.purged) = TRUE <=> (m.purged = TRUE \/ r.purged = TRUE))
    BY <1>2, <2>4
  <2>9. m2 \in [heap : {m2.heap}, pos : Nat, purged : BOOLEAN, start : Nat, end : Int]
    BY <2>3, <2>7, <2>8
  <2>10. Merges(m, id, m2)
    <3>1. /\ m2.heap = range_del(m.heap, id) /\ m2.pos = 0 /\ m2.purged = (m.purged \/ r.purged)
          /\ m2.start = min_t(r.pgstart, m.start) /\ m2.end = max_t(r.pgend, m.end)
      BY <2>3
    <3> QED BY <2>2, <2>6, <2>8, <3>1 DEF Merges
  <2> QED BY <1>1, <2>5, <2>9, <2>10
<1> QED BY <1>5, <1>6

\* A pass keeps the heap exact.
LEMMA UnpinKeepsOK ==
  ASSUME NEW h0, NEW o, HeapOK(h0, o), NEW n \in Nat, NEW m, UnpinOK(h0, o, n, m)
  PROVE  UnpinOK(h0, o, n + 1, UnpinMerge(m))
<1>1. PICK m2 : m2 = UnpinMerge(m)
  OBVIOUS
<1>2. m \in Unpins /\ HeapOK(m.heap, o) /\ m.heap \in Heaps
  BY DEF UnpinOK, Follows, HeapOK
<1>3. m2 \in [heap : {m2.heap}, pos : Nat, purged : BOOLEAN, start : Nat, end : Int]
  BY <1>1, <1>2, UnpinTurn
<1>4. m2.heap \in Heaps => m2 \in Unpins
  BY <1>3 DEF Unpins
<1>5. CASE /\ m2.heap = m.heap /\ m2.pos \in 0 .. Len(m.heap.list) /\ Settled(m2)
  <2>1. m2.pos <= Len(m2.heap.list)
    BY <1>5
  <2> QED BY <1>1, <1>2, <1>4, <1>5, <2>1 DEF UnpinOK
<1>6. CASE ~ Settled(m) /\ \E id : Merges(m, id, m2)
  <2>1. PICK id : Merges(m, id, m2)
    BY <1>6
  <2>2. id \in Ids(m.heap.list) /\ m2.heap = range_del(m.heap, id) /\ m2.pos = 0
    BY <2>1 DEF Merges
  <2>3. /\ HeapOK(m2.heap, o) /\ Changes(m.heap, m2.heap, id)
        /\ Ids(m2.heap.list) = Ids(m.heap.list) \ {id}
        /\ Len(m2.heap.list) = Len(m.heap.list) - 1
    <3>1. Deleted(m.heap, o, m2.heap, id)
      BY <1>2, <2>2, DelOK
    <3> QED BY <3>1 DEF Deleted
  <2>4. m2.heap \in Heaps
    BY <2>3 DEF HeapOK
  <2>5. Follows(h0, o, m2.heap)
    <3>1. \A x \in o : x \in RangeIds /\ x # id
      BY <1>2, <2>2 DEF HeapOK
    <3> QED BY <2>3, <3>1 DEF Follows, UnpinOK, Changes
  <2>6. Len(m.heap.list) + n = Len(h0.list)
    BY <1>6 DEF UnpinOK
  <2>7. Len(m.heap.list) \in Nat /\ Len(m2.heap.list) \in Nat
    <3>1. m.heap.list \in Lists /\ m2.heap.list \in Lists
      BY <1>2, <2>4, HeapParts
    <3> QED BY <3>1 DEF Lists
  <2>8. Len(m2.heap.list) + (n + 1) = Len(h0.list) /\ m2.pos <= Len(m2.heap.list)
    <3>1. Len(m2.heap.list) = Len(m.heap.list) - 1 /\ m2.pos = 0
      BY <2>2, <2>3
    <3>2. PICK was, now : was = Len(m.heap.list) /\ now = Len(m2.heap.list)
      OBVIOUS
    <3>3. was \in Nat /\ now \in Nat /\ now = was - 1 /\ was + n = Len(h0.list)
      BY <2>6, <2>7, <3>1, <3>2
    <3>4. now + (n + 1) = was + n /\ 0 <= now
      BY <3>3
    <3> QED BY <3>1, <3>2, <3>3, <3>4
  <2>9. Ids(m2.heap.list) \subseteq Ids(h0.list)
    BY <2>3 DEF UnpinOK
  <2> QED BY <1>1, <1>4, <2>4, <2>5, <2>8, <2>9 DEF UnpinOK
<1>7. \/ m2.heap = m.heap /\ m2.pos \in 0 .. Len(m.heap.list) /\ Settled(m2)
      \/ ~ Settled(m) /\ \E id : Merges(m, id, m2)
  BY <1>1, <1>2, UnpinTurn
<1> QED BY <1>5, <1>6, <1>7

\* The pages of the list and of the interval are those of before with the ones
\* to unpin; no purged page is forgotten; and an interval that is purged has a
\* page that is not on the list.
UnpinExact(h0, s, e, m) ==
  /\ Tidy(m.heap.list, m.heap.range)
  /\ m.start <= m.end /\ m.end <= Pages - 1
  /\ \A p \in Int : (Holds(m.heap, p, BOOLEAN) \/ p \in m.start .. m.end)
                      <=> (Holds(h0, p, BOOLEAN) \/ p \in s .. e)
  /\ \A p \in Int : Holds(h0, p, {TRUE}) =>
       Holds(m.heap, p, {TRUE}) \/ (m.purged = TRUE /\ p \in m.start .. m.end)
  /\ m.purged = TRUE => \E p \in m.start .. m.end : ~ Holds(m.heap, p, BOOLEAN)

\* No page is in two ranges.
LEMMA TidyDisjoint ==
  ASSUME NEW h \in Heaps, Tidy(h.list, h.range), NEW x \in Ids(h.list), NEW y \in Ids(h.list),
         NEW p \in Int, Covers(h.range, x, p), Covers(h.range, y, p)
  PROVE  x = y
<1>1. PICK i \in 1 .. Len(h.list) : x = h.list[i]
  BY DEF Ids
<1>2. PICK j \in 1 .. Len(h.list) : y = h.list[j]
  BY DEF Ids
<1>3. /\ h.range[x].pgstart \in Int /\ h.range[x].pgend \in Int
      /\ h.range[y].pgstart \in Int /\ h.range[y].pgend \in Int /\ Len(h.list) \in Nat
  <2>1. h.list \in Lists /\ x \in RangeIds /\ y \in RangeIds
    BY HeapParts
  <2>2. Len(h.list) \in Nat
    BY <2>1 DEF Lists
  <2> QED BY <2>1, <2>2, HeapParts
<1>4. CASE i < j
  BY <1>1, <1>2, <1>3, <1>4, SMTT(40) DEF Tidy, Covers
<1>5. CASE j < i
  BY <1>1, <1>2, <1>3, <1>5 DEF Tidy, Covers
<1>6. CASE i = j
  BY <1>1, <1>2, <1>6
<1> QED BY <1>3, <1>4, <1>5, <1>6

\* A pass keeps to that.
LEMMA UnpinKeepsExact ==
  ASSUME PagesAssumption, NEW h0, NEW o, NEW n, NEW s, NEW e, NEW m,
         UnpinOK(h0, o, n, m), UnpinExact(h0, s, e, m)
  PROVE  UnpinExact(h0, s, e, UnpinMerge(m))
<1>1. PICK m2 : m2 = UnpinMerge(m)
  OBVIOUS
<1>2. m \in Unpins /\ HeapOK(m.heap, o) /\ m.heap \in Heaps /\ m.start \in Nat /\ m.end \in Int
  BY DEF UnpinOK, Follows, HeapOK, Unpins
<1>3. CASE /\ m2.heap = m.heap /\ m2.purged = m.purged /\ m2.start = m.start /\ m2.end = m.end
  BY <1>1, <1>3 DEF UnpinExact
<1>4. CASE \E id : Merges(m, id, m2)
  <2>1. PICK id : Merges(m, id, m2)
    BY <1>4
  <2> DEFINE r == m.heap.range[id]
  <2>2. /\ id \in Ids(m.heap.list) /\ m2.heap = range_del(m.heap, id)
        /\ m2.purged = TRUE <=> (m.purged = TRUE \/ r.purged = TRUE)
        /\ m2.start = min_t(r.pgstart, m.start) /\ m2.end = max_t(r.pgend, m.end)
        /\ page_range_in_range(r, m.start, m.end)
    BY <2>1 DEF Merges
  <2>3. Tidy(m.heap.list, m.heap.range) /\ m.start <= m.end /\ m.end <= Pages - 1
    BY DEF UnpinExact
  <2>4. /\ HeapOK(m2.heap, o) /\ Changes(m.heap, m2.heap, id)
        /\ Ids(m2.heap.list) = Ids(m.heap.list) \ {id}
        /\ Tidy(m2.heap.list, m2.heap.range)
    <3>1. Deleted(m.heap, o, m2.heap, id)
      BY <1>2, <2>2, DelOK
    <3> QED BY <2>3, <3>1 DEF Deleted
  <2>5. /\ id \in RangeIds /\ r \in Ranges /\ r.pgstart \in Nat /\ r.pgend \in Int /\ r.purged \in BOOLEAN
        /\ Ids(m.heap.list) \subseteq RangeIds
    BY <1>2, <2>2, HeapParts
  <2>6. r.pgstart <= r.pgend /\ r.pgend <= Pages - 1
    BY <2>2, <2>3 DEF Tidy
  <2>7. r.pgstart <= m.end /\ m.start <= r.pgend
    BY <1>2, <2>2, <2>3, <2>5, <2>6, OverlapExact
  <2>8. /\ m2.start \in Int /\ m2.end \in Int /\ m2.start <= m2.end /\ m2.end <= Pages - 1
        /\ \A p \in Int : p \in m2.start .. m2.end <=> (p \in m.start .. m.end \/ Covers(m.heap.range, id, p))
    <3> HIDE DEF r
    <3>1. Pages \in Int
      BY DEF PagesAssumption
    <3>2. /\ m2.start \in Int /\ m2.end \in Int /\ m2.start <= m2.end /\ m2.end <= Pages - 1
          /\ \A p \in Int : (m2.start <= p /\ p <= m2.end)
               <=> (m.start <= p /\ p <= m.end) \/ (r.pgstart <= p /\ p <= r.pgend)
      BY <1>2, <2>2, <2>3, <2>5, <2>6, <2>7, <3>1 DEF min_t, max_t
    <3> QED BY <1>2, <3>2 DEF Covers, r
  <2>9. ASSUME NEW p \in Int, NEW w
        PROVE  Holds(m.heap, p, w) <=> Holds(m2.heap, p, w) \/ (Covers(m.heap.range, id, p) /\ r.purged \in w)
    <3>1. \A x \in Ids(m2.heap.list) : x \in Ids(m.heap.list) /\ x # id /\ m2.heap.range[x] = m.heap.range[x]
      BY <2>4, <2>5 DEF Changes
    <3>2. \A x \in Ids(m.heap.list) : x = id \/ x \in Ids(m2.heap.list)
      BY <2>4
    <3> QED BY <2>2, <3>1, <3>2 DEF Holds, Covers
  <2>10. ASSUME NEW p \in Int
         PROVE  (Holds(m2.heap, p, BOOLEAN) \/ p \in m2.start .. m2.end)
                  <=> (Holds(h0, p, BOOLEAN) \/ p \in s .. e)
    <3>1. Holds(m.heap, p, BOOLEAN) <=> Holds(m2.heap, p, BOOLEAN) \/ Covers(m.heap.range, id, p)
      <4>1. Holds(m.heap, p, BOOLEAN) <=> Holds(m2.heap, p, BOOLEAN) \/ (Covers(m.heap.range, id, p) /\ r.purged \in BOOLEAN)
        BY <2>9
      <4> QED BY <2>5, <4>1
    <3>2. (Holds(m.heap, p, BOOLEAN) \/ p \in m.start .. m.end) <=> (Holds(h0, p, BOOLEAN) \/ p \in s .. e)
      BY DEF UnpinExact
    <3>3. p \in m2.start .. m2.end <=> (p \in m.start .. m.end \/ Covers(m.heap.range, id, p))
      BY <2>8
    <3> QED BY <3>1, <3>2, <3>3
  <2>11. ASSUME NEW p \in Int, Holds(h0, p, {TRUE})
         PROVE  Holds(m2.heap, p, {TRUE}) \/ (m2.purged = TRUE /\ p \in m2.start .. m2.end)
    <3>1. Holds(m.heap, p, {TRUE}) \/ (m.purged = TRUE /\ p \in m.start .. m.end)
      BY <2>11 DEF UnpinExact
    <3>2. Holds(m.heap, p, {TRUE}) <=> Holds(m2.heap, p, {TRUE}) \/ (Covers(m.heap.range, id, p) /\ r.purged \in {TRUE})
      BY <2>9
    <3>3. p \in m2.start .. m2.end <=> (p \in m.start .. m.end \/ Covers(m.heap.range, id, p))
      BY <2>8
    <3> QED BY <2>2, <3>1, <3>2, <3>3
  <2>12. ASSUME m2.purged = TRUE PROVE \E p \in m2.start .. m2.end : ~ Holds(m2.heap, p, BOOLEAN)
    <3>1. CASE m.purged = TRUE
      <4>1. PICK p \in m.start .. m.end : ~ Holds(m.heap, p, BOOLEAN)
        BY <3>1 DEF UnpinExact
      <4>2. p \in Int
        BY <1>2
      <4>3. p \in m2.start .. m2.end
        BY <2>8, <4>2
      <4>4. ~ Holds(m2.heap, p, BOOLEAN)
        BY <2>9, <4>1, <4>2
      <4> QED BY <4>3, <4>4
    <3>2. CASE r.purged = TRUE
      <4>1. PICK p : p = r.pgstart
        OBVIOUS
      <4>2. p \in Int /\ Covers(m.heap.range, id, p)
        BY <2>5, <2>6, <4>1 DEF Covers
      <4>3. p \in m2.start .. m2.end
        BY <2>8, <4>2
      <4>4. ~ Holds(m2.heap, p, BOOLEAN)
        <5> SUFFICES ASSUME NEW x \in Ids(m2.heap.list), Covers(m2.heap.range, x, p) PROVE FALSE
          BY DEF Holds
        <5>1. x \in Ids(m.heap.list) /\ x # id /\ x \in RangeIds
          BY <2>4, <2>5
        <5>2. Covers(m.heap.range, x, p)
          BY <2>4, <5>1 DEF Changes, Covers
        <5> QED BY <1>2, <2>2, <2>3, <4>2, <5>1, <5>2, TidyDisjoint
      <4> QED BY <4>3, <4>4
    <3> QED BY <2>2, <2>12, <3>1, <3>2
  <2> QED BY <1>1, <2>4, <2>8, <2>10, <2>11, <2>12 DEF UnpinExact
<1>5. \/ /\ m2.heap = m.heap /\ m2.purged = m.purged /\ m2.start = m.start /\ m2.end = m.end
      \/ \E id : Merges(m, id, m2)
  BY <1>1, <1>2, UnpinTurn
<1> QED BY <1>3, <1>4, <1>5

\* What is kept by every pass holds after the loop.
LEMMA UnpinLoopExact ==
  ASSUME PagesAssumption, NEW a, NEW o, HeapOK(Heap(a), o), NEW s, NEW e, Interval(s, e)
  PROVE  /\ UnpinOK(Heap(a), o, Len(unpinned_list[a]) + 1, UnpinLoop(a, s, e))
         /\ Tidy(unpinned_list[a], range) /\ s <= e => UnpinExact(Heap(a), s, e, UnpinLoop(a, s, e))
<1> DEFINE h0 == Heap(a)
           N == Len(unpinned_list[a]) + 1
           ordered == Tidy(unpinned_list[a], range) /\ s <= e
           first == [heap |-> h0, pos |-> 0, purged |-> FALSE, start |-> s, end |-> e]
           IsMerged(g) == g = [n \in 0 .. N |->
                                 IF n = 0
                                   THEN [heap |-> Heap(a), pos |-> 0, purged |-> FALSE, start |-> s, end |-> e]
                                   ELSE UnpinMerge(g[n - 1])]
           merged == CHOOSE g : IsMerged(g)
           c == [x \in (1 .. N) \X Unpins |-> UnpinMerge(x[2])]
           H == {x \in (0 .. N) \X Unpins : /\ UnpinOK(h0, o, x[1], x[2])
                                            /\ ordered => UnpinExact(h0, s, e, x[2])}
<1>1. UnpinLoop(a, s, e) = merged[N]
  BY Zenon DEF UnpinLoop
<1>2. /\ h0.list = unpinned_list[a] /\ h0.range = range /\ h0 \in Heaps /\ N \in Nat /\ Len(h0.list) \in Nat
      /\ s \in Nat /\ e \in Int /\ e <= Pages - 1
  <2>1. h0.list = unpinned_list[a] /\ h0.range = range
    BY DEF Heap
  <2>2. h0 \in Heaps
    BY DEF HeapOK
  <2>3. h0.list \in Lists
    BY <2>2, HeapParts
  <2> HIDE DEF h0
  <2>4. Len(h0.list) \in Nat
    BY <2>3 DEF Lists
  <2>5. s \in Nat /\ e \in Int /\ e <= Pages - 1
    BY DEF Interval
  <2> QED BY <2>1, <2>2, <2>4, <2>5
<1>3. \A i : \A v : <<i, v>> \in H <=> /\ i \in 0 .. N /\ v \in Unpins /\ UnpinOK(h0, o, i, v)
                                       /\ ordered => UnpinExact(h0, s, e, v)
  OBVIOUS
<1>4. H \subseteq (0 .. N) \X Unpins
  OBVIOUS
<1>5. ordered => Tidy(h0.list, h0.range) /\ s <= e
  BY <1>2
<1> HIDE DEF H, h0, ordered
<1>6. <<0, first>> \in H
  <2>1. /\ first \in Unpins /\ first.heap = h0 /\ first.pos = 0 /\ first.purged = FALSE
        /\ first.start = s /\ first.end = e
    BY <1>2 DEF Unpins
  <2> HIDE DEF first
  <2>2. UnpinOK(h0, o, 0, first)
    <3>1. Follows(h0, o, h0)
      BY DEF Follows, h0
    <3>2. Len(h0.list) + 0 = Len(h0.list) /\ 0 <= Len(h0.list)
      BY <1>2
    <3> QED BY <2>1, <3>1, <3>2 DEF UnpinOK
  <2>3. ordered => UnpinExact(h0, s, e, first)
    BY <1>2, <1>5, <2>1 DEF UnpinExact
  <2> QED BY <1>2, <1>3, <2>1, <2>2, <2>3
<1>7. ASSUME NEW i \in 1 .. N, NEW v, <<i - 1, v>> \in H PROVE <<i, UnpinMerge(v)>> \in H
  <2>1. UnpinOK(h0, o, i - 1, v) /\ (ordered => UnpinExact(h0, s, e, v))
    BY <1>3, <1>7
  <2>2. i - 1 \in Nat /\ (i - 1) + 1 = i /\ i \in 0 .. N
    BY <1>2
  <2>3. UnpinOK(h0, o, (i - 1) + 1, UnpinMerge(v))
    BY <2>1, <2>2, UnpinKeepsOK DEF h0
  <2>4. ordered => UnpinExact(h0, s, e, UnpinMerge(v))
    BY <2>1, UnpinKeepsExact
  <2>5. UnpinMerge(v) \in Unpins
    BY <2>3 DEF UnpinOK
  <2> QED BY <1>3, <2>2, <2>3, <2>4, <2>5
<1>8. \A i \in 1 .. N : \A v \in Unpins : c[<<i, v>>] = UnpinMerge(v)
  OBVIOUS
<1> HIDE DEF c
<1>9. \A i \in 1 .. N : \A v \in Unpins : <<i - 1, v>> \in H => <<i, c[<<i, v>>]>> \in H
  BY <1>7, <1>8
<1> HIDE DEF first
<1>10. PICK f : f \in [0 .. N -> Unpins] /\ Loop(f, N, first, c)
  <2> HIDE DEF N
  <2> QED BY <1>2, <1>4, <1>6, <1>9, LoopKeeps
<1>11. \A i \in 0 .. N : i # 0 => c[<<i, f[i - 1]>>] = UnpinMerge(f[i - 1])
  <2> SUFFICES ASSUME NEW i \in 0 .. N, i # 0 PROVE c[<<i, f[i - 1]>>] = UnpinMerge(f[i - 1])
    OBVIOUS
  <2>1. i \in 1 .. N /\ i - 1 \in 0 .. N
    BY <1>2
  <2> QED BY <1>8, <1>10, <2>1
<1>12. IsMerged(f)
  BY <1>10, <1>11 DEF Loop, first, h0
<1>13. IsMerged(merged)
  <2> HIDE DEF IsMerged
  <2> QED BY <1>12, Zenon
<1> HIDE DEF merged
<1>14. merged[0] = first /\ \A i \in 1 .. N : merged[i] = UnpinMerge(merged[i - 1])
  <2>1. 0 \in 0 .. N /\ \A i \in 1 .. N : i \in 0 .. N /\ i # 0
    BY <1>2
  <2> QED BY <1>13, <2>1 DEF first, h0
<1> DEFINE S == {k \in Nat : k <= N => <<k, merged[k]>> \in H}
<1> HIDE DEF N, IsMerged
<1>15. 0 \in S
  BY <1>6, <1>14
<1>16. ASSUME NEW k \in Nat, k \in S PROVE k + 1 \in S
  <2> SUFFICES ASSUME k + 1 <= N PROVE <<k + 1, merged[k + 1]>> \in H
    OBVIOUS
  <2>1. k + 1 \in 1 .. N /\ (k + 1) - 1 = k /\ <<k, merged[k]>> \in H
    BY <1>2, <1>16
  <2>2. merged[k + 1] = UnpinMerge(merged[k])
    BY <1>14, <2>1
  <2> QED BY <1>7, <2>1, <2>2
<1> HIDE DEF S
<1>17. N \in S
  BY <1>2, <1>15, <1>16, SetInduction
<1>18. <<N, merged[N]>> \in H
  BY <1>2, <1>17 DEF S
<1> QED BY <1>1, <1>3, <1>18 DEF h0, N, ordered

\* The loop ends settled.
LEMMA UnpinSettles ==
  ASSUME NEW h0, NEW o, HeapOK(h0, o), NEW m, UnpinOK(h0, o, Len(h0.list) + 1, m)
  PROVE  Settled(m)
<1>1. Len(m.heap.list) \in Nat /\ Len(h0.list) \in Nat
  <2>1. m.heap \in Heaps /\ h0 \in Heaps
    BY DEF UnpinOK, Follows, HeapOK
  <2>2. m.heap.list \in Lists /\ h0.list \in Lists
    BY <2>1, HeapParts
  <2> QED BY <2>2 DEF Lists
<1>2. PICK was, now : was = Len(h0.list) /\ now = Len(m.heap.list)
  OBVIOUS
<1>3. was \in Nat /\ now \in Nat
  BY <1>1, <1>2
<1>4. now + (was + 1) # was
  BY <1>3
<1> QED BY <1>2, <1>4 DEF UnpinOK

\* The pages from s to e are unpinned in addition, and none that was purged is
\* forgotten.
UnpinnedToo(h0, h2, s, e) ==
  \A p \in Int : /\ Holds(h2, p, BOOLEAN) <=> (Holds(h0, p, BOOLEAN) \/ p \in s .. e)
                 /\ Holds(h0, p, {TRUE}) => Holds(h2, p, {TRUE})

\* The pages were unpinned already.
LEMMA UnpinSubsumed ==
  ASSUME NEW h0, NEW o, NEW n, NEW s, NEW e, NEW m, UnpinOK(h0, o, n, m), UnpinExact(h0, s, e, m), Subsumed(m)
  PROVE  UnpinnedToo(h0, m.heap, s, e)
<1>1. m \in Unpins /\ m.heap \in Heaps /\ m.start \in Nat /\ m.end \in Int /\ m.pos \in Nat
  BY DEF UnpinOK, Unpins
<1>2. PICK id : id = m.heap.list[m.pos]
  OBVIOUS
<1>3. id \in Ids(m.heap.list)
  <2>1. m.pos # 0 /\ m.pos <= Len(m.heap.list) /\ Len(m.heap.list) \in Nat
    <3>1. m.heap.list \in Lists
      BY <1>1, HeapParts
    <3> QED BY <3>1 DEF Subsumed, UnpinOK, Lists
  <2>2. m.pos \in 1 .. Len(m.heap.list)
    BY <1>1, <2>1
  <2> QED BY <1>2, <2>2 DEF Ids
<1>4. m.heap.range[id].pgstart <= m.start /\ m.heap.range[id].pgend >= m.end
  BY <1>2 DEF Subsumed, page_range_subsumed_by_range
<1>5. m.heap.range[id].pgstart \in Int /\ m.heap.range[id].pgend \in Int /\ m.heap.range[id].purged \in BOOLEAN
  BY <1>1, <1>3, HeapParts
<1>6. \A p \in m.start .. m.end : Holds(m.heap, p, BOOLEAN)
  BY <1>1, <1>3, <1>4, <1>5 DEF Holds, Covers
<1>7. m.purged # TRUE
  BY <1>6 DEF UnpinExact
<1> QED BY <1>6, <1>7 DEF UnpinnedToo, UnpinExact

\* Where the new range goes.
Place(m) == IF m.pos = 0 THEN Len(m.heap.list) + 1 ELSE m.pos

\* They were not, and there is memory for a range.
LEMMA UnpinInserts ==
  ASSUME PagesAssumption, NEW h0, NEW o, HeapOK(h0, o), NEW n, NEW s, NEW e, NEW m,
         UnpinOK(h0, o, n, m), Settled(m), ~ Subsumed(m),
         NEW new \in RangeIds, new \notin Ids(h0.list) \cup o,
         NEW before, before = Place(m),
         NEW h2, h2 = range_alloc(m.heap, new, before, m.purged, m.start, m.end)
  PROVE  /\ Follows(h0, o, h2)
         /\ UnpinExact(h0, s, e, m) => Tidy(h2.list, h2.range) /\ UnpinnedToo(h0, h2, s, e)
<1>1. /\ m \in Unpins /\ m.heap \in Heaps /\ m.start \in Nat /\ m.end \in Int /\ m.pos \in Nat
      /\ m.purged \in BOOLEAN /\ HeapOK(m.heap, o)
  BY DEF UnpinOK, Unpins, Follows
<1>2. m.heap.list \in Lists /\ Len(m.heap.list) \in Nat /\ m.pos <= Len(m.heap.list)
  <2>1. m.heap.list \in Lists
    BY <1>1, HeapParts
  <2> QED BY <2>1 DEF UnpinOK, Lists
<1>3. before \in 1 .. Len(m.heap.list) + 1
  BY <1>1, <1>2 DEF Place
<1>4. new \notin Ids(m.heap.list) \cup o
  BY DEF UnpinOK
<1>5. Allocated(m.heap, o, h2, new, before, m.purged, m.start, m.end)
  <2>1. PICK purged, start, end : purged = m.purged /\ start = m.start /\ end = m.end
    OBVIOUS
  <2>2. purged \in Flags /\ start \in Nat /\ end \in Int
    BY <1>1, <2>1 DEF Flags
  <2>3. h2 = range_alloc(m.heap, new, before, purged, start, end)
    BY <2>1
  <2>4. Allocated(m.heap, o, h2, new, before, purged, start, end)
    BY <1>1, <1>3, <1>4, <2>2, <2>3, AllocOK
  <2> QED BY <2>1, <2>4
<1>6. /\ HeapOK(h2, o) /\ Changes(m.heap, h2, new)
      /\ h2.list = InsertAt(m.heap.list, before, new) /\ Ids(h2.list) = Ids(m.heap.list) \cup {new}
      /\ h2.range[new] = [pgstart |-> m.start, pgend |-> m.end, purged |-> m.purged]
  BY <1>5 DEF Allocated
<1>7. h2.range[new].pgstart = m.start /\ h2.range[new].pgend = m.end /\ h2.range[new].purged = m.purged
  BY <1>6
<1>8. Follows(h0, o, h2)
  <2>1. \A x \in o : x \in RangeIds /\ x # new
    BY <1>1 DEF HeapOK
  <2> QED BY <1>6, <2>1 DEF Follows, UnpinOK, Changes
<1> SUFFICES ASSUME UnpinExact(h0, s, e, m)
             PROVE  Tidy(h2.list, h2.range) /\ UnpinnedToo(h0, h2, s, e)
  BY <1>8
<1>9. Tidy(m.heap.list, m.heap.range) /\ m.start <= m.end /\ m.end <= Pages - 1
  BY DEF UnpinExact
<1>10. \A x \in Ids(m.heap.list) : x \in RangeIds /\ x # new /\ h2.range[x] = m.heap.range[x]
  BY <1>1, <1>4, <1>6, HeapParts DEF Changes
<1>11. Tidy(h2.list, h2.range)
  <2>1. ASSUME NEW k \in 1 .. Len(m.heap.list)
        PROVE  /\ m.heap.list[k] \in Ids(m.heap.list)
               /\ m.heap.range[m.heap.list[k]].pgstart \in Nat /\ m.heap.range[m.heap.list[k]].pgend \in Int
               /\ m.heap.range[m.heap.list[k]].pgstart <= m.heap.range[m.heap.list[k]].pgend
               /\ ~ Stops(m.heap.list, m.heap.range, m.start, m.end, k) =>
                    m.end < m.heap.range[m.heap.list[k]].pgstart
    <3>1. PICK x : x = m.heap.list[k]
      OBVIOUS
    <3>2. x \in Ids(m.heap.list) /\ x \in RangeIds
      <4>1. x \in Ids(m.heap.list)
        BY <3>1 DEF Ids
      <4> QED BY <1>10, <4>1
    <3>3. m.heap.range[x] \in Ranges /\ m.heap.range[x].pgstart \in Nat /\ m.heap.range[x].pgend \in Int
      BY <1>1, <3>2, HeapParts
    <3>4. m.heap.range[x].pgstart <= m.heap.range[x].pgend
      BY <1>9, <3>2 DEF Tidy
    <3>5. /\ page_range_in_range(m.heap.range[x], m.start, m.end)
               <=> (m.heap.range[x].pgstart <= m.end /\ m.start <= m.heap.range[x].pgend)
          /\ range_before_page(m.heap.range[x], m.start) <=> m.heap.range[x].pgend < m.start
      BY <1>1, <1>9, <3>3, <3>4, OverlapExact
    <3>6. ~ Stops(m.heap.list, m.heap.range, m.start, m.end, k) => m.end < m.heap.range[x].pgstart
      BY <1>1, <3>1, <3>3, <3>5 DEF Stops
    <3> QED BY <3>1, <3>2, <3>3, <3>4, <3>6
  <2>2. m.pos = StopsAt(m.heap.list, m.heap.range, m.start, m.end)
    BY DEF Settled
  <2>3. ASSUME NEW k \in 1 .. Len(m.heap.list), k < before
        PROVE  ~ Stops(m.heap.list, m.heap.range, m.start, m.end, k)
    BY <1>1, <1>2, <2>2, <2>3, StopsAtFirst DEF Place
  <2>4. ASSUME m.pos # 0 PROVE m.heap.range[m.heap.list[m.pos]].pgend < m.start
    BY <2>4 DEF Settled, Subsumed, range_before_page
  <2>5. ASSUME NEW k \in 1 .. Len(m.heap.list)
        PROVE  IF k < before THEN h2.range[new].pgend < m.heap.range[m.heap.list[k]].pgstart
               ELSE m.heap.range[m.heap.list[k]].pgend < h2.range[new].pgstart
    <3>1. CASE k < before
      BY <1>7, <2>1, <2>3, <3>1
    <3>2. CASE ~ (k < before)
      <4>1. m.pos # 0 /\ m.pos \in 1 .. Len(m.heap.list) /\ (k = m.pos \/ m.pos < k)
        BY <1>1, <1>2, <3>2 DEF Place
      <4>2. m.heap.range[m.heap.list[m.pos]].pgend < m.start
        BY <2>4, <4>1
      <4>3. m.heap.range[m.heap.list[k]].pgend < m.start
        <5>1. CASE m.pos < k
          <6>1. m.heap.range[m.heap.list[k]].pgend < m.heap.range[m.heap.list[m.pos]].pgstart
            BY <1>9, <4>1, <5>1 DEF Tidy
          <6>2. /\ m.heap.range[m.heap.list[m.pos]].pgstart \in Nat
                /\ m.heap.range[m.heap.list[m.pos]].pgend \in Int
                /\ m.heap.range[m.heap.list[m.pos]].pgstart <= m.heap.range[m.heap.list[m.pos]].pgend
                /\ m.heap.range[m.heap.list[k]].pgend \in Int
            BY <2>1, <4>1
          <6>3. PICK r, t : r = m.heap.range[m.heap.list[m.pos]] /\ t = m.heap.range[m.heap.list[k]]
            OBVIOUS
          <6>4. /\ r.pgstart \in Nat /\ r.pgend \in Int /\ t.pgend \in Int
                /\ t.pgend < r.pgstart /\ r.pgstart <= r.pgend /\ r.pgend < m.start
            BY <4>2, <6>1, <6>2, <6>3, Zenon
          <6>5. t.pgend < m.start
            BY <1>1, <6>4
          <6> QED BY <6>3, <6>5
        <5> QED BY <4>1, <4>2, <5>1
      <4> QED BY <1>7, <3>2, <4>3
    <3> QED BY <3>1, <3>2
  <2>6. h2.range[new].pgstart <= h2.range[new].pgend /\ h2.range[new].pgend <= Pages - 1
    BY <1>7, <1>9
  <2>7. Once(m.heap.list) /\ new \notin Ids(m.heap.list)
    BY <1>1, <1>4 DEF HeapOK
  <2>8. \A x \in Ids(m.heap.list) : h2.range[x] = m.heap.range[x]
    BY <1>10
  <2>9. Tidy(InsertAt(m.heap.list, before, new), h2.range)
    <3>1. PICK list, r1, r2 : list = m.heap.list /\ r1 = m.heap.range /\ r2 = h2.range
      OBVIOUS
    <3>2. /\ list \in Lists /\ Once(list) /\ before \in 1 .. Len(list) + 1 /\ new \notin Ids(list)
          /\ Tidy(list, r1) /\ \A x \in Ids(list) : r2[x] = r1[x]
      BY <1>2, <1>3, <1>9, <2>7, <2>8, <3>1
    <3>3. /\ r2[new].pgstart <= r2[new].pgend /\ r2[new].pgend <= Pages - 1
          /\ \A k \in 1 .. Len(list) : IF k < before THEN r2[new].pgend < r1[list[k]].pgstart
                                       ELSE r1[list[k]].pgend < r2[new].pgstart
      BY <2>5, <2>6, <3>1
    <3>4. Tidy(InsertAt(list, before, new), r2)
      BY <3>2, <3>3, TidyInsert
    <3> QED BY <3>1, <3>4
  <2> QED BY <1>6, <2>9
<1>12. ASSUME NEW p \in Int, NEW w
       PROVE  Holds(h2, p, w) <=> Holds(m.heap, p, w) \/ (p \in m.start .. m.end /\ m.purged \in w)
  <2>1. Covers(h2.range, new, p) <=> p \in m.start .. m.end
    BY <1>1, <1>7 DEF Covers
  <2>2. \A x \in Ids(m.heap.list) : Covers(h2.range, x, p) <=> Covers(m.heap.range, x, p)
    BY <1>10 DEF Covers
  <2> QED BY <1>6, <1>7, <1>10, <2>1, <2>2 DEF Holds
<1>13. UnpinnedToo(h0, h2, s, e)
  <2> SUFFICES ASSUME NEW p \in Int
               PROVE  /\ Holds(h2, p, BOOLEAN) <=> (Holds(h0, p, BOOLEAN) \/ p \in s .. e)
                      /\ Holds(h0, p, {TRUE}) => Holds(h2, p, {TRUE})
    BY DEF UnpinnedToo
  <2>1. Holds(h2, p, BOOLEAN) <=> Holds(m.heap, p, BOOLEAN) \/ p \in m.start .. m.end
    <3>1. Holds(h2, p, BOOLEAN) <=> Holds(m.heap, p, BOOLEAN) \/ (p \in m.start .. m.end /\ m.purged \in BOOLEAN)
      BY <1>12
    <3> QED BY <1>1, <3>1
  <2>2. Holds(h2, p, {TRUE}) <=> Holds(m.heap, p, {TRUE}) \/ (p \in m.start .. m.end /\ m.purged \in {TRUE})
    BY <1>12
  <2>3. /\ (Holds(m.heap, p, BOOLEAN) \/ p \in m.start .. m.end) <=> (Holds(h0, p, BOOLEAN) \/ p \in s .. e)
        /\ Holds(h0, p, {TRUE}) => Holds(m.heap, p, {TRUE}) \/ (m.purged = TRUE /\ p \in m.start .. m.end)
    BY DEF UnpinExact
  <2>4. m.purged = TRUE => m.purged \in {TRUE}
    OBVIOUS
  <2> QED BY <2>1, <2>2, <2>3, <2>4
<1> QED BY <1>11, <1>13

-----------------------------------------------------------------------------
(***************************************************************************)
(* The loop of ashmem_release.                                             *)
(***************************************************************************)

\* After k ranges of the list of h0 the other ones are left.
ReleaseOK(h0, o, k, h) ==
  /\ h \in Heaps /\ Follows(h0, o, h)
  /\ \A x : x \in Ids(h.list) <=> \E i \in 1 .. Len(h0.list) : i > k /\ x = h0.list[i]

\* A turn keeps to that.
LEMMA ReleaseKeeps ==
  ASSUME NEW h0, NEW o, HeapOK(h0, o), NEW k \in 1 .. Len(h0.list), NEW h, ReleaseOK(h0, o, k - 1, h)
  PROVE  ReleaseOK(h0, o, k, range_del(h, h0.list[k]))
<1>1. PICK id : id = h0.list[k]
  OBVIOUS
<1>2. PICK h2 : h2 = range_del(h, h0.list[k])
  OBVIOUS
<1>3. HeapOK(h, o) /\ Len(h0.list) \in Nat
  <2>1. h0.list \in Lists
    BY HeapParts DEF HeapOK
  <2> QED BY <2>1 DEF ReleaseOK, Follows, Lists
<1>4. id \in Ids(h.list)
  <2>1. k > k - 1
    BY <1>3
  <2> QED BY <1>1, <2>1 DEF ReleaseOK
<1>5. Deleted(h, o, h2, id)
  BY <1>1, <1>2, <1>3, <1>4, DelOK
<1>6. HeapOK(h2, o) /\ Changes(h, h2, id) /\ Ids(h2.list) = Ids(h.list) \ {id}
  BY <1>5 DEF Deleted
<1>7. Follows(h0, o, h2)
  <2>1. \A x \in o : x \in RangeIds /\ x # id
    BY <1>3, <1>4 DEF HeapOK
  <2> QED BY <1>6, <2>1 DEF Follows, ReleaseOK, Changes
<1>8. ASSUME NEW x PROVE x \in Ids(h2.list) <=> \E i \in 1 .. Len(h0.list) : i > k /\ x = h0.list[i]
  <2>1. \A i \in 1 .. Len(h0.list) : h0.list[i] = id <=> i = k
    BY <1>1 DEF HeapOK, Once
  <2>2. \A i \in 1 .. Len(h0.list) : i > k - 1 /\ i # k <=> i > k
    BY <1>3
  <2>3. x \in Ids(h.list) <=> \E i \in 1 .. Len(h0.list) : i > k - 1 /\ x = h0.list[i]
    BY DEF ReleaseOK
  <2> QED BY <1>6, <2>1, <2>2, <2>3
<1>9. h2 \in Heaps
  BY <1>6 DEF HeapOK
<1> QED BY <1>2, <1>7, <1>8, <1>9 DEF ReleaseOK

\* None is left after the loop.
LEMMA ReleaseLoopExact ==
  ASSUME NEW a, NEW o, HeapOK(Heap(a), o)
  PROVE  Follows(Heap(a), o, ReleaseLoop(a)) /\ Ids(ReleaseLoop(a).list) = {}
<1> DEFINE list == unpinned_list[a]
           h0 == Heap(a)
           N == Len(list)
           IsAfter(g) == g = [k \in 0 .. Len(list) |-> IF k = 0 THEN Heap(a) ELSE range_del(g[k - 1], list[k])]
           after == CHOOSE g : IsAfter(g)
           c == [x \in (1 .. N) \X Heaps |-> range_del(x[2], list[x[1]])]
           H == {x \in (0 .. N) \X Heaps : ReleaseOK(h0, o, x[1], x[2])}
<1>1. ReleaseLoop(a) = after[Len(list)]
  BY Zenon DEF ReleaseLoop
<1>2. h0.list = list /\ h0 \in Heaps /\ N \in Nat /\ HeapOK(h0, o)
  <2>1. h0.list = list
    BY DEF Heap
  <2>2. h0 \in Heaps
    BY DEF HeapOK
  <2>3. list \in Lists
    BY <2>1, <2>2, HeapParts
  <2> HIDE DEF h0
  <2>4. N \in Nat
    BY <2>3 DEF Lists
  <2> QED BY <2>1, <2>2, <2>4 DEF h0
<1> HIDE DEF h0, list
<1>3. \A i : \A v : <<i, v>> \in H <=> i \in 0 .. N /\ v \in Heaps /\ ReleaseOK(h0, o, i, v)
  OBVIOUS
<1>4. H \subseteq (0 .. N) \X Heaps
  OBVIOUS
<1> HIDE DEF H
<1>5. <<0, h0>> \in H
  <2>1. \A i \in 1 .. Len(h0.list) : i > 0
    BY <1>2
  <2>2. ReleaseOK(h0, o, 0, h0)
    BY <1>2, <2>1 DEF ReleaseOK, Follows, Ids
  <2> QED BY <1>2, <1>3, <2>2
<1>6. ASSUME NEW i \in 1 .. N, NEW v, <<i - 1, v>> \in H PROVE <<i, range_del(v, list[i])>> \in H
  <2>1. ReleaseOK(h0, o, i - 1, v) /\ i \in 1 .. Len(h0.list) /\ list[i] = h0.list[i]
    BY <1>2, <1>3, <1>6
  <2>2. ReleaseOK(h0, o, i, range_del(v, list[i]))
    BY <1>2, <2>1, ReleaseKeeps
  <2>3. i \in 0 .. N /\ range_del(v, list[i]) \in Heaps
    BY <1>2, <2>2 DEF ReleaseOK
  <2> QED BY <1>3, <2>2, <2>3
<1>7. \A i \in 1 .. N : \A v \in Heaps : c[<<i, v>>] = range_del(v, list[i])
  OBVIOUS
<1> HIDE DEF c
<1>8. \A i \in 1 .. N : \A v \in Heaps : <<i - 1, v>> \in H => <<i, c[<<i, v>>]>> \in H
  BY <1>6, <1>7
<1>9. PICK f : f \in [0 .. N -> Heaps] /\ Loop(f, N, h0, c)
  BY <1>2, <1>4, <1>5, <1>8, LoopKeeps
<1>10. \A i \in 0 .. N : i # 0 => c[<<i, f[i - 1]>>] = range_del(f[i - 1], list[i])
  <2> SUFFICES ASSUME NEW i \in 0 .. N, i # 0 PROVE c[<<i, f[i - 1]>>] = range_del(f[i - 1], list[i])
    OBVIOUS
  <2>1. i \in 1 .. N /\ i - 1 \in 0 .. N
    BY <1>2
  <2> QED BY <1>7, <1>9, <2>1
<1>11. IsAfter(f)
  BY <1>9, <1>10 DEF Loop, h0
<1>12. IsAfter(after)
  <2> HIDE DEF IsAfter
  <2> QED BY <1>11, Zenon
<1> HIDE DEF after
<1>13. after[0] = h0 /\ \A i \in 1 .. N : after[i] = range_del(after[i - 1], list[i])
  <2>1. 0 \in 0 .. N /\ \A i \in 1 .. N : i \in 0 .. N /\ i # 0
    BY <1>2
  <2> QED BY <1>12, <2>1 DEF h0
<1> DEFINE S == {k \in Nat : k <= N => <<k, after[k]>> \in H}
<1> HIDE DEF IsAfter
<1>14. 0 \in S
  BY <1>5, <1>13
<1>15. ASSUME NEW n \in Nat, n \in S PROVE n + 1 \in S
  <2> SUFFICES ASSUME n + 1 <= N PROVE <<n + 1, after[n + 1]>> \in H
    OBVIOUS
  <2>1. n + 1 \in 1 .. N /\ (n + 1) - 1 = n /\ <<n, after[n]>> \in H
    BY <1>2, <1>15
  <2>2. after[n + 1] = range_del(after[n], list[n + 1])
    BY <1>13, <2>1
  <2> QED BY <1>6, <2>1, <2>2
<1> HIDE DEF S
<1>16. N \in S
  BY <1>2, <1>14, <1>15, SetInduction
<1>17. ReleaseOK(h0, o, N, after[N])
  BY <1>2, <1>3, <1>16 DEF S
<1>18. \A i \in 1 .. Len(h0.list) : ~ (i > N)
  BY <1>2
<1>19. Ids(after[N].list) = {}
  BY <1>17, <1>18 DEF ReleaseOK
<1> QED BY <1>1, <1>17, <1>19 DEF ReleaseOK, h0

-----------------------------------------------------------------------------
(***************************************************************************)
(* All areas.                                                              *)
(***************************************************************************)

\* The ranges of the other areas.
Others(u, a) == UNION {Ids(u[b]) : b \in Areas \ {a}}

InUse(u) == UNION {Ids(u[b]) : b \in Areas}

\* The invariant of the lists u, the table r, the LRU list l and its count c:
\* no range is on two lists or twice on one, and the LRU list is exact.
ListsOK(u, r, l, c) ==
  /\ u \in [Areas -> Lists] /\ r \in Tables /\ l \in Lists /\ c \in Int
  /\ \A a \in Areas : Once(u[a])
  /\ \A a, b \in Areas : a # b => Ids(u[a]) \cap Ids(u[b]) = {}
  /\ Once(l)
  /\ \A id \in RangeIds : id \in Ids(l) <=> (id \in InUse(u) /\ r[id].purged = FALSE)
  /\ c = Total(r, l)

\* What is of one area.
LEMMA HeapOfLists ==
  ASSUME NEW u, NEW r, NEW l, NEW c, ListsOK(u, r, l, c), NEW a \in Areas,
         NEW h, h = [list |-> u[a], range |-> r, lru |-> l, count |-> c]
  PROVE  HeapOK(h, Others(u, a)) /\ InUse(u) = Ids(u[a]) \cup Others(u, a)
<1>1. h.list = u[a] /\ h.range = r /\ h.lru = l /\ h.count = c
  OBVIOUS
<1>2. h \in Heaps
  BY DEF Heaps, ListsOK
<1>3. InUse(u) = Ids(u[a]) \cup Others(u, a)
  BY DEF InUse, Others
<1>4. Others(u, a) \subseteq RangeIds
  BY ElementInSet DEF Others, ListsOK, Ids, Lists
<1>5. Ids(u[a]) \cap Others(u, a) = {}
  BY DEF Others, ListsOK
<1> QED BY <1>1, <1>2, <1>3, <1>4, <1>5 DEF HeapOK, ListsOK

\* A step on one area.
LEMMA ListsOfHeap ==
  ASSUME NEW u, NEW r, NEW l, NEW c, ListsOK(u, r, l, c), NEW a \in Areas, NEW h2, HeapOK(h2, Others(u, a)),
         NEW u2, u2 = [u EXCEPT ![a] = h2.list]
  PROVE  ListsOK(u2, h2.range, h2.lru, h2.count)
<1>1. h2.list \in Lists /\ h2.range \in Tables /\ h2.lru \in Lists /\ h2.count \in Int
  BY HeapParts DEF HeapOK
<1>2. u2 \in [Areas -> Lists] /\ u2[a] = h2.list /\ \A b \in Areas : b # a => u2[b] = u[b]
  BY <1>1 DEF ListsOK
<1>3. \A b \in Areas : Once(u2[b])
  BY <1>2 DEF ListsOK, HeapOK
<1>4. \A b \in Areas : b # a => Ids(u[b]) \subseteq Others(u, a)
  BY DEF Others
<1>5. ASSUME NEW b1 \in Areas, NEW b2 \in Areas, b1 # b2 PROVE Ids(u2[b1]) \cap Ids(u2[b2]) = {}
  <2>1. Ids(h2.list) \cap Others(u, a) = {}
    BY DEF HeapOK
  <2>2. CASE b1 = a
    BY <1>2, <1>4, <1>5, <2>1, <2>2
  <2>3. CASE b2 = a
    BY <1>2, <1>4, <1>5, <2>1, <2>3
  <2>4. CASE b1 # a /\ b2 # a
    BY <1>2, <1>5, <2>4 DEF ListsOK
  <2> QED BY <2>2, <2>3, <2>4
<1>6. InUse(u2) = Ids(h2.list) \cup Others(u, a)
  BY <1>2 DEF InUse, Others
<1> QED BY <1>1, <1>2, <1>3, <1>5, <1>6 DEF ListsOK, HeapOK

\* Page p is in a range of area a whose purged is one of w.
HoldsIn(u, r, a, p, w) == \E id \in Ids(u[a]) : Covers(r, id, p) /\ r[id].purged \in w

\* A step on area a that leaves its heap as h2 turns lists u and table r into u2
\* and r2, and the other areas do not notice.
AreaOnly(u, r, a, h2, u2, r2) ==
  /\ ListsOK(u2, r2, h2.lru, h2.count)
  /\ (\A b \in Areas : Tidy(u[b], r)) /\ Tidy(h2.list, h2.range) => \A b \in Areas : Tidy(u2[b], r2)
  /\ \A b \in Areas : b # a => \A p, w : HoldsIn(u2, r2, b, p, w) <=> HoldsIn(u, r, b, p, w)
  /\ \A p, w : HoldsIn(u2, r2, a, p, w) <=> Holds(h2, p, w)

LEMMA AreaStep ==
  ASSUME NEW u, NEW r, NEW l, NEW c, ListsOK(u, r, l, c), NEW a \in Areas,
         NEW h0, h0 = [list |-> u[a], range |-> r, lru |-> l, count |-> c],
         NEW h2, Follows(h0, Others(u, a), h2),
         NEW u2, u2 = [u EXCEPT ![a] = h2.list], NEW r2, r2 = h2.range
  PROVE  AreaOnly(u, r, a, h2, u2, r2)
<1>1. HeapOK(h2, Others(u, a)) /\ h0.range = r
  BY DEF Follows
<1>2. ListsOK(u2, r2, h2.lru, h2.count)
  BY <1>1, ListsOfHeap
<1>3. u2[a] = h2.list /\ \A b \in Areas : b # a => u2[b] = u[b]
  BY DEF ListsOK
<1>4. \A b \in Areas : b # a => \A id \in Ids(u[b]) : r2[id] = r[id]
  BY <1>1 DEF Follows, Others
<1>5. ASSUME NEW b \in Areas, b # a, Tidy(u[b], r) PROVE Tidy(u2[b], r2)
  <2>1. u2[b] = u[b] /\ \A id \in Ids(u[b]) : r2[id] = r[id]
    BY <1>3, <1>4, <1>5
  <2>2. \A i \in 1 .. Len(u[b]) : r2[u[b][i]] = r[u[b][i]]
    BY <2>1 DEF Ids
  <2> QED BY <1>5, <2>1, <2>2 DEF Tidy
<1>6. ASSUME NEW b \in Areas, b # a, NEW p, NEW w PROVE HoldsIn(u2, r2, b, p, w) <=> HoldsIn(u, r, b, p, w)
  <2>1. u2[b] = u[b] /\ \A id \in Ids(u[b]) : r2[id] = r[id]
    BY <1>3, <1>4, <1>6
  <2> QED BY <2>1 DEF HoldsIn, Covers
<1>7. \A p, w : HoldsIn(u2, r2, a, p, w) <=> Holds(h2, p, w)
  BY <1>3 DEF HoldsIn, Holds
<1>8. (\A b \in Areas : Tidy(u[b], r)) /\ Tidy(h2.list, h2.range) => \A b \in Areas : Tidy(u2[b], r2)
  BY <1>3, <1>5
<1> QED BY <1>2, <1>6, <1>7, <1>8 DEF AreaOnly

\* ashmem_pin_unpin lets only intervals of the area pass, and empty ones only if
\* somebody asks for them.
LEMMA PinInterval ==
  ASSUME PagesAssumption, NEW offset \in 0 .. Wrap - 1, NEW len \in 0 .. Wrap - 1, PinValid(offset, len),
         EmptyPins \/ PinLen(offset, len) # 0
  PROVE  /\ Interval(offset, offset + PinLen(offset, len) - 1)
         /\ EmptyPins \/ offset <= offset + PinLen(offset, len) - 1
<1>1. Pages \in Nat /\ Wrap \in Nat /\ Wrap > 0 /\ offset \in Nat /\ len \in Nat
  BY DEF PagesAssumption
<1>2. PinLen(offset, len) \in Nat
  <2>1. (Pages - offset) % Wrap \in Nat
    <3>1. Pages - offset \in Int
      BY <1>1
    <3> QED BY <1>1, <3>1, Z3
  <2> QED BY <1>1, <2>1 DEF PinLen
<1>3. offset + PinLen(offset, len) <= Pages
  BY DEF PinValid
<1> QED BY <1>1, <1>2, <1>3 DEF Interval

-----------------------------------------------------------------------------
(***************************************************************************)
(* The operations on an area.                                              *)
(***************************************************************************)
AshOK ==
  /\ ListsOK(unpinned_list, range, lru_list, lru_count)
  /\ opened \subseteq Areas /\ lost \in [Areas -> SUBSET Int]

\* What a step on area a leaves of h0 in h2, where the new record of the lost
\* pages is l2.
PinDone(h0, o, h2, a, s, e, l2) ==
  /\ Follows(h0, o, h2)
  /\ l2 = lost \/ l2 = [lost EXCEPT ![a] = @ \ (s .. e)]
  /\ Tidy(h0.list, h0.range) /\ s <= e =>
       /\ Tidy(h2.list, h2.range)
       /\ ~ AllocFails => Pinned(h0, h2, s, e)
       /\ l2 = lost => \A p \in s .. e : ~ Holds(h0, p, {TRUE}) \/ p \notin lost[a]

UnpinDone(h0, o, h2, s, e) ==
  /\ Follows(h0, o, h2)
  /\ Tidy(h0.list, h0.range) /\ s <= e =>
       /\ Tidy(h2.list, h2.range)
       /\ ~ AllocFails => UnpinnedToo(h0, h2, s, e)

\* The heap of an area.
LEMMA HeapOfArea ==
  ASSUME AshOK, NEW a \in Areas, NEW h0, h0 = Heap(a), NEW o, o = Others(unpinned_list, a)
  PROVE  /\ HeapOK(h0, o) /\ h0.list = unpinned_list[a] /\ h0.range = range
         /\ h0 = [list |-> unpinned_list[a], range |-> range, lru |-> lru_list, count |-> lru_count]
         /\ Used = Ids(h0.list) \cup o
<1>1. h0 = [list |-> unpinned_list[a], range |-> range, lru |-> lru_list, count |-> lru_count]
  BY DEF Heap
<1>2. HeapOK(h0, o) /\ InUse(unpinned_list) = Ids(unpinned_list[a]) \cup o
  BY <1>1, HeapOfLists DEF AshOK
<1>3. Used = InUse(unpinned_list)
  <2>1. \A b \in Areas : Range(unpinned_list[b]) = Ids(unpinned_list[b])
    <3> SUFFICES ASSUME NEW b \in Areas PROVE Range(unpinned_list[b]) = Ids(unpinned_list[b])
      OBVIOUS
    <3>1. unpinned_list[b] \in Seq(RangeIds)
      BY DEF AshOK, ListsOK, Lists
    <3>2. DOMAIN unpinned_list[b] = 1 .. Len(unpinned_list[b])
      BY <3>1
    <3> QED BY <3>2 DEF Range, Ids
  <2> QED BY <2>1 DEF Used, InUse
<1> QED BY <1>1, <1>2, <1>3

\* ashmem_pin.
LEMMA PinAction ==
  ASSUME PagesAssumption, AshOK, NEW a \in Areas, NEW s, NEW e, Interval(s, e), ashmem_pin(a, s, e),
         NEW h0, h0 = Heap(a), NEW o, o = Others(unpinned_list, a)
  PROVE  \E h2 : SetHeap(a, h2) /\ PinDone(h0, o, h2, a, s, e, lost')
<1>3. PICK m : m = PinLoop(a, s, e)
  OBVIOUS
<1>4. HeapOK(h0, o) /\ h0.list = unpinned_list[a] /\ h0.range = range /\ Used = Ids(h0.list) \cup o
  BY HeapOfArea
<1>5. /\ PinOK(h0, o, Len(h0.list), m)
      /\ Tidy(h0.list, h0.range) /\ s <= e => PinExact(h0, s, e, Len(h0.list), m)
  BY <1>3, <1>4, PinLoopExact
<1>6. s \in Nat /\ e \in Int
  BY DEF Interval
<1>8. \/ m.hole = {} /\ SetHeap(a, m.heap)
      \/ \E id \in m.hole, new \in RangeIds \ Used :
           SetHeap(a, lower_side(upper_side(m.heap, id, new, e), id, s))
      \/ \E id \in m.hole : AllocFails /\ SetHeap(a, lower_side(m.heap, id, s))
  BY <1>3 DEF ashmem_pin
<1>9. /\ lost' = lost \/ lost' = [lost EXCEPT ![a] = @ \ (s .. e)]
      /\ lost' = lost => m.told = FALSE \/ lost[a] \cap (s .. e) = {}
  <2>1. lost' = [lost EXCEPT ![a] = IF m.told THEN @ \ (s .. e) ELSE @]
    BY <1>3 DEF ashmem_pin
  <2>2. m.told \in BOOLEAN /\ lost \in [Areas -> SUBSET Int]
    BY <1>5 DEF PinOK, Pins, AshOK
  <2>3. CASE m.told = TRUE
    <3>1. lost' = [lost EXCEPT ![a] = @ \ (s .. e)]
      BY <2>1, <2>3
    <3>2. lost' = lost => lost[a] = lost[a] \ (s .. e)
      BY <2>2, <3>1
    <3> QED BY <3>1, <3>2
  <2>4. CASE m.told = FALSE
    <3>1. lost' = lost
      BY <2>1, <2>2, <2>4
    <3> QED BY <2>4, <3>1
  <2> QED BY <2>2, <2>3, <2>4
<1>10. ASSUME Tidy(h0.list, h0.range), s <= e, lost' = lost
       PROVE  \A p \in s .. e : ~ Holds(h0, p, {TRUE}) \/ p \notin lost[a]
  <2>1. m.told = FALSE => \A p \in s .. e : ~ Holds(h0, p, {TRUE})
    BY <1>4, <1>5, <1>10, PinEnd
  <2> QED BY <1>9, <1>10, <2>1
<1>11. CASE m.hole = {} /\ SetHeap(a, m.heap)
  <2>1. /\ Follows(h0, o, m.heap)
        /\ PinExact(h0, s, e, Len(h0.list), m) =>
             Tidy(m.heap.list, m.heap.range) /\ Pinned(h0, m.heap, s, e)
    BY <1>4, <1>5, <1>6, <1>11, PinNoHole
  <2>2. PinDone(h0, o, m.heap, a, s, e, lost')
    BY <1>5, <1>9, <1>10, <2>1 DEF PinDone
  <2> QED BY <1>11, <2>2
<1>12. CASE \E id \in m.hole, new \in RangeIds \ Used :
              SetHeap(a, lower_side(upper_side(m.heap, id, new, e), id, s))
  <2>1. PICK id \in m.hole, new \in RangeIds \ Used :
          SetHeap(a, lower_side(upper_side(m.heap, id, new, e), id, s))
    BY <1>12
  <2>2. PICK h2 : h2 = lower_side(upper_side(m.heap, id, new, e), id, s)
    OBVIOUS
  <2>3. new \in RangeIds /\ new \notin Ids(h0.list) \cup o
    BY <1>4, <2>1
  <2>4. /\ Follows(h0, o, h2)
        /\ s <= e /\ PinExact(h0, s, e, Len(h0.list), m) =>
             Tidy(h2.list, h2.range) /\ Pinned(h0, h2, s, e)
    BY <1>4, <1>5, <2>1, <2>2, <2>3, PinBoth
  <2>5. PinDone(h0, o, h2, a, s, e, lost')
    BY <1>5, <1>9, <1>10, <2>4 DEF PinDone
  <2> QED BY <2>1, <2>2, <2>5
<1>13. CASE \E id \in m.hole : AllocFails /\ SetHeap(a, lower_side(m.heap, id, s))
  <2>1. PICK id \in m.hole : AllocFails /\ SetHeap(a, lower_side(m.heap, id, s))
    BY <1>13
  <2>2. PICK h2 : h2 = lower_side(m.heap, id, s)
    OBVIOUS
  <2>3. /\ Follows(h0, o, h2)
        /\ s <= e /\ PinExact(h0, s, e, Len(h0.list), m) => Tidy(h2.list, h2.range)
    BY <1>4, <1>5, <1>6, <2>1, <2>2, PinLower
  <2>4. PinDone(h0, o, h2, a, s, e, lost')
    BY <1>5, <1>9, <1>10, <2>1, <2>3 DEF PinDone
  <2> QED BY <2>1, <2>2, <2>4
<1> QED BY <1>8, <1>11, <1>12, <1>13

\* ashmem_unpin.
LEMMA UnpinAction ==
  ASSUME PagesAssumption, AshOK, NEW a \in Areas, NEW s, NEW e, Interval(s, e), ashmem_unpin(a, s, e),
         NEW h0, h0 = Heap(a), NEW o, o = Others(unpinned_list, a)
  PROVE  lost' = lost /\ \E h2 : SetHeap(a, h2) /\ UnpinDone(h0, o, h2, s, e)
<1>1. PICK m : m = UnpinLoop(a, s, e)
  OBVIOUS
<1>2. HeapOK(h0, o) /\ h0.list = unpinned_list[a] /\ h0.range = range /\ Used = Ids(h0.list) \cup o
  BY HeapOfArea
<1>3. /\ UnpinOK(h0, o, Len(h0.list) + 1, m)
      /\ Tidy(h0.list, h0.range) /\ s <= e => UnpinExact(h0, s, e, m)
  BY <1>1, <1>2, UnpinLoopExact
<1>4. Settled(m)
  BY <1>2, <1>3, UnpinSettles
<1>5. /\ \/ Subsumed(m) /\ SetHeap(a, m.heap)
         \/ /\ ~ Subsumed(m)
            /\ \E new \in RangeIds \ Used :
                 SetHeap(a, range_alloc(m.heap, new, Place(m), m.purged, m.start, m.end))
         \/ ~ Subsumed(m) /\ AllocFails /\ SetHeap(a, m.heap)
      /\ lost' = lost
  BY <1>1 DEF ashmem_unpin, Place
<1>6. Follows(h0, o, m.heap) /\ (UnpinExact(h0, s, e, m) => Tidy(m.heap.list, m.heap.range))
  BY <1>3 DEF UnpinOK, UnpinExact
<1>7. CASE Subsumed(m) /\ SetHeap(a, m.heap)
  <2>1. UnpinExact(h0, s, e, m) => UnpinnedToo(h0, m.heap, s, e)
    BY <1>3, <1>7, UnpinSubsumed
  <2>2. UnpinDone(h0, o, m.heap, s, e)
    BY <1>3, <1>6, <2>1 DEF UnpinDone
  <2> QED BY <1>5, <1>7, <2>2
<1>8. CASE /\ ~ Subsumed(m)
           /\ \E new \in RangeIds \ Used :
                SetHeap(a, range_alloc(m.heap, new, Place(m), m.purged, m.start, m.end))
  <2>1. PICK new \in RangeIds \ Used :
          SetHeap(a, range_alloc(m.heap, new, Place(m), m.purged, m.start, m.end))
    BY <1>8
  <2>2. PICK before : before = Place(m)
    OBVIOUS
  <2>3. PICK h2 : h2 = range_alloc(m.heap, new, before, m.purged, m.start, m.end)
    OBVIOUS
  <2>4. new \in RangeIds /\ new \notin Ids(h0.list) \cup o
    BY <1>2, <2>1
  <2>5. /\ Follows(h0, o, h2)
        /\ UnpinExact(h0, s, e, m) => Tidy(h2.list, h2.range) /\ UnpinnedToo(h0, h2, s, e)
    BY <1>2, <1>3, <1>4, <1>8, <2>2, <2>3, <2>4, UnpinInserts
  <2>6. UnpinDone(h0, o, h2, s, e)
    BY <1>3, <2>5 DEF UnpinDone
  <2> QED BY <1>5, <2>1, <2>2, <2>3, <2>6
<1>9. CASE AllocFails /\ SetHeap(a, m.heap)
  <2>1. UnpinDone(h0, o, m.heap, s, e)
    BY <1>3, <1>6, <1>9 DEF UnpinDone
  <2> QED BY <1>5, <1>9, <2>1
<1> QED BY <1>5, <1>7, <1>8, <1>9

\* ashmem_shrink takes the first ranges of the LRU list off it and marks them.
Shrunk(gone, u, r, ls, r2, ls2) ==
  /\ gone \subseteq RangeIds
  /\ \A id \in RangeIds : /\ r2[id].pgstart = r[id].pgstart /\ r2[id].pgend = r[id].pgend
                          /\ r2[id].purged = IF id \in gone THEN TRUE ELSE r[id].purged
  /\ ls2 \in [Areas -> SUBSET Int]
  /\ \A a \in Areas : \A p : p \in ls2[a] <=>
       p \in ls[a] \/ (p \in Int /\ \E id \in gone \cap Ids(u[a]) : Covers(r, id, p))

\* ashmem_shrink.
LEMMA ShrinkAction ==
  ASSUME PagesAssumption, AshOK, NEW nr, nr \in Nat, ashmem_shrink(nr)
  PROVE  /\ unpinned_list' = unpinned_list /\ opened' = opened
         /\ ListsOK(unpinned_list, range', lru_list', lru_count')
         /\ \E gone : Shrunk(gone, unpinned_list, range, lost, range', lost')
<1> DEFINE freed == sizes(range, lru_list)
           K == {k \in 1 .. Len(lru_list) : freed[k] >= nr} \cup {Len(lru_list)}
           n == Min(K)
           gone == Range(SubSeq(lru_list, 1, n))
<1>1. /\ unpinned_list \in [Areas -> Lists] /\ range \in Tables /\ lru_list \in Lists /\ lru_count \in Int
      /\ lru_count = Total(range, lru_list) /\ Once(lru_list) /\ lost \in [Areas -> SUBSET Int]
  BY DEF AshOK, ListsOK
<1>2. /\ lru_list # <<>>
      /\ range' = [id \in RangeIds |-> IF id \in gone THEN [range[id] EXCEPT !.purged = TRUE] ELSE range[id]]
      /\ lru_list' = SubSeq(lru_list, n + 1, Len(lru_list))
      /\ lru_count' = lru_count - freed[n]
      /\ lost' = [a \in Areas |-> lost[a] \cup
           UNION {range[id].pgstart .. range[id].pgend : id \in gone \cap Range(unpinned_list[a])}]
      /\ unpinned_list' = unpinned_list /\ opened' = opened
  BY Zenon DEF ashmem_shrink
<1>3. Len(lru_list) \in Nat /\ Len(lru_list) > 0
  BY <1>1, <1>2 DEF Lists
<1>4. n \in 1 .. Len(lru_list)
  <2>1. K \in SUBSET Nat /\ K # {} /\ K \subseteq 1 .. Len(lru_list)
    BY <1>3
  <2> HIDE DEF K
  <2>2. \E x \in K : \A y \in K : x <= y
    BY <2>1, LeastElement
  <2>3. Min(K) \in K
    BY <2>2, Zenon DEF Min
  <2> QED BY <2>1, <2>3
<1> HIDE DEF n, freed
<1>5. gone = {lru_list[i] : i \in 1 .. n} /\ gone \subseteq RangeIds
  <2>1. n + 1 \in 1 .. Len(lru_list) + 1 /\ (n + 1) - 1 = n /\ n \in Nat
    BY <1>3, <1>4
  <2>2. lru_list \in Seq(RangeIds)
    BY <1>1 DEF Lists
  <2>3. /\ SubSeq(lru_list, 1, (n + 1) - 1) \in Seq(RangeIds)
        /\ Len(SubSeq(lru_list, 1, (n + 1) - 1)) = (n + 1) - 1
        /\ \A k \in 1 .. (n + 1) - 1 : SubSeq(lru_list, 1, (n + 1) - 1)[k] = lru_list[k]
    BY <2>1, <2>2, Prefix
  <2>4. PICK pre : pre = SubSeq(lru_list, 1, n)
    OBVIOUS
  <2>5. pre \in Seq(RangeIds) /\ Len(pre) = n /\ \A k \in 1 .. n : pre[k] = lru_list[k]
    BY <2>1, <2>3, <2>4
  <2>6. DOMAIN pre = 1 .. n /\ \A k \in 1 .. n : pre[k] \in RangeIds
    BY <2>1, <2>5, ElementInSet
  <2>7. Range(pre) = {lru_list[i] : i \in 1 .. n} /\ Range(pre) \subseteq RangeIds
    BY <2>5, <2>6 DEF Range
  <2> QED BY <2>4, <2>7
<1> HIDE DEF gone
<1>6. \A id \in RangeIds : /\ range'[id] \in Ranges
                           /\ range'[id].pgstart = range[id].pgstart /\ range'[id].pgend = range[id].pgend
                           /\ range'[id].purged = IF id \in gone THEN TRUE ELSE range[id].purged
  <2> SUFFICES ASSUME NEW id \in RangeIds
               PROVE  /\ range'[id] \in Ranges
                      /\ range'[id].pgstart = range[id].pgstart /\ range'[id].pgend = range[id].pgend
                      /\ range'[id].purged = IF id \in gone THEN TRUE ELSE range[id].purged
    OBVIOUS
  <2>1. range[id] \in Ranges
    BY <1>1 DEF Tables
  <2>2. range'[id] = IF id \in gone THEN [range[id] EXCEPT !.purged = TRUE] ELSE range[id]
    BY <1>2
  <2>3. CASE id \in gone
    BY <2>1, <2>2, <2>3 DEF Ranges
  <2>4. CASE id \notin gone
    BY <2>1, <2>2, <2>4 DEF Ranges
  <2> QED BY <2>3, <2>4
<1>7. range' \in Tables
  BY <1>2, <1>6 DEF Tables
<1>8. /\ lru_list' \in Lists /\ Len(lru_list') = Len(lru_list) - n
      /\ \A k \in 1 .. Len(lru_list) - n : lru_list'[k] = lru_list[n + k]
  <2>1. n + 1 \in 1 .. Len(lru_list) + 1 /\ Len(lru_list) - (n + 1) + 1 = Len(lru_list) - n
        /\ \A k \in 1 .. Len(lru_list) - n : (n + 1) + k - 1 = n + k
    BY <1>3, <1>4
  <2>2. lru_list \in Seq(RangeIds)
    BY <1>1 DEF Lists
  <2>3. /\ SubSeq(lru_list, n + 1, Len(lru_list)) \in Seq(RangeIds)
        /\ Len(SubSeq(lru_list, n + 1, Len(lru_list))) = Len(lru_list) - (n + 1) + 1
        /\ \A k \in 1 .. Len(lru_list) - (n + 1) + 1 :
             SubSeq(lru_list, n + 1, Len(lru_list))[k] = lru_list[(n + 1) + k - 1]
    BY <2>1, <2>2, Suffix
  <2> QED BY <1>2, <2>1, <2>3 DEF Lists
<1>9. Once(lru_list')
  <2> SUFFICES ASSUME NEW i \in 1 .. Len(lru_list'), NEW j \in 1 .. Len(lru_list'), lru_list'[i] = lru_list'[j]
               PROVE  i = j
    BY DEF Once
  <2>1. i \in 1 .. Len(lru_list) - n /\ j \in 1 .. Len(lru_list) - n
    BY <1>8
  <2>2. n + i \in 1 .. Len(lru_list) /\ n + j \in 1 .. Len(lru_list)
    BY <1>3, <1>4, <2>1
  <2>3. lru_list[n + i] = lru_list[n + j]
    BY <1>8, <2>1
  <2>4. n + i = n + j
    BY <1>1, <2>2, <2>3 DEF Once
  <2> QED BY <1>3, <1>4, <2>1, <2>4
<1>10. Ids(lru_list') = Ids(lru_list) \ gone
  <2>1. ASSUME NEW x \in Ids(lru_list') PROVE x \in Ids(lru_list) /\ x \notin gone
    <3>1. PICK k \in 1 .. Len(lru_list) - n : x = lru_list'[k]
      BY <1>8 DEF Ids
    <3>2. n + k \in 1 .. Len(lru_list) /\ n + k \notin 1 .. n /\ x = lru_list[n + k]
      BY <1>3, <1>4, <1>8, <3>1
    <3>3. \A i \in 1 .. n : i \in 1 .. Len(lru_list)
      BY <1>3, <1>4
    <3>4. \A i \in 1 .. n : lru_list[i] # x
      BY <1>1, <3>2, <3>3 DEF Once
    <3> QED BY <1>5, <3>2, <3>4 DEF Ids
  <2>2. ASSUME NEW x \in Ids(lru_list), x \notin gone PROVE x \in Ids(lru_list')
    <3>1. PICK i \in 1 .. Len(lru_list) : x = lru_list[i]
      BY DEF Ids
    <3>2. i \notin 1 .. n
      BY <1>5, <2>2, <3>1
    <3>3. i - n \in 1 .. Len(lru_list) - n /\ n + (i - n) = i
      BY <1>3, <1>4, <3>2
    <3>4. x = lru_list'[i - n]
      BY <1>8, <3>1, <3>3
    <3> QED BY <1>8, <3>3, <3>4 DEF Ids
  <2> QED BY <2>1, <2>2
<1>11. lru_count' \in Int /\ lru_count' = Total(range', lru_list')
  <2>1. n \in 0 .. Len(lru_list) /\ n \in 1 .. Len(lru_list)
    BY <1>3, <1>4
  <2>2. Total(range, lru_list') = Total(range, lru_list) - freed[n]
    BY <1>1, <1>2, <2>1, TotalSuffix DEF freed
  <2>3. freed[n] \in Int
    BY <1>1, <2>1, SizesFunction DEF freed
  <2>4. \A id \in Ids(lru_list') : id \in RangeIds
    BY <1>8, ElementInSet DEF Ids, Lists
  <2>5. \A id \in Ids(lru_list') : range_size(range[id]) = range_size(range'[id])
    BY <1>6, <2>4 DEF range_size
  <2>6. Total(range, lru_list') = Total(range', lru_list')
    BY <1>1, <1>7, <1>8, <2>5, TotalFrame
  <2> QED BY <1>1, <1>2, <2>2, <2>3, <2>6
<1>12. \A id \in RangeIds : id \in Ids(lru_list') <=> (id \in InUse(unpinned_list) /\ range'[id].purged = FALSE)
  <2> SUFFICES ASSUME NEW id \in RangeIds
               PROVE  id \in Ids(lru_list') <=> (id \in InUse(unpinned_list) /\ range'[id].purged = FALSE)
    OBVIOUS
  <2>1. id \in Ids(lru_list) <=> (id \in InUse(unpinned_list) /\ range[id].purged = FALSE)
    BY DEF AshOK, ListsOK
  <2>2. CASE id \in gone
    <3>1. range'[id].purged = TRUE
      BY <1>6, <2>2
    <3> QED BY <1>10, <2>2, <3>1
  <2>3. CASE id \notin gone
    <3>1. range'[id].purged = range[id].purged
      BY <1>6, <2>3
    <3> QED BY <1>10, <2>1, <2>3, <3>1
  <2> QED BY <2>2, <2>3
<1>13. ListsOK(unpinned_list, range', lru_list', lru_count')
  BY <1>7, <1>8, <1>9, <1>11, <1>12 DEF AshOK, ListsOK
<1>14. \A a \in Areas : Range(unpinned_list[a]) = Ids(unpinned_list[a])
  <2> SUFFICES ASSUME NEW a \in Areas PROVE Range(unpinned_list[a]) = Ids(unpinned_list[a])
    OBVIOUS
  <2>1. unpinned_list[a] \in Seq(RangeIds)
    BY <1>1 DEF Lists
  <2>2. DOMAIN unpinned_list[a] = 1 .. Len(unpinned_list[a])
    BY <2>1
  <2> QED BY <2>2 DEF Range, Ids
<1>15. \A id \in gone : range[id].pgstart \in Int /\ range[id].pgend \in Int
  <2>1. \A id \in gone : range[id] \in Ranges
    BY <1>1, <1>5 DEF Tables
  <2> QED BY <2>1 DEF Ranges
<1>16. ASSUME NEW a \in Areas
       PROVE  /\ lost'[a] \in SUBSET Int
              /\ \A p : p \in lost'[a] <=>
                   p \in lost[a] \/ (p \in Int /\ \E id \in gone \cap Ids(unpinned_list[a]) : Covers(range, id, p))
  <2>1. lost'[a] = lost[a] \cup
          UNION {range[id].pgstart .. range[id].pgend : id \in gone \cap Ids(unpinned_list[a])}
    BY <1>2, <1>14
  <2>2. \A id \in gone : \A p : p \in range[id].pgstart .. range[id].pgend <=> p \in Int /\ Covers(range, id, p)
    BY <1>15 DEF Covers
  <2>3. lost[a] \in SUBSET Int
    BY <1>1
  <2>4. \A p : p \in lost'[a] <=>
          p \in lost[a] \/ \E id \in gone \cap Ids(unpinned_list[a]) : p \in range[id].pgstart .. range[id].pgend
    BY <2>1
  <2>5. \A p : p \in lost'[a] <=>
          p \in lost[a] \/ (p \in Int /\ \E id \in gone \cap Ids(unpinned_list[a]) : Covers(range, id, p))
    BY <2>2, <2>4
  <2> QED BY <2>3, <2>5
<1>17. lost' \in [Areas -> SUBSET Int]
  <2>1. lost' = [a \in Areas |-> lost'[a]]
    BY <1>2
  <2> QED BY <1>16, <2>1
<1>18. Shrunk(gone, unpinned_list, range, lost, range', lost')
  BY <1>5, <1>6, <1>16, <1>17 DEF Shrunk
<1> QED BY <1>2, <1>13, <1>18

-----------------------------------------------------------------------------
(***************************************************************************)
(* The inductive invariant.                                                *)
(***************************************************************************)
InOrder(u, r) == ~ EmptyPins => \A a \in Areas : Tidy(u[a], r)

\* Every lost page is in a range that is marked as purged.
Remembered(u, r, ls) ==
  ~ EmptyPins /\ ~ AllocFails => \A a \in Areas : \A p \in ls[a] : HoldsIn(u, r, a, p, {TRUE})

AshInv == AshOK /\ InOrder(unpinned_list, range) /\ Remembered(unpinned_list, range, lost)

\* The unpinned pages of an area.
PagesIn(u, r, a) == {p \in Int : HoldsIn(u, r, a, p, BOOLEAN)}

LEMMA PagesAre ==
  ASSUME NEW u, NEW r, NEW l, NEW c, ListsOK(u, r, l, c), NEW a \in Areas
  PROVE  UNION {r[id].pgstart .. r[id].pgend : id \in Range(u[a])} = PagesIn(u, r, a)
<1>1. u[a] \in Seq(RangeIds) /\ r \in Tables
  BY DEF ListsOK, Lists
<1>2. Range(u[a]) = Ids(u[a])
  <2>1. DOMAIN u[a] = 1 .. Len(u[a])
    BY <1>1
  <2> QED BY <2>1 DEF Range, Ids
<1>3. \A id \in Ids(u[a]) : r[id].pgstart \in Int /\ r[id].pgend \in Int /\ r[id].purged \in BOOLEAN
  <2>1. \A id \in Ids(u[a]) : r[id] \in Ranges
    BY <1>1, ElementInSet DEF Ids, Tables
  <2> QED BY <2>1 DEF Ranges
<1>4. \A id \in Ids(u[a]) : \A p :
        p \in r[id].pgstart .. r[id].pgend <=> p \in Int /\ Covers(r, id, p) /\ r[id].purged \in BOOLEAN
  BY <1>3 DEF Covers
<1>5. \A p : p \in PagesIn(u, r, a) <=> p \in Int /\ \E id \in Ids(u[a]) : Covers(r, id, p) /\ r[id].purged \in BOOLEAN
  BY DEF PagesIn, HoldsIn
<1> QED BY <1>2, <1>4, <1>5

\* The value of Unpinned before and after a step.
LEMMA UnpinnedIs ==
  /\ AshOK => Unpinned = [a \in Areas |-> PagesIn(unpinned_list, range, a)]
  /\ AshOK' => Unpinned' = [a \in Areas |-> PagesIn(unpinned_list', range', a)]
<1>1. ASSUME AshOK PROVE Unpinned = [a \in Areas |-> PagesIn(unpinned_list, range, a)]
  <2>1. \A a \in Areas : UnpinnedPages(a) = PagesIn(unpinned_list, range, a)
    BY <1>1, PagesAre DEF AshOK, UnpinnedPages, PagesOf
  <2> QED BY <2>1 DEF Unpinned
<1>2. ASSUME AshOK' PROVE Unpinned' = [a \in Areas |-> PagesIn(unpinned_list', range', a)]
  <2>1. ListsOK(unpinned_list', range', lru_list', lru_count')
    BY <1>2 DEF AshOK
  <2>2. \A a \in Areas : UNION {range'[id].pgstart .. range'[id].pgend : id \in Range(unpinned_list'[a])}
                           = PagesIn(unpinned_list', range', a)
    BY <2>1, PagesAre
  <2> QED BY <2>2 DEF Unpinned, UnpinnedPages, PagesOf
<1> QED BY <1>1, <1>2

\* It holds at first.
LEMMA AshInitInv ==
  ASSUME AshInit
  PROVE  AshInv /\ Unpinned = [a \in Areas |-> {}]
<1> USE DEF AshInit
<1>1. NoRange \in Ranges
  BY DEF NoRange, Ranges
<1>2. unpinned_list \in [Areas -> Lists] /\ range \in Tables /\ lru_list \in Lists /\ lru_count \in Int
  <2>1. <<>> \in Lists
    BY DEF Lists
  <2> QED BY <1>1, <2>1 DEF Tables
<1>3. Len(<<>>) = 0 /\ Ids(<<>>) = {} /\ Once(<<>>)
  BY DEF Ids, Once
<1>4. \A a \in Areas : Ids(unpinned_list[a]) = {} /\ Once(unpinned_list[a]) /\ unpinned_list[a] = <<>>
  BY <1>3
<1>5. InUse(unpinned_list) = {}
  BY <1>4 DEF InUse
<1>6. lru_count = Total(range, lru_list)
  <2>1. sizes(range, lru_list)[0] = 0
    BY <1>2, SizesFunction
  <2> QED BY <1>3, <2>1 DEF Total
<1>7. AshOK
  BY <1>2, <1>3, <1>4, <1>5, <1>6 DEF AshOK, ListsOK
<1>8. InOrder(unpinned_list, range)
  <2>1. \A a \in Areas : Tidy(unpinned_list[a], range)
    BY <1>3, <1>4 DEF Tidy
  <2> QED BY <2>1 DEF InOrder
<1>9. Remembered(unpinned_list, range, lost)
  BY DEF Remembered
<1>10. \A a \in Areas : PagesIn(unpinned_list, range, a) = {}
  BY <1>4 DEF PagesIn, HoldsIn
<1> QED BY <1>7, <1>8, <1>9, <1>10, UnpinnedIs DEF AshInv

\* A step on area a that leaves its heap as h2.
LEMMA AreaAction ==
  ASSUME AshOK, NEW a \in Areas, NEW h0, h0 = Heap(a), NEW h2, SetHeap(a, h2),
         Follows(h0, Others(unpinned_list, a), h2)
  PROVE  /\ AreaOnly(unpinned_list, range, a, h2, unpinned_list', range')
         /\ lru_list' = h2.lru /\ lru_count' = h2.count
<1>1. /\ unpinned_list' = [unpinned_list EXCEPT ![a] = h2.list] /\ range' = h2.range
      /\ lru_list' = h2.lru /\ lru_count' = h2.count
  BY DEF SetHeap
<1>2. h0 = [list |-> unpinned_list[a], range |-> range, lru |-> lru_list, count |-> lru_count]
  BY HeapOfArea
<1>3. PICK u2, r2 : u2 = unpinned_list' /\ r2 = range'
  OBVIOUS
<1>4. AreaOnly(unpinned_list, range, a, h2, u2, r2)
  <2>1. ListsOK(unpinned_list, range, lru_list, lru_count)
    BY DEF AshOK
  <2> QED BY <1>1, <1>2, <1>3, <2>1, AreaStep
<1> QED BY <1>1, <1>3, <1>4

\* ashmem_pin keeps it, and pins the pages.
LEMMA PinInv ==
  ASSUME PagesAssumption, AshInv, NEW a \in Areas, NEW s, NEW e, Interval(s, e), EmptyPins \/ s <= e,
         ashmem_pin(a, s, e)
  PROVE  AshInv' /\ (~ EmptyPins /\ ~ AllocFails => AsPages!Pin(a, s .. e))
<1>0. AshOK
  BY DEF AshInv
<1>1. PICK h0 : h0 = Heap(a)
  OBVIOUS
<1>2. PICK o : o = Others(unpinned_list, a)
  OBVIOUS
<1>3. PICK h2 : SetHeap(a, h2) /\ PinDone(h0, o, h2, a, s, e, lost')
  BY <1>0, <1>1, <1>2, PinAction
<1>4. h0.list = unpinned_list[a] /\ h0.range = range
  BY <1>0, <1>1, <1>2, HeapOfArea
<1>5. lru_list' = h2.lru /\ lru_count' = h2.count /\ opened' = opened
  BY <1>3 DEF SetHeap, ashmem_pin
<1>6. Follows(h0, o, h2)
  BY <1>3 DEF PinDone
<1>7. /\ ListsOK(unpinned_list', range', h2.lru, h2.count)
      /\ (\A b \in Areas : Tidy(unpinned_list[b], range)) /\ Tidy(h2.list, h2.range) =>
           \A b \in Areas : Tidy(unpinned_list'[b], range')
      /\ \A b \in Areas : b # a => \A p, w :
           HoldsIn(unpinned_list', range', b, p, w) <=> HoldsIn(unpinned_list, range, b, p, w)
      /\ \A p, w : HoldsIn(unpinned_list', range', a, p, w) <=> Holds(h2, p, w)
  <2>1. AreaOnly(unpinned_list, range, a, h2, unpinned_list', range')
    BY <1>0, <1>1, <1>2, <1>3, <1>6, AreaAction
  <2> QED BY <2>1 DEF AreaOnly
<1>8. lost \in [Areas -> SUBSET Int]
  BY <1>0 DEF AshOK
<1>9. lost' \in [Areas -> SUBSET Int]
  BY <1>3, <1>8 DEF PinDone
<1>10. AshOK'
  BY <1>0, <1>5, <1>7, <1>9 DEF AshOK
<1>11. ASSUME ~ EmptyPins
       PROVE  /\ \A b \in Areas : Tidy(unpinned_list[b], range)
              /\ Tidy(h0.list, h0.range) /\ s <= e
  BY <1>4, <1>11 DEF AshInv, InOrder
<1>12. InOrder(unpinned_list', range')
  BY <1>3, <1>7, <1>11 DEF InOrder, PinDone
<1>13. \A p, w : HoldsIn(unpinned_list, range, a, p, w) <=> Holds(h0, p, w)
  BY <1>4 DEF HoldsIn, Holds
<1>14. ASSUME ~ EmptyPins, ~ AllocFails
       PROVE  /\ \A p \in Int : \A w : Holds(h2, p, w) <=> (Holds(h0, p, w) /\ p \notin s .. e)
              /\ lost' = [lost EXCEPT ![a] = @ \ (s .. e)]
              /\ \A b \in Areas : \A p \in lost[b] : p \in Int /\ HoldsIn(unpinned_list, range, b, p, {TRUE})
  <2>1. Pinned(h0, h2, s, e)
    BY <1>3, <1>11, <1>14 DEF PinDone
  <2>2. \A b \in Areas : \A p \in lost[b] : p \in Int /\ HoldsIn(unpinned_list, range, b, p, {TRUE})
    BY <1>8, <1>14 DEF AshInv, Remembered
  <2>3. lost' = [lost EXCEPT ![a] = @ \ (s .. e)]
    <3>1. CASE lost' = lost
      <4>1. \A p \in s .. e : ~ Holds(h0, p, {TRUE}) \/ p \notin lost[a]
        BY <1>3, <1>11, <1>14, <3>1 DEF PinDone
      <4>2. lost[a] \ (s .. e) = lost[a]
        BY <1>13, <2>2, <4>1
      <4>3. [lost EXCEPT ![a] = @ \ (s .. e)] = lost
        BY <1>8, <4>2
      <4> QED BY <3>1, <4>3
    <3> QED BY <1>3, <3>1 DEF PinDone
  <2> QED BY <2>1, <2>2, <2>3 DEF Pinned
<1>15. Remembered(unpinned_list', range', lost')
  <2> SUFFICES ASSUME ~ EmptyPins, ~ AllocFails, NEW b \in Areas, NEW p \in lost'[b]
               PROVE  HoldsIn(unpinned_list', range', b, p, {TRUE})
    BY DEF Remembered
  <2>1. CASE b = a
    <3>1. p \in lost[a] /\ p \notin s .. e /\ p \in Int
      BY <1>8, <1>14, <2>1
    <3>2. Holds(h0, p, {TRUE})
      BY <1>13, <1>14, <3>1
    <3>3. Holds(h2, p, {TRUE})
      BY <1>14, <3>1, <3>2
    <3> QED BY <1>7, <2>1, <3>3
  <2>2. CASE b # a
    <3>1. p \in lost[b]
      BY <1>8, <1>14, <2>2
    <3> QED BY <1>7, <1>14, <2>2, <3>1
  <2> QED BY <2>1, <2>2
<1>16. ASSUME ~ EmptyPins, ~ AllocFails PROVE AsPages!Pin(a, s .. e)
  <2>1. PagesIn(unpinned_list', range', a) = PagesIn(unpinned_list, range, a) \ (s .. e)
    <3>1. \A p \in Int : HoldsIn(unpinned_list', range', a, p, BOOLEAN)
                           <=> HoldsIn(unpinned_list, range, a, p, BOOLEAN) /\ p \notin s .. e
      BY <1>7, <1>13, <1>14, <1>16
    <3> QED BY <3>1 DEF PagesIn
  <2>2. \A b \in Areas : b # a => PagesIn(unpinned_list', range', b) = PagesIn(unpinned_list, range, b)
    BY <1>7 DEF PagesIn
  <2>3. PICK u, u2 : u = Unpinned /\ u2 = Unpinned'
    OBVIOUS
  <2>4. /\ u = [b \in Areas |-> PagesIn(unpinned_list, range, b)]
        /\ u2 = [b \in Areas |-> PagesIn(unpinned_list', range', b)]
    BY <1>0, <1>10, <2>3, UnpinnedIs
  <2>5. u2 = [u EXCEPT ![a] = @ \ (s .. e)]
    BY <2>1, <2>2, <2>4
  <2> QED BY <1>14, <1>16, <2>3, <2>5 DEF AsPages!Pin
<1> QED BY <1>10, <1>12, <1>15, <1>16 DEF AshInv

\* ashmem_unpin keeps it, and unpins the pages.
LEMMA UnpinInv ==
  ASSUME PagesAssumption, AshInv, NEW a \in Areas, NEW s, NEW e, Interval(s, e), EmptyPins \/ s <= e,
         ashmem_unpin(a, s, e)
  PROVE  AshInv' /\ (~ EmptyPins /\ ~ AllocFails => AsPages!Unpin(a, s .. e))
<1>0. AshOK
  BY DEF AshInv
<1>1. PICK h0 : h0 = Heap(a)
  OBVIOUS
<1>2. PICK o : o = Others(unpinned_list, a)
  OBVIOUS
<1>3. lost' = lost /\ \E h2 : SetHeap(a, h2) /\ UnpinDone(h0, o, h2, s, e)
  BY <1>0, <1>1, <1>2, UnpinAction
<1>4. PICK h2 : SetHeap(a, h2) /\ UnpinDone(h0, o, h2, s, e)
  BY <1>3
<1>5. h0.list = unpinned_list[a] /\ h0.range = range
  BY <1>0, <1>1, <1>2, HeapOfArea
<1>6. lru_list' = h2.lru /\ lru_count' = h2.count /\ opened' = opened
  BY <1>4 DEF SetHeap, ashmem_unpin
<1>7. Follows(h0, o, h2)
  BY <1>4 DEF UnpinDone
<1>8. /\ ListsOK(unpinned_list', range', h2.lru, h2.count)
      /\ (\A b \in Areas : Tidy(unpinned_list[b], range)) /\ Tidy(h2.list, h2.range) =>
           \A b \in Areas : Tidy(unpinned_list'[b], range')
      /\ \A b \in Areas : b # a => \A p, w :
           HoldsIn(unpinned_list', range', b, p, w) <=> HoldsIn(unpinned_list, range, b, p, w)
      /\ \A p, w : HoldsIn(unpinned_list', range', a, p, w) <=> Holds(h2, p, w)
  <2>1. AreaOnly(unpinned_list, range, a, h2, unpinned_list', range')
    BY <1>0, <1>1, <1>2, <1>4, <1>7, AreaAction
  <2> QED BY <2>1 DEF AreaOnly
<1>9. AshOK'
  BY <1>0, <1>3, <1>6, <1>8 DEF AshOK
<1>10. ASSUME ~ EmptyPins
       PROVE  /\ \A b \in Areas : Tidy(unpinned_list[b], range)
              /\ Tidy(h0.list, h0.range) /\ s <= e
  BY <1>5, <1>10 DEF AshInv, InOrder
<1>11. InOrder(unpinned_list', range')
  BY <1>4, <1>8, <1>10 DEF InOrder, UnpinDone
<1>12. \A p, w : HoldsIn(unpinned_list, range, a, p, w) <=> Holds(h0, p, w)
  BY <1>5 DEF HoldsIn, Holds
<1>13. ASSUME ~ EmptyPins, ~ AllocFails
       PROVE  \A p \in Int : /\ Holds(h2, p, BOOLEAN) <=> (Holds(h0, p, BOOLEAN) \/ p \in s .. e)
                             /\ Holds(h0, p, {TRUE}) => Holds(h2, p, {TRUE})
  BY <1>4, <1>10, <1>13 DEF UnpinDone, UnpinnedToo
<1>14. Remembered(unpinned_list', range', lost')
  <2> SUFFICES ASSUME ~ EmptyPins, ~ AllocFails, NEW b \in Areas, NEW p \in lost[b]
               PROVE  HoldsIn(unpinned_list', range', b, p, {TRUE})
    BY <1>3 DEF Remembered
  <2>1. p \in Int /\ HoldsIn(unpinned_list, range, b, p, {TRUE})
    BY <1>0 DEF AshInv, Remembered, AshOK
  <2>2. CASE b = a
    BY <1>8, <1>12, <1>13, <2>1, <2>2
  <2>3. CASE b # a
    BY <1>8, <2>1, <2>3
  <2> QED BY <2>2, <2>3
<1>15. ASSUME ~ EmptyPins, ~ AllocFails PROVE AsPages!Unpin(a, s .. e)
  <2>1. PagesIn(unpinned_list', range', a) = PagesIn(unpinned_list, range, a) \cup (s .. e)
    <3>1. \A p \in Int : HoldsIn(unpinned_list', range', a, p, BOOLEAN)
                           <=> HoldsIn(unpinned_list, range, a, p, BOOLEAN) \/ p \in s .. e
      BY <1>8, <1>12, <1>13, <1>15
    <3>2. \A p \in s .. e : p \in Int
      BY DEF Interval
    <3> QED BY <3>1, <3>2 DEF PagesIn
  <2>2. \A b \in Areas : b # a => PagesIn(unpinned_list', range', b) = PagesIn(unpinned_list, range, b)
    BY <1>8 DEF PagesIn
  <2>3. PICK u, u2 : u = Unpinned /\ u2 = Unpinned'
    OBVIOUS
  <2>4. /\ u = [b \in Areas |-> PagesIn(unpinned_list, range, b)]
        /\ u2 = [b \in Areas |-> PagesIn(unpinned_list', range', b)]
    BY <1>0, <1>9, <2>3, UnpinnedIs
  <2>5. u2 = [u EXCEPT ![a] = @ \cup (s .. e)]
    BY <2>1, <2>2, <2>4
  <2> QED BY <1>3, <2>3, <2>5 DEF AsPages!Unpin
<1> QED BY <1>9, <1>11, <1>14, <1>15 DEF AshInv

\* ashmem_release keeps it, and closes the area.
LEMMA ReleaseInv ==
  ASSUME AshInv, NEW a \in Areas, ashmem_release(a)
  PROVE  AshInv' /\ AsPages!Close(a)
<1>0. AshOK
  BY DEF AshInv
<1>1. PICK h0 : h0 = Heap(a)
  OBVIOUS
<1>2. PICK o : o = Others(unpinned_list, a)
  OBVIOUS
<1>3. PICK h2 : h2 = ReleaseLoop(a)
  OBVIOUS
<1>4. HeapOK(h0, o)
  BY <1>0, <1>1, <1>2, HeapOfArea
<1>5. Follows(h0, o, h2) /\ Ids(h2.list) = {}
  BY <1>1, <1>3, <1>4, ReleaseLoopExact
<1>6. SetHeap(a, h2) /\ opened' = opened \ {a} /\ lost' = [lost EXCEPT ![a] = {}]
  BY <1>3 DEF ashmem_release
<1>7. lru_list' = h2.lru /\ lru_count' = h2.count
  BY <1>6 DEF SetHeap
<1>8. /\ ListsOK(unpinned_list', range', h2.lru, h2.count)
      /\ (\A b \in Areas : Tidy(unpinned_list[b], range)) /\ Tidy(h2.list, h2.range) =>
           \A b \in Areas : Tidy(unpinned_list'[b], range')
      /\ \A b \in Areas : b # a => \A p, w :
           HoldsIn(unpinned_list', range', b, p, w) <=> HoldsIn(unpinned_list, range, b, p, w)
      /\ \A p, w : HoldsIn(unpinned_list', range', a, p, w) <=> Holds(h2, p, w)
  <2>1. AreaOnly(unpinned_list, range, a, h2, unpinned_list', range')
    BY <1>0, <1>1, <1>2, <1>5, <1>6, AreaAction
  <2> QED BY <2>1 DEF AreaOnly
<1>9. lost \in [Areas -> SUBSET Int] /\ lost' \in [Areas -> SUBSET Int] /\ lost'[a] = {}
      /\ \A b \in Areas : b # a => lost'[b] = lost[b]
  BY <1>0, <1>6 DEF AshOK
<1>10. AshOK'
  BY <1>0, <1>6, <1>7, <1>8, <1>9 DEF AshOK
<1>11. Tidy(h2.list, h2.range)
  <2>1. 1 .. Len(h2.list) = {}
    BY <1>5 DEF Ids
  <2> QED BY <1>5, <2>1 DEF Tidy
<1>12. InOrder(unpinned_list', range')
  BY <1>8, <1>11 DEF InOrder, AshInv
<1>13. Remembered(unpinned_list', range', lost')
  BY <1>8, <1>9 DEF Remembered, AshInv
<1>14. AsPages!Close(a)
  <2>1. PagesIn(unpinned_list', range', a) = {}
    <3>1. \A p, w : ~ Holds(h2, p, w)
      BY <1>5 DEF Holds
    <3> QED BY <1>8, <3>1 DEF PagesIn
  <2>2. \A b \in Areas : b # a => PagesIn(unpinned_list', range', b) = PagesIn(unpinned_list, range, b)
    BY <1>8 DEF PagesIn
  <2>3. PICK u, u2 : u = Unpinned /\ u2 = Unpinned'
    OBVIOUS
  <2>4. /\ u = [b \in Areas |-> PagesIn(unpinned_list, range, b)]
        /\ u2 = [b \in Areas |-> PagesIn(unpinned_list', range', b)]
    BY <1>0, <1>10, <2>3, UnpinnedIs
  <2>5. u2 = [u EXCEPT ![a] = {}]
    BY <2>1, <2>2, <2>4
  <2> QED BY <1>6, <2>3, <2>5 DEF AsPages!Close
<1> QED BY <1>10, <1>12, <1>13, <1>14 DEF AshInv

\* ashmem_shrink keeps it, and purges unpinned pages only.
LEMMA ShrinkInv ==
  ASSUME PagesAssumption, AshInv, NEW nr \in Nat, ashmem_shrink(nr)
  PROVE  AshInv' /\ AsPages!Purge
<1>0. AshOK
  BY DEF AshInv
<1>1. /\ unpinned_list' = unpinned_list /\ opened' = opened
      /\ ListsOK(unpinned_list, range', lru_list', lru_count')
      /\ \E gone : Shrunk(gone, unpinned_list, range, lost, range', lost')
  BY <1>0, ShrinkAction
<1>2. PICK gone : Shrunk(gone, unpinned_list, range, lost, range', lost')
  BY <1>1
<1>3. PICK r2, l2 : r2 = range' /\ l2 = lost'
  OBVIOUS
<1>4. /\ \A id \in RangeIds : /\ r2[id].pgstart = range[id].pgstart /\ r2[id].pgend = range[id].pgend
                              /\ r2[id].purged = IF id \in gone THEN TRUE ELSE range[id].purged
      /\ l2 \in [Areas -> SUBSET Int]
      /\ \A a \in Areas : \A p : p \in l2[a] <=>
           p \in lost[a] \/ (p \in Int /\ \E id \in gone \cap Ids(unpinned_list[a]) : Covers(range, id, p))
  BY <1>2, <1>3 DEF Shrunk
<1>5. AshOK'
  <2>1. opened' \subseteq Areas /\ lost' \in [Areas -> SUBSET Int]
    BY <1>0, <1>1, <1>3, <1>4 DEF AshOK
  <2> QED BY <1>1, <2>1 DEF AshOK
<1>6. \A a \in Areas : Ids(unpinned_list[a]) \subseteq RangeIds
  BY <1>0, ElementInSet DEF AshOK, ListsOK, Ids, Lists
<1>7. range \in Tables
  BY <1>0 DEF AshOK, ListsOK
<1>8. \A id \in RangeIds : range[id].purged \in BOOLEAN
  BY <1>7 DEF Tables, Ranges
<1>9. ASSUME NEW a \in Areas, Tidy(unpinned_list[a], range) PROVE Tidy(unpinned_list[a], r2)
  <2>1. \A id \in Ids(unpinned_list[a]) : r2[id].pgstart = range[id].pgstart /\ r2[id].pgend = range[id].pgend
    BY <1>4, <1>6
  <2>2. \A i \in 1 .. Len(unpinned_list[a]) : unpinned_list[a][i] \in Ids(unpinned_list[a])
    BY DEF Ids
  <2> QED BY <1>9, <2>1, <2>2 DEF Tidy
<1>10. InOrder(unpinned_list, r2)
  BY <1>9 DEF InOrder, AshInv
<1>11. \A id \in RangeIds : \A p : Covers(r2, id, p) <=> Covers(range, id, p)
  BY <1>4 DEF Covers
<1>12. ASSUME NEW a \in Areas, NEW p
       PROVE  /\ HoldsIn(unpinned_list, range, a, p, {TRUE}) => HoldsIn(unpinned_list, r2, a, p, {TRUE})
              /\ HoldsIn(unpinned_list, r2, a, p, BOOLEAN) <=> HoldsIn(unpinned_list, range, a, p, BOOLEAN)
  <2>1. \A id \in RangeIds : /\ range[id].purged \in {TRUE} => r2[id].purged \in {TRUE}
                             /\ r2[id].purged \in BOOLEAN
    BY <1>4, <1>8
  <2> QED BY <1>6, <1>8, <1>11, <2>1 DEF HoldsIn
<1>13. Remembered(unpinned_list, r2, l2)
  <2> SUFFICES ASSUME ~ EmptyPins, ~ AllocFails, NEW a \in Areas, NEW p \in l2[a]
               PROVE  HoldsIn(unpinned_list, r2, a, p, {TRUE})
    BY DEF Remembered
  <2>1. CASE p \in lost[a]
    BY <1>12, <2>1 DEF AshInv, Remembered
  <2>2. CASE \E id \in gone \cap Ids(unpinned_list[a]) : Covers(range, id, p)
    <3>1. PICK id \in gone \cap Ids(unpinned_list[a]) : Covers(range, id, p)
      BY <2>2
    <3>2. id \in RangeIds /\ r2[id].purged = TRUE /\ Covers(r2, id, p)
      BY <1>4, <1>6, <1>11, <3>1
    <3> QED BY <3>1, <3>2 DEF HoldsIn
  <2> QED BY <1>4, <2>1, <2>2
<1>14. \A a \in Areas : PagesIn(unpinned_list, r2, a) = PagesIn(unpinned_list, range, a)
  BY <1>12 DEF PagesIn
<1>15. PICK u, u2 : u = Unpinned /\ u2 = Unpinned'
  OBVIOUS
<1>16. u = [b \in Areas |-> PagesIn(unpinned_list, range, b)] /\ u2 = u
  <2>1. /\ u = [b \in Areas |-> PagesIn(unpinned_list, range, b)]
        /\ u2 = [b \in Areas |-> PagesIn(unpinned_list, r2, b)]
    BY <1>0, <1>1, <1>3, <1>5, <1>15, UnpinnedIs
  <2> QED BY <1>14, <2>1
<1>17. \A a \in Areas : lost[a] \subseteq l2[a] /\ l2[a] \subseteq lost[a] \cup u[a]
  <2> SUFFICES ASSUME NEW a \in Areas, NEW p \in l2[a], p \notin lost[a] PROVE p \in u[a]
    BY <1>4
  <2>1. p \in Int /\ \E id \in gone \cap Ids(unpinned_list[a]) : Covers(range, id, p)
    BY <1>4
  <2>2. HoldsIn(unpinned_list, range, a, p, BOOLEAN)
    BY <1>6, <1>8, <2>1 DEF HoldsIn
  <2> QED BY <1>16, <2>1, <2>2 DEF PagesIn
<1>18. AsPages!Purge
  BY <1>3, <1>15, <1>16, <1>17 DEF AsPages!Purge
<1> QED BY <1>1, <1>3, <1>5, <1>10, <1>13, <1>18 DEF AshInv

\* Every step keeps it.
LEMMA AshNextInv ==
  ASSUME PagesAssumption, AshInv, [AshNext]_ashVars
  PROVE  AshInv' /\ (~ EmptyPins /\ ~ AllocFails => [AsPages!Next]_(AsPages!pagesVars))
<1>0. AshOK
  BY DEF AshInv
<1>1. CASE \E a \in Areas : ashmem_open(a)
  <2>1. PICK a \in Areas : ashmem_open(a)
    BY <1>1
  <2>2. /\ opened' = opened \cup {a} /\ unpinned_list' = unpinned_list /\ range' = range
        /\ lru_list' = lru_list /\ lru_count' = lru_count /\ lost' = lost
    BY <2>1 DEF ashmem_open
  <2>3. AshInv'
    BY <2>2 DEF AshInv, AshOK
  <2>4. Unpinned' = Unpinned
    BY <2>2 DEF Unpinned, UnpinnedPages, PagesOf
  <2> QED BY <2>2, <2>3, <2>4 DEF AsPages!pagesVars
<1>2. CASE \E a \in Areas : ashmem_release(a)
  BY <1>2, ReleaseInv DEF AsPages!Next
<1>3. CASE \E a \in Areas, offset \in 0 .. Wrap - 1, len \in 0 .. Wrap - 1 : ashmem_pin_unpin(a, offset, len)
  <2>1. PICK a \in Areas, offset \in 0 .. Wrap - 1, len \in 0 .. Wrap - 1 : ashmem_pin_unpin(a, offset, len)
    BY <1>3
  <2>2. PICK e : e = offset + PinLen(offset, len) - 1
    OBVIOUS
  <2>3. Interval(offset, e) /\ (EmptyPins \/ offset <= e)
    BY <2>1, <2>2, PinInterval DEF ashmem_pin_unpin
  <2>4. offset .. e \in SUBSET (0 .. Pages - 1)
    BY <2>3 DEF Interval, PagesAssumption
  <2>5. CASE ashmem_pin(a, offset, e)
    BY <2>3, <2>4, <2>5, PinInv DEF AsPages!Next
  <2>6. CASE ashmem_unpin(a, offset, e)
    BY <2>3, <2>4, <2>6, UnpinInv DEF AsPages!Next
  <2> QED BY <2>1, <2>2, <2>5, <2>6 DEF ashmem_pin_unpin
<1>4. CASE \E nr \in Scans : ashmem_shrink(nr)
  BY <1>4, ShrinkInv DEF AsPages!Next, PagesAssumption
<1>5. CASE UNCHANGED ashVars
  <2>1. AshInv'
    BY <1>5 DEF ashVars, AshInv, AshOK
  <2>2. Unpinned' = Unpinned
    BY <1>5 DEF ashVars, Unpinned, UnpinnedPages, PagesOf
  <2> QED BY <1>5, <2>1, <2>2 DEF ashVars, AsPages!pagesVars
<1> QED BY <1>1, <1>2, <1>3, <1>4, <1>5 DEF AshNext


-----------------------------------------------------------------------------
(***************************************************************************)
(* What it says of the lists.                                              *)
(***************************************************************************)

\* The LRU list holds the ranges that were not purged, and its count is right.
LEMMA ExactLru ==
  ASSUME AshInv
  PROVE  LruExact
<1>1. /\ unpinned_list \in [Areas -> Lists] /\ range \in Tables /\ lru_list \in Lists /\ Once(lru_list)
      /\ \A id \in RangeIds : id \in Ids(lru_list) <=> (id \in InUse(unpinned_list) /\ range[id].purged = FALSE)
      /\ lru_count = Total(range, lru_list)
  BY DEF AshInv, AshOK, ListsOK
<1>2. \A s \in Lists : Range(s) = Ids(s) /\ DOMAIN s = 1 .. Len(s) /\ Ids(s) \subseteq RangeIds
  <2> SUFFICES ASSUME NEW s \in Seq(RangeIds)
               PROVE  Range(s) = Ids(s) /\ DOMAIN s = 1 .. Len(s) /\ Ids(s) \subseteq RangeIds
    BY DEF Lists
  <2>1. DOMAIN s = 1 .. Len(s)
    OBVIOUS
  <2> QED BY <2>1, ElementInSet DEF Range, Ids
<1>3. Used = InUse(unpinned_list) /\ InUse(unpinned_list) \subseteq RangeIds
  BY <1>1, <1>2 DEF Used, InUse
<1>4. \A id \in RangeIds : range[id].purged \in BOOLEAN
  BY <1>1 DEF Tables, Ranges
<1>5. Range(lru_list) = {id \in Used : ~ range[id].purged}
  <2>1. Range(lru_list) = Ids(lru_list) /\ Ids(lru_list) \subseteq RangeIds
    BY <1>1, <1>2
  <2> QED BY <1>1, <1>3, <1>4, <2>1
<1>6. IsInjective(lru_list)
  BY <1>1, <1>2 DEF IsInjective, Once
<1> QED BY <1>1, <1>5, <1>6 DEF LruExact, Total

\* The ranges of an area are in order.
LEMMA ExactOrder ==
  ASSUME AshInv, ~ EmptyPins
  PROVE  RangesSorted
<1> SUFFICES ASSUME NEW a \in Areas, NEW i \in 2 .. Len(unpinned_list[a])
             PROVE  range[unpinned_list[a][i]].pgend < range[unpinned_list[a][i - 1]].pgstart
  BY DEF RangesSorted
<1>1. Tidy(unpinned_list[a], range) /\ unpinned_list[a] \in Seq(RangeIds)
  BY DEF AshInv, InOrder, AshOK, ListsOK, Lists
<1>2. i \in 1 .. Len(unpinned_list[a]) /\ i - 1 \in 1 .. Len(unpinned_list[a]) /\ i - 1 < i
  BY <1>1
<1> QED BY <1>1, <1>2 DEF Tidy

\* ashmem_get_pin_status tells the truth.
LEMMA ExactStatus ==
  ASSUME PagesAssumption, AshInv, ~ EmptyPins
  PROVE  StatusExact
<1> SUFFICES ASSUME NEW a \in opened, NEW start \in 0 .. Pages - 1, NEW end \in 0 .. Pages - 1, start <= end
             PROVE  (ashmem_get_pin_status(a, start, end) = "unpinned")
                      = (UnpinnedPages(a) \cap (start .. end) # {})
  BY DEF StatusExact
<1>0. start \in Nat /\ end \in Int /\ a \in Areas
  BY DEF PagesAssumption, AshInv, AshOK
<1>1. PICK list : list = unpinned_list[a]
  OBVIOUS
<1>2. list \in Lists /\ range \in Tables /\ Tidy(list, range)
  BY <1>0, <1>1 DEF AshInv, InOrder, AshOK, ListsOK
<1>3. \A i \in 1 .. Len(list) : list[i] \in RangeIds /\ list[i] \in Ids(list)
  BY <1>2, ElementInSet DEF Ids, Lists
<1>4. ASSUME NEW i \in 1 .. Len(list)
      PROVE  /\ range[list[i]].pgstart \in Nat /\ range[list[i]].pgend \in Int
             /\ range[list[i]].pgstart <= range[list[i]].pgend
             /\ page_range_in_range(range[list[i]], start, end)
                  <=> (range[list[i]].pgstart <= end /\ start <= range[list[i]].pgend)
             /\ range_before_page(range[list[i]], start) <=> range[list[i]].pgend < start
  <2>1. range[list[i]] \in Ranges
    BY <1>2, <1>3 DEF Tables
  <2>2. range[list[i]].pgstart <= range[list[i]].pgend
    BY <1>2, <1>3 DEF Tidy
  <2>3. range[list[i]].pgstart \in Nat /\ range[list[i]].pgend \in Int
    BY <2>1 DEF Ranges
  <2> QED BY <1>0, <2>1, <2>2, <2>3, OverlapExact
<1>5. PICK stop : stop = StopsAt(list, range, start, end)
  OBVIOUS
<1>6. /\ stop \in 0 .. Len(list)
      /\ stop = 0 => \A i \in 1 .. Len(list) : ~ Stops(list, range, start, end, i)
      /\ stop # 0 => /\ Stops(list, range, start, end, stop)
                     /\ \A i \in 1 .. Len(list) : i < stop => ~ Stops(list, range, start, end, i)
  BY <1>2, <1>5, StopsAtFirst
<1>7. Len(list) \in Nat
  BY <1>2 DEF Lists
<1>8. \A p : p \in UnpinnedPages(a) <=> \E i \in 1 .. Len(list) : p \in range[list[i]].pgstart .. range[list[i]].pgend
  <2>1. DOMAIN list = 1 .. Len(list)
    BY <1>2 DEF Lists
  <2> QED BY <1>1, <2>1 DEF UnpinnedPages, PagesOf, Range
<1>9. ashmem_get_pin_status(a, start, end) = "unpinned"
        <=> stop # 0 /\ ~ range_before_page(range[list[stop]], start)
  BY <1>1, <1>5 DEF ashmem_get_pin_status
<1>10. ASSUME stop # 0, ~ range_before_page(range[list[stop]], start)
       PROVE  UnpinnedPages(a) \cap (start .. end) # {}
  <2>1. stop \in 1 .. Len(list)
    BY <1>6, <1>7, <1>10
  <2>2. range[list[stop]].pgstart <= end /\ start <= range[list[stop]].pgend
    BY <1>4, <1>6, <1>10, <2>1 DEF Stops
  <2>3. PICK x, y : x = range[list[stop]].pgstart /\ y = range[list[stop]].pgend
    OBVIOUS
  <2>4. x \in Nat /\ y \in Int /\ x <= y /\ x <= end /\ start <= y
    BY <1>4, <2>1, <2>2, <2>3
  <2>5. \E p : p \in x .. y /\ p \in start .. end
    <3>1. CASE x <= start
      <4>1. start \in x .. y /\ start \in start .. end
        BY <1>0, <2>4, <3>1
      <4> QED BY <4>1
    <3>2. CASE start < x
      <4>1. x \in x .. y /\ x \in start .. end
        BY <1>0, <2>4, <3>2
      <4> QED BY <4>1
    <3> QED BY <1>0, <2>4, <3>1, <3>2
  <2> QED BY <1>8, <2>1, <2>3, <2>5
<1>11. ASSUME UnpinnedPages(a) \cap (start .. end) # {}
       PROVE  stop # 0 /\ ~ range_before_page(range[list[stop]], start)
  <2>1. PICK p : p \in UnpinnedPages(a) /\ p \in start .. end
    BY <1>11
  <2>2. PICK i \in 1 .. Len(list) : p \in range[list[i]].pgstart .. range[list[i]].pgend
    BY <1>8, <2>1
  <2>3. PICK x, y : x = range[list[i]].pgstart /\ y = range[list[i]].pgend
    OBVIOUS
  <2>4. x \in Nat /\ y \in Int /\ x <= p /\ p <= y /\ p \in Int /\ start <= p /\ p <= end
    BY <1>0, <1>4, <2>1, <2>2, <2>3
  <2>5. Stops(list, range, start, end, i)
    <3>1. x <= end /\ start <= y
      BY <1>0, <2>4
    <3>2. page_range_in_range(range[list[i]], start, end)
      BY <1>4, <2>3, <3>1
    <3> QED BY <3>2 DEF Stops
  <2>6. stop \in 1 .. Len(list) /\ stop <= i
    BY <1>6, <1>7, <2>5
  <2>7. ASSUME range_before_page(range[list[stop]], start) PROVE FALSE
    <3>1. PICK v, z : v = range[list[stop]].pgstart /\ z = range[list[stop]].pgend
      OBVIOUS
    <3>2. v \in Nat /\ z \in Int /\ v <= z /\ z < start
      BY <1>4, <2>6, <2>7, <3>1
    <3>3. stop # i
      BY <1>0, <2>3, <2>4, <3>1, <3>2
    <3>4. stop < i
      BY <1>7, <2>6, <3>3
    <3>5. y < v
      BY <1>2, <2>3, <2>6, <3>1, <3>4 DEF Tidy
    <3> QED BY <1>0, <2>4, <3>2, <3>5
  <2> QED BY <1>7, <2>6, <2>7
<1> QED BY <1>9, <1>10, <1>11

-----------------------------------------------------------------------------
(***************************************************************************)
(* Whatever areas are opened, pinned, unpinned, shrunk and closed, and     *)
(* whatever allocation fails, lru_count is the number of pages of the LRU  *)
(* list, which holds the ranges that were not purged; and unless somebody  *)
(* pins or unpins an empty interval, the ranges of an area are disjoint    *)
(* and in order and ashmem_get_pin_status answers what is true: mm/        *)
(* ashmem.c.                                                               *)
(***************************************************************************)
THEOREM AshmemAlwaysExact ==
  ASSUME PagesAssumption
  PROVE  AshSpec => []AshmemExact
<1>1. AshInit => AshInv
  BY AshInitInv
<1>2. AshInv /\ [AshNext]_ashVars => AshInv'
  BY AshNextInv
<1>3. AshInv => AshmemExact
  <2>1. EmptyPins \in BOOLEAN
    BY DEF PagesAssumption
  <2> QED BY <2>1, ExactLru, ExactOrder, ExactStatus DEF AshmemExact
<1> QED BY <1>1, <1>2, <1>3, PTL DEF AshSpec

(***************************************************************************)
(* If allocations succeed and nobody pins or unpins an empty interval, the *)
(* driver does to the pages what AshmemPages allows: a pinned page is      *)
(* never purged, and whoever pins a page that was purged is told so by     *)
(* ashmem_pin, however its range was merged, split and shrunk since.       *)
(***************************************************************************)
THEOREM AshmemImplementsPages ==
  ASSUME PagesAssumption, ~ EmptyPins, ~ AllocFails
  PROVE  AshSpec => PagesSpec
<1>1. AshInit => AshInv /\ AsPages!Init
  BY AshInitInv DEF AsPages!Init, AshInit
<1>2. AshInv /\ [AshNext]_ashVars => AshInv' /\ [AsPages!Next]_(AsPages!pagesVars)
  BY AshNextInv
<1> QED BY <1>1, <1>2, PTL DEF AshSpec, PagesSpec, AsPages!Spec

-----------------------------------------------------------------------------
(***************************************************************************)
(* The life of an area, AshmemArea, which shares no state with the lists.  *)
(***************************************************************************)
CONSTANTS Threads, Sizes, Names, NoName
VARIABLES size, name, prot_mask, file, mapped, lru_pages, mutex, pc

Area == INSTANCE AshmemArea WITH lru_count <- lru_pages

\* Whatever any number of threads do with an area, the name it has while it has a
\* backing file is the name the file was given: ASHMEM_SET_NAME looks for the file
\* before it stores a name, and ashmem_mmap makes the file with the name of that
\* moment, both under ashmem_mutex.
THEOREM NameAlwaysOfFile == Area!AreaSpec => []Area!NameOfFile
<1>1. Area!AreaInit => Area!NameOfFile
  BY DEF Area!AreaInit, Area!NameOfFile
<1>2. Area!NameOfFile /\ [Area!AreaNext]_(Area!areaVars) => Area!NameOfFile'
  <2> SUFFICES ASSUME Area!NameOfFile, [Area!AreaNext]_(Area!areaVars)
               PROVE  Area!NameOfFile'
    OBVIOUS
  <2> USE DEF Area!NameOfFile
  <2>1. ASSUME NEW t \in Threads, NEW n \in Names, Area!set_name(t, n)
        PROVE  Area!NameOfFile'
    BY <2>1 DEF Area!set_name
  <2>2. ASSUME NEW t \in Threads, NEW fails \in BOOLEAN, Area!file_setup(t, fails)
        PROVE  Area!NameOfFile'
    BY <2>2 DEF Area!file_setup
  <2>3. ASSUME Area!ashmem_release
        PROVE  Area!NameOfFile'
    BY <2>3 DEF Area!ashmem_release
  <2>4. ASSUME NEW t \in Threads,
               \/ Area!set_size_test(t) \/ \E n \in Sizes : Area!set_size_store(t, n)
               \/ \E prot \in SUBSET Area!PROT_MASK :
                    \/ Area!mmap_lock(t, prot)
                    \/ \E implies \in BOOLEAN : Area!set_prot_mask(t, prot, implies)
               \/ Area!unpin_lock(t) \/ Area!range_alloc(t)
               \/ Area!reclaim(t) \/ Area!other_reclaim(t) \/ Area!ashmem_shrink(t)
               \/ Area!munmap(t)
        PROVE  Area!NameOfFile'
    <3>1. UNCHANGED <<name, file>>
      BY <2>4 DEF Area!set_size_test, Area!set_size_store, Area!mmap_lock,
                  Area!set_prot_mask, Area!unpin_lock, Area!range_alloc, Area!reclaim,
                  Area!other_reclaim, Area!ashmem_shrink, Area!munmap
    <3> QED BY <3>1
  <2>5. CASE UNCHANGED Area!areaVars
    BY <2>5 DEF Area!areaVars
  <2> QED BY <2>1, <2>2, <2>3, <2>4, <2>5 DEF Area!AreaNext
<1> QED BY <1>1, <1>2, PTL DEF Area!AreaSpec
=============================================================================
