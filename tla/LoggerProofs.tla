---------------------------- MODULE LoggerProofs -----------------------------
(***************************************************************************)
(* The log device: proofs for any size of the buffer, any bytes and any    *)
(* number of readers and writers.                                          *)
(***************************************************************************)
EXTENDS Logger, LoopLemmas, SequenceTheorems, TLAPS

-----------------------------------------------------------------------------
(***************************************************************************)
(* Offsets around the buffer, without %.                                   *)
(***************************************************************************)

\* n bytes behind offset a.
Plus(a, n) == IF a + n < Size THEN a + n ELSE (a + n) - Size

\* From offset o up to offset w.
Dist(w, o) == IF o <= w THEN w - o ELSE (w + Size) - o

\* The length of the entry whose header is at o.
LenAt(buf, o) == HeaderLen + buf[o] + Base * buf[Plus(o, 1)]

\* What is known of the sizes.
LEMMA Sizes ==
  /\ Size \in Nat /\ Size >= 2 * MaxEntry /\ Size > 1
  /\ MaxEntry \in Nat /\ MaxEntry = 2 + MaxPayload /\ HeaderLen = 2
  /\ MaxPayload \in Nat /\ MaxPayload > 0
  /\ Base \in Nat /\ Base > 0 /\ Base * Base \in Nat /\ MaxPayload < Base * Base
  /\ PayloadBytes \subseteq 0 .. Base - 1
BY SizeAssumption DEF MaxEntry, HeaderLen

\* logger_offset is Plus.
LEMMA OffsetIsPlus ==
  ASSUME NEW a \in Offsets, NEW n \in 0 .. Size
  PROVE  /\ logger_offset(a + n) = Plus(a, n)
         /\ Plus(a, n) \in Offsets
<1>1. Size \in Nat /\ Size > 1 /\ a \in 0 .. Size - 1
  BY Sizes DEF Offsets
<1> DEFINE x == a + n
<1>2. x \in Nat /\ x < 2 * Size
  BY <1>1
<1>3. x % Size = IF x < Size THEN x ELSE x - Size
  <2> HIDE DEF x
  <2> QED BY <1>1, <1>2, SMTT(30)
<1>4. Plus(a, n) = IF x < Size THEN x ELSE x - Size
  BY DEF Plus
<1>5. logger_offset(a + n) = x % Size
  BY DEF logger_offset
<1> QED BY <1>1, <1>2, <1>3, <1>4, <1>5 DEF Offsets

\* Going on and on is going on by the sum.
LEMMA PlusPlus ==
  ASSUME NEW a \in Offsets, NEW m \in Nat, NEW n \in Nat, m + n <= Size
  PROVE  Plus(Plus(a, m), n) = Plus(a, m + n)
BY Sizes DEF Plus, Offsets

\* A distance is that of logger.c, less than the size, and 0 only at w itself.
LEMMA DistFacts ==
  ASSUME NEW w \in Offsets, NEW o \in Offsets
  PROVE  /\ Dist(w, o) \in 0 .. Size - 1
         /\ Dist(w, o) = 0 <=> o = w
         /\ Plus(o, Dist(w, o)) = w
BY Sizes DEF Plus, Offsets, Dist

\* Going towards w shortens the distance.
LEMMA DistPlus ==
  ASSUME NEW w \in Offsets, NEW o \in Offsets, NEW n \in 0 .. Dist(w, o)
  PROVE  Dist(w, Plus(o, n)) = Dist(w, o) - n
BY Sizes DEF Plus, Offsets, Dist

\* When w moves on, the distance to it grows.
LEMMA DistGrows ==
  ASSUME NEW w \in Offsets, NEW o \in Offsets, NEW n \in Nat, Dist(w, o) + n < Size
  PROVE  Dist(Plus(w, n), o) = Dist(w, o) + n
BY Sizes DEF Plus, Offsets, Dist

\* A length is read from two bytes.
LEMMA LenAtType ==
  ASSUME NEW buf \in [Offsets -> 0 .. Base - 1], NEW o \in Offsets
  PROVE  /\ LenAt(buf, o) \in Nat /\ LenAt(buf, o) >= 2
         /\ LenAt(buf, o) <= 1 + Base * Base
<1>1. Plus(o, 1) \in Offsets
  BY OffsetIsPlus, Sizes
<1>2. PICK a \in Nat, b \in Nat : buf[o] = a /\ buf[Plus(o, 1)] = b /\ a <= Base - 1 /\ b <= Base - 1
  BY <1>1, Sizes
<1>3. Base * b \in Nat /\ Base * b <= Base * (Base - 1)
  BY <1>2, Sizes
<1>4. Base * (Base - 1) = Base * Base - Base
  BY Sizes
<1>5. LenAt(buf, o) = 2 + a + Base * b
  BY <1>2, Sizes DEF LenAt
<1> DEFINE p == Base * b
           q == Base * Base
<1> HIDE DEF p, q
<1>6. p \in Nat /\ q \in Nat /\ p <= q - Base /\ LenAt(buf, o) = 2 + a + p
  BY <1>3, <1>4, <1>5, Sizes DEF p, q
<1>7. LenAt(buf, o) \in Nat /\ LenAt(buf, o) >= 2 /\ LenAt(buf, o) <= 1 + q
  BY <1>2, <1>6, Sizes
<1> QED BY <1>7 DEF q

\* get_entry_len reads the high byte behind the end of the buffer at its start.
LEMMA GetEntryLen ==
  ASSUME NEW o \in Offsets
  PROVE  get_entry_len(o) = LenAt(buffer, o)
BY Sizes DEF get_entry_len, LenAt, Plus, Offsets
-----------------------------------------------------------------------------
(***************************************************************************)
(* Chains of entries.                                                      *)
(***************************************************************************)

\* E is a set of offsets from each of which one comes to w entry by entry.
Chain(buf, w, E) ==
  /\ E \subseteq Offsets /\ w \in E
  /\ \A o \in E : o # w => /\ LenAt(buf, o) > HeaderLen /\ LenAt(buf, o) <= Dist(w, o)
                           /\ Plus(o, LenAt(buf, o)) \in E

\* The loop of get_next_entry goes along a chain and stops on it, behind the
\* bytes that are to be written.
LEMMA NextEntry ==
  ASSUME buffer \in [Offsets -> 0 .. Base - 1], w_off \in Offsets,
         NEW E, Chain(buffer, w_off, E),
         NEW o \in E, NEW len \in 1 .. MaxEntry, len <= Dist(w_off, o)
  PROVE  /\ get_next_entry(o, len) \in E
         /\ Dist(w_off, get_next_entry(o, len)) <= Dist(w_off, o) - len
<1> DEFINE M == Size + HeaderLen + Base * Base
           D == 0 .. M
           d == Dist(w_off, o)
           IsSkip(g) == g = [n \in D |-> IF n >= len THEN n
                                         ELSE g[n + get_entry_len(logger_offset(o + n))]]
           skip == CHOOSE g : IsSkip(g)
<1>1. get_next_entry(o, len) = logger_offset(o + skip[get_entry_len(o)])
  BY Zenon DEF get_next_entry
<1>2. o \in Offsets /\ d \in 0 .. Size - 1 /\ len \in Nat /\ len <= d /\ len > 0
  BY DistFacts, Sizes DEF Chain
<1>3. ASSUME NEW n \in D, n < len
      PROVE  /\ Plus(o, n) \in Offsets
             /\ get_entry_len(logger_offset(o + n)) = LenAt(buffer, Plus(o, n))
             /\ LenAt(buffer, Plus(o, n)) \in Nat /\ LenAt(buffer, Plus(o, n)) >= 2
             /\ n + LenAt(buffer, Plus(o, n)) \in D
  <2>1. n \in 0 .. Size
    BY <1>2, <1>3, Sizes
  <2>2. Plus(o, n) \in Offsets /\ logger_offset(o + n) = Plus(o, n)
    BY <1>2, <2>1, OffsetIsPlus
  <2>3. /\ LenAt(buffer, Plus(o, n)) \in Nat /\ LenAt(buffer, Plus(o, n)) >= 2
        /\ LenAt(buffer, Plus(o, n)) <= 1 + Base * Base
    BY <2>2, LenAtType
  <2>4. n + LenAt(buffer, Plus(o, n)) \in D
    BY <1>2, <1>3, <2>3, Sizes
  <2> QED BY <2>2, <2>3, <2>4, GetEntryLen
<1>4. \E f : IsSkip(f)
  <2> DEFINE Stop == {n \in D : n >= len}
             rk == [n \in D |-> M - n]
             val == [n \in D |-> n]
             nx == [n \in D |-> IF n >= len THEN n ELSE n + LenAt(buffer, Plus(o, n))]
             c == [p \in D \X D |-> p[2]]
  <2>0. M \in Nat
    BY Sizes
  <2>1. rk \in [D -> Nat] /\ val \in [D -> D] /\ c \in [D \X D -> D] /\ M + 1 \in Nat
    BY <2>0
  <2>2. nx \in [D -> D]
    BY <1>2, <1>3
  <2>3. \A n \in D : rk[n] < M + 1
    BY <2>0
  <2>4. ASSUME NEW n \in D, n \notin Stop PROVE rk[nx[n]] < rk[n]
    <3>1. n < len /\ n \in Nat
      BY <2>4, <1>2
    <3>2. nx[n] = n + LenAt(buffer, Plus(o, n)) /\ nx[n] \in D
      BY <3>1, <1>2, <1>3
    <3>3. rk[n] = M - n /\ rk[nx[n]] = M - nx[n]
      BY <3>2
    <3>4. nx[n] > n /\ nx[n] \in Nat
      BY <3>1, <3>2, <1>3
    <3> QED BY <3>1, <3>3, <3>4, <2>0
  <2> HIDE DEF rk, val, nx, c, Stop, D, M
  <2>5. Ranked(D, D, Stop, rk, val, nx, c)
    BY <2>1, <2>2, <2>3, <2>4 DEF Ranked
  <2>51. PICK f : Recursive(f, D, D, Stop, val, nx, c)
    BY <2>5, RecursionExists
  <2>6. f \in [D -> D] /\ \A n \in D : /\ n \in Stop => f[n] = val[n]
                                       /\ n \notin Stop => f[n] = c[<<n, f[nx[n]]>>]
    BY <2>51 DEF Recursive
  <2>7. ASSUME NEW n \in D
        PROVE  f[n] = IF n >= len THEN n ELSE f[n + get_entry_len(logger_offset(o + n))]
    <3>1. CASE n >= len
      BY <2>6, <3>1 DEF Stop, val
    <3>2. CASE ~ (n >= len)
      <4>1. n < len
        BY <3>2, <1>2 DEF D
      <4>2. nx[n] = n + get_entry_len(logger_offset(o + n)) /\ nx[n] \in D
        BY <4>1, <1>3, <3>2, <2>2 DEF nx
      <4>3. f[n] = c[<<n, f[nx[n]]>>]
        BY <2>6, <3>2 DEF Stop
      <4>4. c[<<n, f[nx[n]]>>] = f[nx[n]]
        BY <4>2, <2>6 DEF c
      <4> QED BY <3>2, <4>2, <4>3, <4>4
    <3> QED BY <3>1, <3>2
  <2>8. f = [n \in D |-> f[n]]
    BY <2>6
  <2>9. IsSkip(f)
    BY <2>7, <2>8
  <2> QED BY <2>9
<1>5. IsSkip(skip)
  BY <1>4, Zenon
<1> HIDE DEF skip
<1>6. \A n \in D : skip[n] = IF n >= len THEN n ELSE skip[n + get_entry_len(logger_offset(o + n))]
  BY <1>5
<1> HIDE DEF IsSkip
<1> DEFINE S == {k \in Nat : \A n \in 0 .. d : d - n = k /\ Plus(o, n) \in E =>
                    skip[n] \in len .. d /\ Plus(o, skip[n]) \in E}
<1>7. ASSUME NEW k \in Nat, \A m \in Nat : m < k => m \in S PROVE k \in S
  <2> SUFFICES ASSUME NEW n \in 0 .. d, d - n = k, Plus(o, n) \in E
               PROVE  skip[n] \in len .. d /\ Plus(o, skip[n]) \in E
    OBVIOUS
  <2>1. n \in D
    BY <1>2, Sizes
  <2>2. CASE n >= len
    BY <1>6, <2>1, <2>2, <1>2
  <2>3. CASE n < len
    <3> DEFINE x == Plus(o, n)
               L == LenAt(buffer, x)
    <3>1. Dist(w_off, x) = d - n /\ d - n > 0
      BY <1>2, <2>3, DistPlus
    <3>2. x \in Offsets /\ x # w_off
      BY <3>1, <1>3, <2>1, <2>3, DistFacts
    <3>3. L \in Nat /\ L > 2 /\ L <= d - n /\ Plus(x, L) \in E
      BY <3>1, <3>2, Sizes, <1>3, <2>1, <2>3 DEF Chain
    <3>4. n + L \in 0 .. d /\ d - (n + L) \in Nat /\ d - (n + L) < k
      BY <3>3, <1>2
    <3>5. Plus(o, n + L) = Plus(x, L)
      BY PlusPlus, <1>2, <3>3, <3>4, Sizes
    <3>6. d - (n + L) \in S
      BY <3>4, <1>7
    <3>7. skip[n + L] \in len .. d /\ Plus(o, skip[n + L]) \in E
      BY <3>3, <3>4, <3>5, <3>6
    <3>8. skip[n] = skip[n + L]
      BY <1>6, <2>1, <2>3, <1>3, <1>2
    <3> QED BY <3>7, <3>8
  <2> QED BY <2>2, <2>3, <1>2
<1> HIDE DEF S
<1>8. \A k \in Nat : k \in S
  BY <1>7, StrongInduction
<1> DEFINE L == LenAt(buffer, o)
<1>9. L \in 0 .. d /\ Plus(o, L) \in E /\ get_entry_len(o) = L
  BY <1>2, DistFacts, LenAtType, GetEntryLen DEF Chain
<1>10. skip[L] \in len .. d /\ Plus(o, skip[L]) \in E
  <2>1. d - L \in Nat
    BY <1>9, <1>2
  <2>2. d - L \in S
    BY <2>1, <1>8
  <2> QED BY <2>2, <1>9 DEF S
<1>11. get_next_entry(o, len) = Plus(o, skip[L])
  <2>1. skip[L] \in 0 .. Size
    BY <1>10, <1>2, Sizes
  <2>2. logger_offset(o + skip[L]) = Plus(o, skip[L])
    BY <2>1, <1>2, OffsetIsPlus
  <2> QED BY <1>1, <1>9, <2>2
<1>12. Dist(w_off, Plus(o, skip[L])) = d - skip[L]
  BY <1>10, <1>2, DistPlus
<1> QED BY <1>10, <1>11, <1>12, <1>2
-----------------------------------------------------------------------------
(***************************************************************************)
(* What Pending finds.                                                     *)
(***************************************************************************)

\* Pending of any buffer and write offset.
PendingOf(buf, w, off) ==
  LET cell(n) == buf[logger_offset(off + n)]
      from[n \in 0 .. (w + Size - off) % Size] ==
        IF n = (w + Size - off) % Size THEN <<>>
        ELSE LET len == cell(n) + Base * cell(n + 1)
                 next == n + HeaderLen + len
             IN  IF next > (w + Size - off) % Size \/ len = 0 THEN <<<<>>>>
                 ELSE <<[i \in 1 .. len |-> cell(n + HeaderLen - 1 + i)]>> \o from[next]
  IN  from[0]

\* The payload of the entry at o.
Payload(buf, o) == [i \in 1 .. LenAt(buf, o) - HeaderLen |-> buf[Plus(o, 1 + i)]]

\* Does the entry n bytes behind o end at or before w, and is it one?
Fits(buf, w, o, n) ==
  /\ n + LenAt(buf, Plus(o, n)) <= Dist(w, o)
  /\ LenAt(buf, Plus(o, n)) > HeaderLen

\* The values of the recursion of Pending, at n bytes behind o.
Walk(buf, w, o, g) ==
  /\ g[Dist(w, o)] = <<>>
  /\ \A n \in 0 .. Dist(w, o) - 1 :
       Fits(buf, w, o, n) =>
         g[n] = <<Payload(buf, Plus(o, n))>> \o g[n + LenAt(buf, Plus(o, n))]

\* The number of bytes up to w as logger.c computes it.
LEMMA UsedIsDist ==
  ASSUME NEW w \in Offsets, NEW o \in Offsets
  PROVE  (w + Size - o) % Size = Dist(w, o)
<1>1. Size \in Nat /\ Size > 1 /\ w \in 0 .. Size - 1 /\ o \in 0 .. Size - 1
  BY Sizes DEF Offsets
<1> DEFINE x == w + Size - o
<1>2. x \in Nat /\ x < 2 * Size
  BY <1>1
<1>3. x % Size = IF x < Size THEN x ELSE x - Size
  <2> HIDE DEF x
  <2> QED BY <1>1, <1>2, SMTT(30)
<1> QED BY <1>1, <1>3 DEF Dist

\* The cells that Pending looks at.
LEMMA PendingCells ==
  ASSUME NEW buf \in [Offsets -> 0 .. Base - 1], NEW w \in Offsets, NEW o \in Offsets,
         NEW n \in 0 .. Dist(w, o) - 1
  PROVE  /\ Plus(o, n) \in Offsets
         /\ buf[logger_offset(o + n)] + Base * buf[logger_offset(o + (n + 1))]
              = LenAt(buf, Plus(o, n)) - HeaderLen
         /\ LenAt(buf, Plus(o, n)) \in Nat /\ LenAt(buf, Plus(o, n)) >= 2
         /\ Fits(buf, w, o, n) =>
              /\ [i \in 1 .. LenAt(buf, Plus(o, n)) - HeaderLen |->
                    buf[logger_offset(o + (n + HeaderLen - 1 + i))]]
                   = Payload(buf, Plus(o, n))
              /\ Payload(buf, Plus(o, n)) \in Seq(Nat)
              /\ Len(Payload(buf, Plus(o, n))) = LenAt(buf, Plus(o, n)) - HeaderLen
<1> DEFINE x == Plus(o, n)
           L == LenAt(buf, x)
<1>1. Dist(w, o) \in 0 .. Size - 1 /\ n \in Nat /\ n + 1 < Size
  BY DistFacts, Sizes
<1>2. x \in Offsets /\ logger_offset(o + n) = x
  BY <1>1, OffsetIsPlus, Sizes
<1>3. logger_offset(o + (n + 1)) = Plus(x, 1) /\ Plus(x, 1) \in Offsets
  <2>1. n + 1 \in 0 .. Size
    BY <1>1, Sizes
  <2>2. logger_offset(o + (n + 1)) = Plus(o, n + 1) /\ Plus(o, n + 1) \in Offsets
    BY <2>1, OffsetIsPlus
  <2>3. Plus(x, 1) = Plus(o, n + 1)
    BY <1>1, PlusPlus, Sizes
  <2> QED BY <2>2, <2>3
<1>4. L \in Nat /\ L >= 2
  BY <1>2, LenAtType
<1>5. buf[x] \in Nat /\ Base * buf[Plus(x, 1)] \in Nat
  BY <1>2, <1>3, Sizes
<1>6. buf[x] + Base * buf[Plus(x, 1)] = L - HeaderLen
  BY <1>5, Sizes DEF LenAt
<1>7. ASSUME Fits(buf, w, o, n)
      PROVE  /\ [i \in 1 .. L - HeaderLen |-> buf[logger_offset(o + (n + HeaderLen - 1 + i))]]
                  = Payload(buf, x)
             /\ Payload(buf, x) \in Seq(Nat)
             /\ Len(Payload(buf, x)) = L - HeaderLen
  <2>1. n + L <= Dist(w, o) /\ L - HeaderLen \in Nat
    BY <1>4, <1>7, Sizes DEF Fits
  <2>2. ASSUME NEW i \in 1 .. L - HeaderLen
        PROVE  /\ logger_offset(o + (n + HeaderLen - 1 + i)) = Plus(x, 1 + i)
               /\ Plus(x, 1 + i) \in Offsets
    <3>1. n + HeaderLen - 1 + i = n + (1 + i) /\ n + (1 + i) \in 0 .. Size /\ i \in Nat
      BY <2>1, <1>1, <1>4, Sizes
    <3>2. /\ logger_offset(o + (n + (1 + i))) = Plus(o, n + (1 + i))
          /\ Plus(o, n + (1 + i)) \in Offsets
      BY <3>1, OffsetIsPlus
    <3>3. Plus(x, 1 + i) = Plus(o, n + (1 + i))
      BY <3>1, <1>1, PlusPlus, Sizes
    <3> QED BY <3>1, <3>2, <3>3
  <2>3. Payload(buf, x) \in [1 .. L - HeaderLen -> Nat]
    BY <2>2, Sizes DEF Payload
  <2>4. [i \in 1 .. L - HeaderLen |-> buf[logger_offset(o + (n + HeaderLen - 1 + i))]]
          = Payload(buf, x)
    BY <2>2 DEF Payload
  <2> HIDE DEF x, L
  <2>5. Payload(buf, x) \in Seq(Nat) /\ Len(Payload(buf, x)) = L - HeaderLen
    BY <2>1, <2>3
  <2> QED BY <2>4, <2>5
<1> QED BY <1>2, <1>3, <1>4, <1>6, <1>7
\* The recursion of Pending is well-founded: its values are as it says.
LEMMA PendingWalk ==
  ASSUME NEW buf \in [Offsets -> 0 .. Base - 1], NEW w \in Offsets, NEW o \in Offsets
  PROVE  \E g : Walk(buf, w, o, g) /\ PendingOf(buf, w, o) = g[0]
<1> DEFINE d == (w + Size - o) % Size
           D == 0 .. d
           cell(n) == buf[logger_offset(o + n)]
           IsFrom(g) ==
             g = [n \in D |->
                    IF n = d THEN <<>>
                    ELSE LET len == cell(n) + Base * cell(n + 1)
                             next == n + HeaderLen + len
                         IN  IF next > d \/ len = 0 THEN <<<<>>>>
                             ELSE <<[i \in 1 .. len |-> cell(n + HeaderLen - 1 + i)]>> \o g[next]]
           from == CHOOSE g : IsFrom(g)
           V == Seq(Seq(Nat))
           L(n) == LenAt(buf, Plus(o, n))
           Stop == {n \in D : n = d \/ ~ Fits(buf, w, o, n)}
           rk == [n \in D |-> d - n]
           val == [n \in D |-> IF n = d THEN <<>> ELSE <<<<>>>>]
           nx == [n \in D |-> IF n \in Stop THEN n ELSE n + L(n)]
           c == [p \in D \X V |-> IF p[1] \in Stop THEN p[2]
                                  ELSE <<Payload(buf, Plus(o, p[1]))>> \o p[2]]
<1>1. PendingOf(buf, w, o) = from[0]
  BY Zenon DEF PendingOf
<1>2. d = Dist(w, o) /\ d \in 0 .. Size - 1
  BY UsedIsDist, DistFacts
<1> HIDE DEF d
<1>3. ASSUME NEW n \in D, n # d
      PROVE  /\ n \in 0 .. Dist(w, o) - 1
             /\ L(n) \in Nat /\ L(n) >= 2
             /\ cell(n) + Base * cell(n + 1) = L(n) - HeaderLen
             /\ n + HeaderLen + (L(n) - HeaderLen) = n + L(n)
             /\ (n + L(n) > d \/ L(n) - HeaderLen = 0) <=> n \in Stop
             /\ n \notin Stop => Fits(buf, w, o, n) /\ n + L(n) \in D
  <2>1. n \in 0 .. Dist(w, o) - 1
    BY <1>2, <1>3, Sizes
  <2>2. L(n) \in Nat /\ L(n) >= 2 /\ cell(n) + Base * cell(n + 1) = L(n) - HeaderLen
    BY <2>1, PendingCells
  <2>3. n + HeaderLen + (L(n) - HeaderLen) = n + L(n)
    BY <2>1, <2>2, Sizes
  <2>4. (n + L(n) > d \/ L(n) - HeaderLen = 0) <=> n \in Stop
    BY <2>1, <2>2, <1>2, <1>3, Sizes DEF Fits
  <2>5. n \notin Stop => Fits(buf, w, o, n) /\ n + L(n) \in D
    BY <2>1, <2>2, <1>2, <1>3 DEF Fits
  <2> QED BY <2>1, <2>2, <2>3, <2>4, <2>5
<1>4. Ranked(D, V, Stop, rk, val, nx, c)
  <2>1. rk \in [D -> Nat] /\ val \in [D -> V]
    BY <1>2
  <2>2. nx \in [D -> D]
    BY <1>3
  <2>3. ASSUME NEW n \in D, NEW v \in V, n \notin Stop
        PROVE  <<Payload(buf, Plus(o, n))>> \o v \in V
    <3>1. n # d
      BY <2>3
    <3>2. Payload(buf, Plus(o, n)) \in Seq(Nat)
      BY <1>3, <2>3, <3>1, PendingCells
    <3> QED BY <3>2
  <2>4. c \in [D \X V -> V]
    BY <2>3
  <2>5. d + 1 \in Nat /\ \A n \in D : rk[n] < d + 1
    BY <1>2
  <2>6. ASSUME NEW n \in D, n \notin Stop PROVE rk[nx[n]] < rk[n]
    <3>1. n # d /\ nx[n] = n + L(n) /\ nx[n] \in D
      BY <2>6, <2>2
    <3>2. nx[n] > n
      BY <3>1, <1>3
    <3>3. rk[n] = d - n /\ rk[nx[n]] = d - nx[n]
      BY <3>1
    <3> QED BY <3>1, <3>2, <3>3, <1>2
  <2> HIDE DEF rk, val, nx, c, Stop, D, V
  <2> QED BY <2>1, <2>2, <2>4, <2>5, <2>6 DEF Ranked
<1>5. PICK f : Recursive(f, D, V, Stop, val, nx, c)
  <2> HIDE DEF rk, val, nx, c, Stop, D, V
  <2> QED BY <1>4, RecursionExists
<1>6. /\ f \in [D -> V]
      /\ \A n \in D : n \in Stop => f[n] = IF n = d THEN <<>> ELSE <<<<>>>>
      /\ \A n \in D : n \notin Stop => f[n] = <<Payload(buf, Plus(o, n))>> \o f[n + L(n)]
  <2>1. /\ f \in [D -> V]
        /\ \A n \in D : n \in Stop => f[n] = val[n]
        /\ \A n \in D : n \notin Stop => f[n] = c[<<n, f[nx[n]]>>]
    BY <1>5 DEF Recursive
  <2>2. ASSUME NEW n \in D, n \notin Stop
        PROVE  f[n] = <<Payload(buf, Plus(o, n))>> \o f[n + L(n)]
    <3>1. nx[n] = n + L(n) /\ n + L(n) \in D
      BY <2>2, <1>3
    <3>2. f[n + L(n)] \in V
      BY <2>1, <3>1
    <3>3. c[<<n, f[n + L(n)]>>] = <<Payload(buf, Plus(o, n))>> \o f[n + L(n)]
      BY <2>2, <3>2
    <3> QED BY <2>1, <2>2, <3>1, <3>3
  <2> QED BY <2>1, <2>2
<1> DEFINE Value(g, n) == IF n = d THEN <<>>
                    ELSE LET len == cell(n) + Base * cell(n + 1)
                             next == n + HeaderLen + len
                         IN  IF next > d \/ len = 0 THEN <<<<>>>>
                             ELSE <<[i \in 1 .. len |-> cell(n + HeaderLen - 1 + i)]>> \o g[next]
<1>7. ASSUME NEW g, NEW n \in D
      PROVE  Value(g, n) = IF n = d THEN <<>> ELSE IF n \in Stop THEN <<<<>>>>
                           ELSE <<Payload(buf, Plus(o, n))>> \o g[n + L(n)]
  <2>1. CASE n = d
    BY <2>1
  <2>2. CASE n # d
    <3>1. /\ cell(n) + Base * cell(n + 1) = L(n) - HeaderLen
          /\ n + HeaderLen + (L(n) - HeaderLen) = n + L(n)
          /\ (n + L(n) > d \/ L(n) - HeaderLen = 0) <=> n \in Stop
      BY <1>3, <2>2
    <3>2. Value(g, n) = IF n \in Stop THEN <<<<>>>>
                        ELSE <<[i \in 1 .. L(n) - HeaderLen |-> cell(n + HeaderLen - 1 + i)]>>
                               \o g[n + L(n)]
      BY <3>1, <2>2
    <3>3. n \notin Stop => [i \in 1 .. L(n) - HeaderLen |-> cell(n + HeaderLen - 1 + i)]
                             = Payload(buf, Plus(o, n))
      BY <1>3, <2>2, PendingCells, SMTT(40)
    <3> QED BY <3>2, <3>3, <2>2
  <2> QED BY <2>1, <2>2
<1>8. IsFrom(f)
  <2>1. ASSUME NEW n \in D PROVE f[n] = Value(f, n)
    BY <1>6, <1>7
  <2>2. f = [n \in D |-> f[n]]
    BY <1>6
  <2> HIDE DEF Value
  <2>3. f = [n \in D |-> Value(f, n)]
    BY <2>1, <2>2
  <2> QED BY <2>3 DEF Value
<1>9. IsFrom(from)
  <2>1. \E g : IsFrom(g)
    BY <1>8
  <2> HIDE DEF IsFrom
  <2> QED BY <2>1, Zenon
<1> HIDE DEF from
<1>10. \A n \in D : from[n] = Value(from, n)
  BY <1>9
<1>11. Walk(buf, w, o, from)
  <2> HIDE DEF Value
  <2>0. d \in D
    BY <1>2
  <2>01. Value(from, d) = <<>>
    BY DEF Value
  <2>1. d \in D /\ from[d] = <<>>
    BY <2>0, <2>01, <1>10
  <2>2. ASSUME NEW n \in 0 .. Dist(w, o) - 1, Fits(buf, w, o, n)
        PROVE  from[n] = <<Payload(buf, Plus(o, n))>> \o from[n + L(n)]
    <3>1. n \in D /\ n # d /\ n \notin Stop
      BY <1>2, <2>2
    <3> QED BY <3>1, <1>7, <1>10
  <2> QED BY <2>1, <2>2, <1>2 DEF Walk
<1> QED BY <1>1, <1>11
\* A chain, one entry at a time.
LEMMA ChainStep ==
  ASSUME NEW buf \in [Offsets -> 0 .. Base - 1], NEW w \in Offsets,
         NEW E, Chain(buf, w, E), NEW o \in E, o # w
  PROVE  /\ o \in Offsets /\ Dist(w, o) \in 1 .. Size - 1
         /\ LenAt(buf, o) \in 3 .. Dist(w, o)
         /\ Plus(o, LenAt(buf, o)) \in E /\ Plus(o, LenAt(buf, o)) \in Offsets
         /\ Dist(w, Plus(o, LenAt(buf, o))) = Dist(w, o) - LenAt(buf, o)
<1>1. o \in Offsets /\ Plus(o, LenAt(buf, o)) \in E /\ Plus(o, LenAt(buf, o)) \in Offsets
  BY DEF Chain
<1>2. Dist(w, o) \in 0 .. Size - 1 /\ Dist(w, o) # 0
  BY <1>1, DistFacts
<1>3. LenAt(buf, o) \in Nat /\ LenAt(buf, o) > 2 /\ LenAt(buf, o) <= Dist(w, o)
  BY <1>1, LenAtType, Sizes DEF Chain
<1>4. LenAt(buf, o) \in 3 .. Dist(w, o)
  BY <1>2, <1>3
<1>5. Dist(w, Plus(o, LenAt(buf, o))) = Dist(w, o) - LenAt(buf, o)
  BY <1>1, <1>2, <1>4, DistPlus
<1> QED BY <1>1, <1>2, <1>4, <1>5, Sizes

\* What is pending at an entry is its payload and what is pending behind it.
LEMMA PendingStep ==
  ASSUME NEW buf \in [Offsets -> 0 .. Base - 1], NEW w \in Offsets,
         NEW E, Chain(buf, w, E), NEW o \in E, o # w
  PROVE  PendingOf(buf, w, o) = <<Payload(buf, o)>> \o PendingOf(buf, w, Plus(o, LenAt(buf, o)))
<1> DEFINE d == Dist(w, o)
           L == LenAt(buf, o)
           o2 == Plus(o, L)
           d2 == Dist(w, o2)
<1>1. /\ o \in Offsets /\ d \in 1 .. Size - 1 /\ L \in 3 .. d
      /\ o2 \in E /\ o2 \in Offsets /\ d2 = d - L
  BY ChainStep
<1>2. PICK g : Walk(buf, w, o, g) /\ PendingOf(buf, w, o) = g[0]
  BY <1>1, PendingWalk
<1>3. PICK h : Walk(buf, w, o2, h) /\ PendingOf(buf, w, o2) = h[0]
  BY <1>1, PendingWalk
<1>4. g[d] = <<>> /\ h[d2] = <<>>
  BY <1>2, <1>3 DEF Walk
<1>5. g[0] = <<Payload(buf, o)>> \o g[L]
  <2>1. Plus(o, 0) = o /\ 0 + L = L
    BY <1>1, Sizes DEF Plus, Offsets
  <2>2. 0 \in 0 .. d - 1 /\ Fits(buf, w, o, 0)
    BY <1>1, <2>1, Sizes DEF Fits
  <2>3. g[0] = <<Payload(buf, Plus(o, 0))>> \o g[0 + LenAt(buf, Plus(o, 0))]
    BY <1>2, <2>2 DEF Walk
  <2> QED BY <2>1, <2>3
<1> DEFINE S == {k \in Nat : \A n \in 0 .. d2 : d2 - n = k /\ Plus(o2, n) \in E => g[L + n] = h[n]}
<1> HIDE DEF L, o2, d, d2
<1>6. ASSUME NEW k \in Nat, \A m \in Nat : m < k => m \in S PROVE k \in S
  <2> SUFFICES ASSUME NEW n \in 0 .. d2, d2 - n = k, Plus(o2, n) \in E
               PROVE  g[L + n] = h[n]
    OBVIOUS
  <2>1. CASE n = d2
    <3>1. L + n = d
      BY <1>1, <2>1
    <3> QED BY <1>4, <2>1, <3>1
  <2>2. CASE n # d2
    <3> DEFINE x == Plus(o2, n)
               l == LenAt(buf, x)
    <3>1. n \in 0 .. d2 - 1 /\ L + n \in 0 .. d - 1 /\ L \in Nat /\ n \in Nat /\ L + n <= Size
          /\ d2 \in Nat /\ d \in Nat
      BY <1>1, <2>2, Sizes
    <3>2. Plus(o, L + n) = x
      BY <3>1, <1>1, PlusPlus DEF o2
    <3>3. Dist(w, x) = d2 - n
      BY <3>1, <1>1, DistPlus DEF d2
    <3>4. x \in Offsets /\ x # w
      <4>1. x \in Offsets
        BY DEF Chain
      <4> QED BY <4>1, <3>1, <3>3, DistFacts
    <3>5. l \in 3 .. d2 - n /\ Plus(x, l) \in E
      BY <3>3, <3>4, ChainStep
    <3> HIDE DEF x, l
    <3>6. /\ Fits(buf, w, o2, n) /\ Fits(buf, w, o, L + n)
          /\ n + l \in 0 .. d2 /\ d2 - (n + l) \in Nat /\ d2 - (n + l) < k
      <4>1. n + l <= d2 /\ L + n + l <= d /\ l > 2 /\ l \in Nat
        BY <3>1, <3>5, <1>1
      <4>2. Fits(buf, w, o2, n) /\ Fits(buf, w, o, L + n)
        BY <4>1, <3>2, Sizes DEF Fits, d, d2, x, l
      <4> QED BY <4>1, <4>2, <3>1
    <3>7. Plus(o2, n + l) \in E
      <4>1. n + l <= Size
        BY <3>6, <3>1, <1>1, Sizes
      <4>2. l \in Nat
        BY <3>5
      <4> QED BY <4>1, <4>2, <3>1, <3>5, <1>1, PlusPlus DEF x
    <3>8. g[L + (n + l)] = h[n + l]
      <4>1. d2 - (n + l) \in S
        BY <3>6, <1>6
      <4> QED BY <4>1, <3>6, <3>7
    <3>9. h[n] = <<Payload(buf, x)>> \o h[n + l]
      BY <1>3, <3>1, <3>6 DEF Walk, d2, x, l
    <3>10. g[L + n] = <<Payload(buf, x)>> \o g[(L + n) + l]
      BY <1>2, <3>1, <3>2, <3>6 DEF Walk, d, l
    <3>11. (L + n) + l = L + (n + l)
      BY <3>1, <3>5
    <3> QED BY <3>8, <3>9, <3>10, <3>11
  <2> QED BY <2>1, <2>2
<1> HIDE DEF S
<1>7. \A k \in Nat : k \in S
  BY <1>6, StrongInduction
<1>8. g[L] = h[0]
  <2>1. d2 \in Nat /\ L \in Nat /\ d2 - 0 = d2 /\ L + 0 = L
    BY <1>1
  <2>2. Plus(o2, 0) = o2
    BY <1>1, Sizes DEF Plus, Offsets
  <2>3. d2 \in S /\ 0 \in 0 .. d2
    BY <1>7, <2>1
  <2> QED BY <2>1, <2>2, <2>3, <1>1 DEF S
<1> QED BY <1>2, <1>3, <1>5, <1>8 DEF L, o2

\* Nothing is pending at w.
LEMMA PendingEnd ==
  ASSUME NEW buf \in [Offsets -> 0 .. Base - 1], NEW w \in Offsets
  PROVE  PendingOf(buf, w, w) = <<>>
<1>1. Dist(w, w) = 0
  BY DistFacts
<1>2. PICK g : Walk(buf, w, w, g) /\ PendingOf(buf, w, w) = g[0]
  BY PendingWalk
<1> QED BY <1>1, <1>2 DEF Walk

\* What holds at w, and at an entry if it holds behind it, holds along the chain.
LEMMA ChainInduction ==
  ASSUME NEW buf \in [Offsets -> 0 .. Base - 1], NEW w \in Offsets,
         NEW E, Chain(buf, w, E),
         NEW G, w \in G, \A o \in E : o # w /\ Plus(o, LenAt(buf, o)) \in G => o \in G
  PROVE  \A o \in E : o \in G
<1> DEFINE S == {k \in Nat : \A o \in E : Dist(w, o) = k => o \in G}
<1>1. ASSUME NEW k \in Nat, \A m \in Nat : m < k => m \in S PROVE k \in S
  <2> SUFFICES ASSUME NEW o \in E, Dist(w, o) = k, o # w PROVE o \in G
    OBVIOUS
  <2> DEFINE L == LenAt(buf, o)
             o2 == Plus(o, L)
  <2>1. /\ L \in 3 .. k /\ o2 \in E /\ Dist(w, o2) = k - L
    BY ChainStep
  <2>2. k - L \in Nat /\ k - L < k
    BY <2>1
  <2>3. o2 \in G
    BY <1>1, <2>1, <2>2
  <2> QED BY <2>3
<1> HIDE DEF S
<1>2. \A k \in Nat : k \in S
  BY <1>1, StrongInduction
<1>3. \A o \in E : Dist(w, o) \in Nat
  BY DistFacts, Sizes DEF Chain
<1> QED BY <1>2, <1>3 DEF S

-----------------------------------------------------------------------------
(***************************************************************************)
(* The bytes of a queue of LogFifo.                                        *)
(***************************************************************************)
Queues == Seq(Seq(Nat))

\* The values of the recursion of Bytes.
Sums(q, g) ==
  /\ g[Len(q) + 1] = 0
  /\ \A i \in 1 .. Len(q) : g[i] = PayloadEntryLen(q[i]) + g[i + 1]

\* The recursion of Bytes ends at the end of the queue.
LEMMA BytesSums ==
  ASSUME NEW q \in Queues
  PROVE  \E g : Sums(q, g) /\ Fifo!Bytes(q) = g[1]
<1> DEFINE n == Len(q)
           D == 1 .. n + 1
           IsFrom(g) == g = [i \in D |-> IF i > n THEN 0 ELSE PayloadEntryLen(q[i]) + g[i + 1]]
           from == CHOOSE g : IsFrom(g)
           Stop == {n + 1}
           rk == [i \in D |-> (n + 1) - i]
           val == [i \in D |-> 0]
           nx == [i \in D |-> IF i > n THEN i ELSE i + 1]
           c == [p \in D \X Nat |-> IF p[1] > n THEN 0 ELSE PayloadEntryLen(q[p[1]]) + p[2]]
<1>1. Fifo!Bytes(q) = from[1]
  BY Zenon DEF Fifo!Bytes
<1>2. n \in Nat /\ \A i \in 1 .. n : PayloadEntryLen(q[i]) \in Nat
  BY Sizes DEF Queues, PayloadEntryLen
<1>3. Ranked(D, Nat, Stop, rk, val, nx, c)
  <2>1. rk \in [D -> Nat] /\ val \in [D -> Nat] /\ nx \in [D -> D]
    BY <1>2
  <2>2. c \in [D \X Nat -> Nat]
    BY <1>2
  <2>3. n + 1 \in Nat /\ \A i \in D : rk[i] < n + 1
    BY <1>2
  <2>4. \A i \in D : i \notin Stop => rk[nx[i]] < rk[i]
    BY <1>2
  <2> HIDE DEF rk, val, nx, c, Stop, D
  <2> QED BY <2>1, <2>2, <2>3, <2>4 DEF Ranked
<1>4. PICK f : Recursive(f, D, Nat, Stop, val, nx, c)
  <2> HIDE DEF rk, val, nx, c, Stop, D
  <2> QED BY <1>3, RecursionExists
<1>5. /\ f \in [D -> Nat]
      /\ \A i \in D : i \in Stop => f[i] = val[i]
      /\ \A i \in D : i \notin Stop => f[i] = c[<<i, f[nx[i]]>>]
  BY <1>4 DEF Recursive
<1>6. ASSUME NEW i \in D
      PROVE  f[i] = IF i > n THEN 0 ELSE PayloadEntryLen(q[i]) + f[i + 1]
  <2>1. CASE i > n
    BY <1>2, <1>5, <2>1
  <2>2. CASE i <= n
    <3>1. i \notin Stop /\ ~ (i > n) /\ nx[i] = i + 1 /\ i + 1 \in D
      BY <1>2, <2>2
    <3>2. f[i + 1] \in Nat
      BY <1>5, <3>1
    <3>3. c[<<i, f[i + 1]>>] = PayloadEntryLen(q[i]) + f[i + 1]
      BY <3>1, <3>2
    <3> QED BY <1>5, <3>1, <3>3
  <2> QED BY <1>2, <2>1, <2>2
<1>7. IsFrom(f)
  <2>1. f = [i \in D |-> f[i]]
    BY <1>5
  <2> QED BY <2>1, <1>6
<1>8. IsFrom(from)
  <2>1. \E g : IsFrom(g)
    BY <1>7
  <2> HIDE DEF IsFrom
  <2> QED BY <2>1, Zenon
<1> HIDE DEF from
<1>9. \A i \in D : from[i] = IF i > n THEN 0 ELSE PayloadEntryLen(q[i]) + from[i + 1]
  BY <1>8
<1>10. Sums(q, from)
  <2>1. n + 1 \in D /\ n + 1 > n /\ \A i \in 1 .. n : i \in D /\ ~ (i > n)
    BY <1>2
  <2> QED BY <1>9, <2>1 DEF Sums
<1> QED BY <1>1, <1>10

\* The bytes of no entry.
LEMMA BytesEmpty == Fifo!Bytes(<<>>) = 0
<1>1. <<>> \in Queues /\ Len(<<>>) = 0
  BY DEF Queues
<1>2. PICK g : Sums(<<>>, g) /\ Fifo!Bytes(<<>>) = g[1]
  BY <1>1, BytesSums
<1> QED BY <1>1, <1>2 DEF Sums

\* The bytes of a queue with one entry more in front.
LEMMA BytesStep ==
  ASSUME NEW q \in Queues, NEW e \in Seq(Nat)
  PROVE  /\ <<e>> \o q \in Queues
         /\ Fifo!Bytes(<<e>> \o q) = PayloadEntryLen(e) + Fifo!Bytes(q)
<1> DEFINE p == <<e>> \o q
           n == Len(q)
<1>1. /\ p \in Queues /\ Len(p) = n + 1 /\ n \in Nat /\ p[1] = e
      /\ \A i \in 1 .. n : p[i + 1] = q[i]
  BY DEF Queues
<1> HIDE DEF p
<1>2. PICK g : Sums(p, g) /\ Fifo!Bytes(p) = g[1]
  BY <1>1, BytesSums
<1>3. PICK h : Sums(q, h) /\ Fifo!Bytes(q) = h[1]
  BY BytesSums
<1> DEFINE S == {k \in Nat : \A i \in 1 .. n + 1 : (n + 1) - i = k => g[i + 1] = h[i]}
<1>4. 0 \in S
  <2>1. g[(n + 1) + 1] = 0 /\ h[n + 1] = 0
    BY <1>1, <1>2, <1>3 DEF Sums
  <2> QED BY <1>1, <2>1
<1>5. ASSUME NEW k \in Nat, k \in S PROVE k + 1 \in S
  <2> SUFFICES ASSUME NEW i \in 1 .. n + 1, (n + 1) - i = k + 1 PROVE g[i + 1] = h[i]
    OBVIOUS
  <2>1. i \in 1 .. n /\ i + 1 \in 1 .. n + 1 /\ (n + 1) - (i + 1) = k
    BY <1>1
  <2>2. g[(i + 1) + 1] = h[i + 1]
    BY <1>5, <2>1
  <2>3. h[i] = PayloadEntryLen(q[i]) + h[i + 1]
    BY <1>3, <2>1 DEF Sums
  <2>4. g[i + 1] = PayloadEntryLen(p[i + 1]) + g[(i + 1) + 1]
    BY <1>1, <1>2, <2>1 DEF Sums
  <2> QED BY <1>1, <2>1, <2>2, <2>3, <2>4
<1> HIDE DEF S
<1>6. n \in S
  BY <1>1, <1>4, <1>5, SetInduction
<1>7. g[2] = h[1]
  <2>1. 1 \in 1 .. n + 1 /\ (n + 1) - 1 = n /\ 1 + 1 = 2
    BY <1>1
  <2> QED BY <1>6, <2>1 DEF S
<1>8. g[1] = PayloadEntryLen(e) + g[2]
  BY <1>1, <1>2 DEF Sums
<1> QED BY <1>1, <1>2, <1>3, <1>7, <1>8 DEF p
-----------------------------------------------------------------------------
(***************************************************************************)
(* What is pending along a chain.                                          *)
(***************************************************************************)

\* An entry of a chain has a payload.
LEMMA PayloadFacts ==
  ASSUME NEW buf \in [Offsets -> 0 .. Base - 1], NEW w \in Offsets,
         NEW E, Chain(buf, w, E), NEW o \in E, o # w
  PROVE  /\ Payload(buf, o) \in Seq(Nat) /\ Payload(buf, o) # <<>>
         /\ Len(Payload(buf, o)) = LenAt(buf, o) - HeaderLen
         /\ PayloadEntryLen(Payload(buf, o)) = LenAt(buf, o)
<1> DEFINE L == LenAt(buf, o)
           d == Dist(w, o)
           e == Payload(buf, o)
<1>1. o \in Offsets /\ d \in 1 .. Size - 1 /\ L \in 3 .. d
  BY ChainStep
<1>2. Plus(o, 0) = o
  BY <1>1, Sizes DEF Plus, Offsets
<1>3. 0 \in 0 .. d - 1 /\ Fits(buf, w, o, 0)
  BY <1>1, <1>2, Sizes DEF Fits
<1>4. e \in Seq(Nat) /\ Len(e) = L - HeaderLen
  BY <1>1, <1>2, <1>3, PendingCells
<1>5. L - HeaderLen >= 1 /\ HeaderLen + (L - HeaderLen) = L
  BY <1>1, Sizes
<1> HIDE DEF e
<1>6. e # <<>> /\ PayloadEntryLen(e) = L
  BY <1>4, <1>5 DEF PayloadEntryLen
<1> QED BY <1>4, <1>6 DEF e

\* Along a chain the entries are whole, and their bytes are all the bytes up to
\* w.
LEMMA PendingFacts ==
  ASSUME NEW buf \in [Offsets -> 0 .. Base - 1], NEW w \in Offsets,
         NEW E, Chain(buf, w, E), NEW o \in E
  PROVE  /\ PendingOf(buf, w, o) \in Queues
         /\ \A i \in DOMAIN PendingOf(buf, w, o) : PendingOf(buf, w, o)[i] # <<>>
         /\ Fifo!Bytes(PendingOf(buf, w, o)) = Dist(w, o)
<1> DEFINE G == {x \in E : /\ PendingOf(buf, w, x) \in Queues
                           /\ \A i \in DOMAIN PendingOf(buf, w, x) : PendingOf(buf, w, x)[i] # <<>>
                           /\ Fifo!Bytes(PendingOf(buf, w, x)) = Dist(w, x)}
<1>1. w \in G
  <2>1. w \in E /\ PendingOf(buf, w, w) = <<>> /\ Dist(w, w) = 0
    BY PendingEnd, DistFacts DEF Chain
  <2>2. <<>> \in Queues /\ DOMAIN <<>> = {}
    BY DEF Queues
  <2> QED BY <2>1, <2>2, BytesEmpty
<1>2. ASSUME NEW x \in E, x # w, Plus(x, LenAt(buf, x)) \in G PROVE x \in G
  <2> DEFINE L == LenAt(buf, x)
             y == Plus(x, L)
             e == Payload(buf, x)
             p == PendingOf(buf, w, x)
             q == PendingOf(buf, w, y)
  <2>1. /\ x \in Offsets /\ Dist(w, x) \in 1 .. Size - 1 /\ L \in 3 .. Dist(w, x)
        /\ Dist(w, y) = Dist(w, x) - L
    BY <1>2, ChainStep
  <2>2. p = <<e>> \o q
    BY <1>2, PendingStep
  <2>3. e \in Seq(Nat)
    BY <1>2, PayloadFacts
  <2>4. PayloadEntryLen(e) = L /\ e # <<>>
    BY <1>2, PayloadFacts
  <2>5. q \in Queues /\ Fifo!Bytes(q) = Dist(w, y) /\ \A i \in DOMAIN q : q[i] # <<>>
    BY <1>2
  <2> HIDE DEF p, q, e
  <2>6. p \in Queues /\ Fifo!Bytes(p) = L + Fifo!Bytes(q)
    BY <2>2, <2>3, <2>4, <2>5, BytesStep
  <2>7. Fifo!Bytes(p) = Dist(w, x)
    BY <2>1, <2>5, <2>6
  <2>8. ASSUME NEW i \in DOMAIN p PROVE p[i] # <<>>
    <3>1. i \in 1 .. Len(q) + 1 /\ Len(q) \in Nat
      BY <2>2, <2>3, <2>5 DEF Queues
    <3>2. CASE i = 1
      BY <2>2, <2>3, <2>4, <2>5, <3>2 DEF Queues
    <3>3. CASE i # 1
      <4>1. i - 1 \in DOMAIN q /\ p[i] = q[i - 1]
        BY <2>2, <2>3, <2>5, <3>1, <3>3 DEF Queues
      <4> QED BY <4>1, <2>5
    <3> QED BY <3>2, <3>3
  <2> QED BY <2>6, <2>7, <2>8 DEF p
<1> HIDE DEF G
<1>3. o \in G
  BY <1>1, <1>2, ChainInduction
<1> QED BY <1>3 DEF G

\* What is left of a suffix without its first entry is a suffix.
LEMMA SuffixTail ==
  ASSUME NEW q \in Queues, NEW e \in Seq(Nat), NEW t \in Queues,
         <<e>> \o t \in Fifo!Suffixes(q)
  PROVE  t \in Fifo!Suffixes(q)
<1> DEFINE n == Len(q)
<1>1. n \in Nat /\ <<e>> \o t # <<>> /\ Len(<<e>> \o t) = Len(t) + 1 /\ Len(t) \in Nat
      /\ \A i \in 1 .. Len(t) : (<<e>> \o t)[i + 1] = t[i]
  BY DEF Queues
<1>2. PICK l \in 1 .. n : <<e>> \o t = SubSeq(q, l, n)
  BY <1>1 DEF Fifo!Suffixes
<1>3. Len(t) = n - l /\ \A i \in 1 .. Len(t) : t[i] = q[l + i]
  <2>1. \A i \in l .. n : q[i] \in Seq(Nat)
    BY <1>1 DEF Queues
  <2>2. /\ Len(SubSeq(q, l, n)) = n - l + 1
        /\ \A i \in 1 .. n - l + 1 : SubSeq(q, l, n)[i] = q[l + i - 1]
    BY <1>1, <2>1, SubSeqProperties
  <2>3. Len(t) = n - l
    BY <1>1, <1>2, <2>2
  <2>4. ASSUME NEW i \in 1 .. Len(t) PROVE t[i] = q[l + i]
    <3>1. i + 1 \in 1 .. n - l + 1 /\ l + (i + 1) - 1 = l + i
      BY <1>1, <2>3
    <3> QED BY <1>1, <1>2, <2>2, <3>1
  <2> QED BY <2>3, <2>4
<1>4. CASE l = n
  <2>1. t = <<>>
    BY <1>3, <1>4 DEF Queues
  <2> QED BY <2>1 DEF Fifo!Suffixes
<1>5. CASE l < n
  <2>1. l + 1 \in 1 .. n /\ SubSeq(q, l + 1, n) \in Queues /\ Len(SubSeq(q, l + 1, n)) = n - l
    BY <1>5 DEF Queues
  <2>2. \A i \in 1 .. Len(t) : t[i] = SubSeq(q, l + 1, n)[i]
    <3>1. ASSUME NEW i \in 1 .. Len(t) PROVE t[i] = SubSeq(q, l + 1, n)[i]
      <4>1. i \in 1 .. n - (l + 1) + 1 /\ (l + 1) + i - 1 = l + i /\ t[i] = q[l + i]
        BY <1>1, <1>3
      <4>2. \A k \in l + 1 .. n : q[k] \in Seq(Nat)
        BY <1>1 DEF Queues
      <4>3. SubSeq(q, l + 1, n)[i] = q[(l + 1) + i - 1]
        BY <1>1, <2>1, <4>1, <4>2, SubSeqProperties
      <4> QED BY <4>1, <4>3
    <3> QED BY <3>1
  <2>3. t = SubSeq(q, l + 1, n)
    BY <1>3, <2>1, <2>2, SeqEqual DEF Queues
  <2> QED BY <2>1, <2>3 DEF Fifo!Suffixes
<1> QED BY <1>4, <1>5

\* From o one comes along the chain to suffixes of what is pending at o.
LEMMA ChainOfSuffixes ==
  ASSUME NEW buf \in [Offsets -> 0 .. Base - 1], NEW w \in Offsets,
         NEW E, Chain(buf, w, E), NEW q \in Queues
  PROVE  Chain(buf, w, {x \in E : PendingOf(buf, w, x) \in Fifo!Suffixes(q)})
<1> DEFINE G == {x \in E : PendingOf(buf, w, x) \in Fifo!Suffixes(q)}
<1>1. w \in G
  BY PendingEnd DEF Chain, Fifo!Suffixes
<1>2. ASSUME NEW x \in G, x # w PROVE Plus(x, LenAt(buf, x)) \in G
  <2> DEFINE y == Plus(x, LenAt(buf, x))
  <2>1. y \in E /\ x \in Offsets /\ Dist(w, x) \in 1 .. Size - 1 /\ LenAt(buf, x) \in 3 .. Dist(w, x)
    BY <1>2, ChainStep
  <2>2. PendingOf(buf, w, x) = <<Payload(buf, x)>> \o PendingOf(buf, w, y)
    BY <1>2, PendingStep
  <2>3. PendingOf(buf, w, y) \in Queues
    BY <2>1, PendingFacts
  <2>4. Payload(buf, x) \in Seq(Nat)
    BY <1>2, PayloadFacts
  <2>5. <<Payload(buf, x)>> \o PendingOf(buf, w, y) \in Fifo!Suffixes(q)
    BY <1>2, <2>2
  <2>6. PendingOf(buf, w, y) \in Fifo!Suffixes(q)
    BY <2>3, <2>4, <2>5, SuffixTail
  <2> QED BY <2>1, <2>6
<1> QED BY <1>1, <1>2 DEF Chain
-----------------------------------------------------------------------------
(***************************************************************************)
(* Writing M bytes from w on.                                              *)
(***************************************************************************)

\* The offsets of a chain that writing M bytes does not overtake.
Spared(w, E, M) == {o \in E : Dist(w, o) + M < Size}

\* buf2 is buf but for the M bytes from w on.
Overwrites(buf, buf2, w, M) == \A i \in M .. Size - 1 : buf2[Plus(w, i)] = buf[Plus(w, i)]

\* The entries that are not overtaken stay as they are.
LEMMA EntryKept ==
  ASSUME NEW buf \in [Offsets -> 0 .. Base - 1], NEW w \in Offsets,
         NEW buf2 \in [Offsets -> 0 .. Base - 1],
         NEW M \in 1 .. Size - 1, Overwrites(buf, buf2, w, M),
         NEW E, Chain(buf, w, E), NEW o \in Spared(w, E, M), o # w
  PROVE  LenAt(buf2, o) = LenAt(buf, o) /\ Payload(buf2, o) = Payload(buf, o)
<1> DEFINE d == Dist(w, o)
           L == LenAt(buf, o)
<1>1. o \in E /\ o \in Offsets /\ d \in 1 .. Size - 1 /\ L \in 3 .. d /\ d + M < Size
  BY ChainStep DEF Spared
<1>2. ASSUME NEW j \in 0 .. L - 1 PROVE buf2[Plus(o, j)] = buf[Plus(o, j)]
  <2>1. (Size - d) + j \in M .. Size - 1
    BY <1>1, Sizes
  <2>2. j \in Nat /\ j < d
    BY <1>1
  <2>3. Plus(o, j) = Plus(w, (Size - d) + j)
    <3> HIDE DEF L
    <3> QED BY <1>1, <2>2, Sizes DEF Plus, Dist, Offsets, d
  <2> QED BY <2>1, <2>3 DEF Overwrites
<1>3. Plus(o, 0) = o
  BY <1>1, Sizes DEF Plus, Offsets
<1>4. buf2[o] = buf[o] /\ buf2[Plus(o, 1)] = buf[Plus(o, 1)]
  <2>1. 0 \in 0 .. L - 1 /\ 1 \in 0 .. L - 1
    BY <1>1
  <2> QED BY <2>1, <1>2, <1>3
<1>5. LenAt(buf2, o) = L
  BY <1>4 DEF LenAt
<1>6. ASSUME NEW i \in 1 .. L - HeaderLen PROVE buf2[Plus(o, 1 + i)] = buf[Plus(o, 1 + i)]
  <2>1. 1 + i \in 0 .. L - 1
    BY <1>1, Sizes
  <2> QED BY <2>1, <1>2
<1> HIDE DEF L
<1>7. [i \in 1 .. L - HeaderLen |-> buf2[Plus(o, 1 + i)]]
        = [i \in 1 .. L - HeaderLen |-> buf[Plus(o, 1 + i)]]
  BY <1>6
<1> QED BY <1>5, <1>7 DEF L, Payload

\* They are a chain themselves.
LEMMA SparedChain ==
  ASSUME NEW buf \in [Offsets -> 0 .. Base - 1], NEW w \in Offsets,
         NEW M \in 1 .. Size - 1, NEW E, Chain(buf, w, E)
  PROVE  Chain(buf, w, Spared(w, E, M))
<1>1. w \in Spared(w, E, M) /\ Spared(w, E, M) \subseteq Offsets
  <2>1. Dist(w, w) = 0 /\ 0 + M < Size
    BY DistFacts, Sizes
  <2> QED BY <2>1 DEF Spared, Chain
<1>2. ASSUME NEW o \in Spared(w, E, M), o # w
      PROVE  /\ LenAt(buf, o) > HeaderLen /\ LenAt(buf, o) <= Dist(w, o)
             /\ Plus(o, LenAt(buf, o)) \in Spared(w, E, M)
  <2>1. /\ o \in E /\ Dist(w, o) + M < Size
        /\ Dist(w, o) \in 1 .. Size - 1 /\ LenAt(buf, o) \in 3 .. Dist(w, o)
        /\ Plus(o, LenAt(buf, o)) \in E
        /\ Dist(w, Plus(o, LenAt(buf, o))) = Dist(w, o) - LenAt(buf, o)
    BY <1>2, ChainStep DEF Spared
  <2>2. LenAt(buf, o) > HeaderLen /\ LenAt(buf, o) <= Dist(w, o)
    BY <2>1, Sizes
  <2>3. Dist(w, Plus(o, LenAt(buf, o))) + M < Size
    BY <2>1, Sizes
  <2> QED BY <2>1, <2>2, <2>3 DEF Spared
<1> QED BY <1>1, <1>2 DEF Chain

\* A write that fails: what is pending at them stays.
LEMMA FailKeeps ==
  ASSUME NEW buf \in [Offsets -> 0 .. Base - 1], NEW w \in Offsets,
         NEW buf2 \in [Offsets -> 0 .. Base - 1],
         NEW M \in 1 .. Size - 1, Overwrites(buf, buf2, w, M),
         NEW E, Chain(buf, w, E)
  PROVE  /\ Chain(buf2, w, Spared(w, E, M))
         /\ \A o \in Spared(w, E, M) : PendingOf(buf2, w, o) = PendingOf(buf, w, o)
<1> DEFINE F == Spared(w, E, M)
<1>1. Chain(buf, w, F)
  BY SparedChain
<1>2. \A o \in F : o # w => LenAt(buf2, o) = LenAt(buf, o) /\ Payload(buf2, o) = Payload(buf, o)
  BY EntryKept
<1> HIDE DEF F
<1>3. Chain(buf2, w, F)
  BY <1>1, <1>2 DEF Chain
<1> DEFINE G == {o \in F : PendingOf(buf2, w, o) = PendingOf(buf, w, o)}
<1>4. w \in G
  BY <1>1, PendingEnd DEF Chain
<1>5. ASSUME NEW o \in F, o # w, Plus(o, LenAt(buf, o)) \in G PROVE o \in G
  <2>1. PendingOf(buf, w, o) = <<Payload(buf, o)>> \o PendingOf(buf, w, Plus(o, LenAt(buf, o)))
    BY <1>1, <1>5, PendingStep
  <2>2. PendingOf(buf2, w, o) = <<Payload(buf2, o)>> \o PendingOf(buf2, w, Plus(o, LenAt(buf2, o)))
    BY <1>3, <1>5, PendingStep
  <2> QED BY <1>2, <1>5, <2>1, <2>2
<1> HIDE DEF G
<1>6. \A o \in F : o \in G
  BY <1>1, <1>4, <1>5, ChainInduction
<1> QED BY <1>3, <1>6 DEF F, G

\* An entry in front and one behind.
LEMMA AppendBehind ==
  ASSUME NEW e \in Seq(Nat), NEW x \in Seq(Nat), NEW q \in Queues
  PROVE  <<e>> \o Append(q, x) = Append(<<e>> \o q, x)
BY DEF Queues

\* The entry at w is the last one pending at the offsets in F.
Adds(buf, buf2, w, w2, F) ==
  \A o \in F : PendingOf(buf2, w2, o) = Append(PendingOf(buf, w, o), Payload(buf2, w))

\* A write: the new entry is the last one pending at them, and the only one
\* where they were at w.
LEMMA WriteAdds ==
  ASSUME NEW buf \in [Offsets -> 0 .. Base - 1], NEW w \in Offsets,
         NEW buf2 \in [Offsets -> 0 .. Base - 1],
         NEW M \in 3 .. Size - 1, Overwrites(buf, buf2, w, M), LenAt(buf2, w) = M,
         NEW E, Chain(buf, w, E)
  PROVE  /\ Chain(buf2, Plus(w, M), Spared(w, E, M) \cup {Plus(w, M)})
         /\ Adds(buf, buf2, w, Plus(w, M), Spared(w, E, M))
<1> DEFINE F == Spared(w, E, M)
           w2 == Plus(w, M)
           F2 == F \cup {w2}
           x == Payload(buf2, w)
<1>1. Chain(buf, w, F)
  BY SparedChain
<1>2. \A o \in F : o # w => LenAt(buf2, o) = LenAt(buf, o) /\ Payload(buf2, o) = Payload(buf, o)
  BY EntryKept
<1>3. w2 \in Offsets /\ w \in F /\ F \subseteq Offsets
  <2>1. M \in 0 .. Size
    BY Sizes
  <2>2. w2 \in Offsets
    BY <2>1, OffsetIsPlus
  <2> QED BY <1>1, <2>2 DEF Chain
<1>4. \A o \in F : Dist(w, o) \in Nat /\ Dist(w2, o) = Dist(w, o) + M /\ o # w2
  <2> SUFFICES ASSUME NEW o \in F
               PROVE  Dist(w, o) \in Nat /\ Dist(w2, o) = Dist(w, o) + M /\ o # w2
    OBVIOUS
  <2>1. o \in Offsets /\ Dist(w, o) + M < Size
    BY <1>3 DEF Spared
  <2>2. Dist(w, o) \in Nat
    BY <2>1, DistFacts
  <2>3. Dist(w2, o) = Dist(w, o) + M
    BY <2>1, DistGrows
  <2>4. Dist(w2, o) # 0
    BY <2>2, <2>3
  <2> QED BY <2>1, <2>2, <2>3, <2>4, <1>3, DistFacts
<1>5. Chain(buf2, w2, F2)
  <2>1. ASSUME NEW o \in F2, o # w2
        PROVE  /\ LenAt(buf2, o) > HeaderLen /\ LenAt(buf2, o) <= Dist(w2, o)
               /\ Plus(o, LenAt(buf2, o)) \in F2
    <3>1. o \in F
      BY <2>1
    <3>2. CASE o = w
      <4>1. Dist(w, w) = 0
        BY DistFacts
      <4>2. Dist(w2, o) = M
        BY <1>3, <1>4, <3>2, <4>1
      <4> QED BY <3>2, <4>2, Sizes
    <3>3. CASE o # w
      <4>1. /\ LenAt(buf, o) \in 3 .. Dist(w, o) /\ Plus(o, LenAt(buf, o)) \in F
        BY <1>1, <3>1, <3>3, ChainStep
      <4> QED BY <4>1, <1>2, <1>4, <3>1, <3>3, Sizes
    <3> QED BY <3>2, <3>3
  <2> QED BY <1>3, <2>1 DEF Chain
<1>6. w \in F2 /\ w # w2 /\ \A o \in F : o \in F2 /\ o # w2
  BY <1>3, <1>4
<1> HIDE DEF F, F2, w2
<1>61. x \in Seq(Nat)
  BY <1>3, <1>5, <1>6, PayloadFacts
<1> HIDE DEF x
<1> DEFINE G == {o \in F : PendingOf(buf2, w2, o) = Append(PendingOf(buf, w, o), x)}
<1>7. w \in G
  <2>1. PendingOf(buf, w, w) = <<>> /\ PendingOf(buf2, w2, w2) = <<>>
    BY <1>3, PendingEnd
  <2>2. PendingOf(buf2, w2, w) = <<x>> \o PendingOf(buf2, w2, Plus(w, LenAt(buf2, w)))
    BY <1>3, <1>5, <1>6, PendingStep DEF x
  <2>21. Plus(w, LenAt(buf2, w)) = w2
    BY DEF w2
  <2>3. <<x>> \o <<>> = Append(<<>>, x)
    BY <1>61
  <2> QED BY <1>3, <2>1, <2>2, <2>21, <2>3
<1>8. ASSUME NEW o \in F, o # w, Plus(o, LenAt(buf, o)) \in G PROVE o \in G
  <2> DEFINE y == Plus(o, LenAt(buf, o))
             e == Payload(buf, o)
             q == PendingOf(buf, w, y)
  <2>1. PendingOf(buf, w, o) = <<e>> \o q
    BY <1>1, <1>8, PendingStep
  <2>2. PendingOf(buf2, w2, o) = <<Payload(buf2, o)>> \o PendingOf(buf2, w2, Plus(o, LenAt(buf2, o)))
    BY <1>3, <1>5, <1>6, PendingStep
  <2>3. PendingOf(buf2, w2, o) = <<e>> \o Append(q, x)
    BY <1>2, <1>8, <2>2
  <2>4. e \in Seq(Nat) /\ q \in Queues
    BY <1>1, <1>8, ChainStep, PayloadFacts, PendingFacts
  <2>5. <<e>> \o Append(q, x) = Append(<<e>> \o q, x)
    BY <1>61, <2>4, AppendBehind
  <2> QED BY <2>1, <2>3, <2>5
<1> HIDE DEF G
<1>9. \A o \in F : o \in G
  BY <1>1, <1>7, <1>8, ChainInduction
<1> QED BY <1>5, <1>9 DEF F, F2, G, x, w2, Adds

\* Two bytes hold a length.
LEMMA TwoBytes ==
  ASSUME NEW len \in Nat, len < Base * Base
  PROVE  /\ len % Base \in 0 .. Base - 1 /\ len \div Base \in 0 .. Base - 1
         /\ (len % Base) + Base * (len \div Base) = len
<1>1. Base \in Nat /\ Base > 0
  BY Sizes
<1>2. len % Base \in 0 .. Base - 1
  BY <1>1, Z3
<1>3. (len % Base) + Base * (len \div Base) = len
  BY <1>1, Z3
<1>4. len \div Base \in Nat
  BY <1>1, Z3
<1>5. len \div Base <= Base - 1
  <2> DEFINE k == len \div Base
             m == len % Base
  <2>1. k \in Nat /\ m \in Nat /\ m + Base * k = len
    BY <1>1, <1>2, <1>3, <1>4
  <2> HIDE DEF k, m
  <2>2. ASSUME k >= Base PROVE FALSE
    <3>1. Base * k >= Base * Base
      BY <1>1, <2>1, <2>2, Z3
    <3>2. Base * k \in Nat /\ Base * Base \in Nat
      BY <1>1, <2>1
    <3> QED BY <3>1, <3>2, <2>1
  <2>3. k <= Base - 1
    BY <1>1, <2>1, <2>2
  <2> QED BY <2>3 DEF k
<1> QED BY <1>1, <1>2, <1>3, <1>4, <1>5

\* The cells of the buffer that a write leaves.
LEMMA WrittenCells ==
  ASSUME buffer \in [Offsets -> 0 .. Base - 1], w_off \in Offsets,
         NEW len \in 1 .. MaxPayload, NEW byte \in PayloadBytes, NEW n \in 0 .. len,
         NEW i \in 0 .. Size - 1
  PROVE  /\ Plus(w_off, i) \in Offsets
         /\ Written(len, byte, n)[Plus(w_off, i)]
              = IF i = 0 THEN len % Base ELSE IF i = 1 THEN len \div Base
                ELSE IF i < HeaderLen + n THEN byte ELSE buffer[Plus(w_off, i)]
<1> DEFINE c == Plus(w_off, i)
<1>1. i \in Nat /\ i < Size /\ n \in Nat /\ i \in 0 .. Size
  BY Sizes
<1>2. c \in Offsets
  BY <1>1, OffsetIsPlus
<1>3. Dist(c, w_off) = i
  BY <1>1, Sizes DEF Dist, Plus, Offsets
<1>4. (c + Size - w_off) % Size = i
  BY <1>2, <1>3, UsedIsDist
<1> HIDE DEF c
<1>5. Written(len, byte, n)[c] = CASE i = 0 -> len % Base
                                   [] i = 1 -> len \div Base
                                   [] i >= HeaderLen /\ i < HeaderLen + n -> byte
                                   [] OTHER -> buffer[c]
  BY <1>2, <1>4 DEF Written
<1>6. CASE i = 0
  BY <1>5, <1>6, <1>2, Sizes DEF c
<1>7. CASE i = 1
  BY <1>5, <1>7, <1>2, Sizes DEF c
<1>8. CASE i # 0 /\ i # 1 /\ i < HeaderLen + n
  <2>1. i >= HeaderLen
    BY <1>1, <1>8, Sizes
  <2> QED BY <1>5, <1>8, <2>1, <1>2, Sizes DEF c
<1>9. CASE i # 0 /\ i # 1 /\ ~ (i < HeaderLen + n)
  BY <1>5, <1>9, <1>2, Sizes DEF c
<1> QED BY <1>6, <1>7, <1>8, <1>9

\* A write puts an entry at w_off and touches nothing behind it.
LEMMA WrittenFacts ==
  ASSUME buffer \in [Offsets -> 0 .. Base - 1], w_off \in Offsets,
         NEW len \in 1 .. MaxPayload, NEW byte \in PayloadBytes, NEW n \in 0 .. len
  PROVE  /\ Written(len, byte, n) \in [Offsets -> 0 .. Base - 1]
         /\ HeaderLen + len \in 3 .. Size - 1 /\ HeaderLen + len <= MaxEntry
         /\ Overwrites(buffer, Written(len, byte, n), w_off, HeaderLen + len)
         /\ LenAt(Written(len, byte, n), w_off) = HeaderLen + len
         /\ n = len => Payload(Written(len, byte, n), w_off) = [i \in 1 .. len |-> byte]
<1> DEFINE buf2 == Written(len, byte, n)
<1>1. len \in Nat /\ len >= 1 /\ len <= MaxPayload /\ n \in Nat /\ n <= len
  BY Sizes
<1>2. HeaderLen + len \in 3 .. Size - 1 /\ HeaderLen + len <= MaxEntry
  BY <1>1, Sizes
<1>3. /\ len % Base \in 0 .. Base - 1 /\ len \div Base \in 0 .. Base - 1
      /\ (len % Base) + Base * (len \div Base) = len
  <2>1. len < Base * Base
    BY <1>1, Sizes
  <2> QED BY <1>1, <2>1, TwoBytes
<1>4. \A i \in 0 .. Size - 1 :
        /\ Plus(w_off, i) \in Offsets
        /\ buf2[Plus(w_off, i)]
              = IF i = 0 THEN len % Base ELSE IF i = 1 THEN len \div Base
                ELSE IF i < HeaderLen + n THEN byte ELSE buffer[Plus(w_off, i)]
  BY WrittenCells
<1>5. buf2 \in [Offsets -> 0 .. Base - 1]
  <2>1. ASSUME NEW c \in Offsets PROVE buf2[c] \in 0 .. Base - 1
    <3>1. Dist(c, w_off) \in 0 .. Size - 1 /\ Plus(w_off, Dist(c, w_off)) = c
      BY DistFacts
    <3>2. byte \in 0 .. Base - 1 /\ buffer[c] \in 0 .. Base - 1
      BY Sizes
    <3> HIDE DEF buf2
    <3>3. buf2[c] = len % Base \/ buf2[c] = len \div Base \/ buf2[c] = byte \/ buf2[c] = buffer[c]
      BY <1>4, <3>1
    <3> QED BY <1>3, <3>2, <3>3
  <2>2. buf2 = [c \in Offsets |-> buf2[c]]
    BY DEF Written
  <2> HIDE DEF buf2
  <2> QED BY <2>1, <2>2
<1> HIDE DEF buf2
<1>6. Overwrites(buffer, buf2, w_off, HeaderLen + len)
  <2>1. ASSUME NEW i \in (HeaderLen + len) .. Size - 1
        PROVE  i \in 0 .. Size - 1 /\ i # 0 /\ i # 1 /\ ~ (i < HeaderLen + n)
    BY <1>1, <1>2, Sizes
  <2> QED BY <1>4, <2>1 DEF Overwrites
<1>7. LenAt(buf2, w_off) = HeaderLen + len
  <2>1. 0 \in 0 .. Size - 1 /\ 1 \in 0 .. Size - 1 /\ 1 # 0 /\ Plus(w_off, 0) = w_off
    BY Sizes DEF Plus, Offsets
  <2>2. buf2[w_off] = len % Base /\ buf2[Plus(w_off, 1)] = len \div Base
    BY <1>4, <2>1
  <2>3. LenAt(buf2, w_off) = HeaderLen + (len % Base) + Base * (len \div Base)
    BY <2>2 DEF LenAt
  <2> DEFINE a == len % Base
             b == Base * (len \div Base)
  <2>4. a \in Nat /\ b \in Nat /\ a + b = len
    BY <1>3, Sizes
  <2> HIDE DEF a, b
  <2>5. HeaderLen + a + b = HeaderLen + len
    BY <2>4, Sizes
  <2> QED BY <2>3, <2>5 DEF a, b
<1>8. ASSUME n = len PROVE Payload(buf2, w_off) = [i \in 1 .. len |-> byte]
  <2>1. (HeaderLen + len) - HeaderLen = len
    BY <1>1, Sizes
  <2>2. ASSUME NEW i \in 1 .. len PROVE buf2[Plus(w_off, 1 + i)] = byte
    <3>1. 1 + i \in 0 .. Size - 1 /\ 1 + i # 0 /\ 1 + i # 1 /\ 1 + i < HeaderLen + n
      BY <1>1, <1>2, <1>8, Sizes
    <3> QED BY <1>4, <3>1
  <2>3. [i \in 1 .. len |-> buf2[Plus(w_off, 1 + i)]] = [i \in 1 .. len |-> byte]
    BY <2>2
  <2> QED BY <1>7, <2>1, <2>3 DEF Payload
<1> QED BY <1>2, <1>5, <1>6, <1>7, <1>8 DEF buf2
\* clock_interval: does a write of M bytes come to off?
LEMMA ClockInterval ==
  ASSUME NEW w \in Offsets, NEW off \in Offsets, NEW M \in 1 .. Size - 1
  PROVE  clock_interval(w, logger_offset(w + M), off) <=> off # w /\ Dist(w, off) + M >= Size
<1>1. M \in 0 .. Size
  BY Sizes
<1>2. logger_offset(w + M) = Plus(w, M)
  BY <1>1, OffsetIsPlus
<1>3. clock_interval(w, Plus(w, M), off) <=> off # w /\ Dist(w, off) + M >= Size
  BY Sizes DEF clock_interval, Plus, Dist, Offsets
<1> QED BY <1>2, <1>3

\* fix_up_readers takes an offset along its chain out of the way of the write,
\* and costs entries only if the write would not fit.
LEMMA FixUpFacts ==
  ASSUME buffer \in [Offsets -> 0 .. Base - 1], w_off \in Offsets,
         NEW E, Chain(buffer, w_off, E), NEW off \in E,
         NEW M \in 3 .. MaxEntry
  PROVE  /\ FixUp(off, M) \in Spared(w_off, E, M)
         /\ PendingOf(buffer, w_off, FixUp(off, M))
              \in Fifo!MakeRoom(PendingOf(buffer, w_off, off), M)
<1> DEFINE d == Dist(w_off, off)
           q == PendingOf(buffer, w_off, off)
<1>1. /\ off \in Offsets /\ d \in 0 .. Size - 1 /\ M \in 1 .. Size - 1 /\ M \in 1 .. MaxEntry
      /\ (off = w_off => d = 0)
  BY DistFacts, Sizes DEF Chain
<1>2. q \in Queues /\ Fifo!Bytes(q) = d
  BY PendingFacts
<1>3. clock_interval(w_off, logger_offset(w_off + M), off) <=> off # w_off /\ d + M >= Size
  BY <1>1, ClockInterval
<1> HIDE DEF q, d
<1>4. CASE ~ clock_interval(w_off, logger_offset(w_off + M), off)
  <2>1. FixUp(off, M) = off
    BY <1>4 DEF FixUp
  <2>2. d + M < Size
    BY <1>1, <1>3, <1>4, Sizes
  <2>3. q \in Fifo!MakeRoom(q, M)
    BY <1>2, <2>2 DEF Fifo!MakeRoom
  <2> QED BY <2>1, <2>2, <2>3 DEF Spared, q, d
<1>5. CASE clock_interval(w_off, logger_offset(w_off + M), off)
  <2> DEFINE x == get_next_entry(off, M)
             G == {y \in E : PendingOf(buffer, w_off, y) \in Fifo!Suffixes(q)}
  <2>1. FixUp(off, M) = x
    BY <1>5 DEF FixUp
  <2>2. d + M >= Size /\ M <= d
    BY <1>1, <1>3, <1>5, Sizes
  <2>3. Chain(buffer, w_off, G)
    BY <1>2, ChainOfSuffixes
  <2>4. off \in G
    <3>1. q # <<>>
      <4>1. d # 0
        BY <1>1, <2>2
      <4> QED BY <4>1, <1>2, BytesEmpty
    <3>2. SubSeq(q, 1, Len(q)) = q /\ 1 \in 1 .. Len(q)
      BY <1>2, <3>1, SubSeqFull DEF Queues
    <3>3. q \in Fifo!Suffixes(q)
      BY <3>2 DEF Fifo!Suffixes
    <3> QED BY <3>3 DEF q
  <2> HIDE DEF G
  <2>5. x \in G /\ Dist(w_off, x) <= d - M
    BY <1>1, <2>2, <2>3, <2>4, NextEntry DEF d
  <2>6. x \in E /\ PendingOf(buffer, w_off, x) \in Fifo!Suffixes(q)
    BY <2>5 DEF G
  <2>7. x \in Offsets /\ Dist(w_off, x) \in Nat
    BY <2>6, DistFacts DEF Chain
  <2>8. Dist(w_off, x) + M < Size
    BY <1>1, <2>5, <2>7, Sizes
  <2>9. Fifo!Bytes(PendingOf(buffer, w_off, x)) = Dist(w_off, x)
    BY <2>6, PendingFacts
  <2> HIDE DEF x
  <2>10. ~ (Fifo!Bytes(q) + M < Size)
    BY <1>1, <1>2, <2>2, Sizes
  <2>11. PendingOf(buffer, w_off, x) \in Fifo!MakeRoom(q, M)
    BY <2>6, <2>8, <2>9, <2>10 DEF Fifo!MakeRoom
  <2> QED BY <2>1, <2>6, <2>8, <2>11 DEF Spared, q
<1> QED BY <1>4, <1>5

-----------------------------------------------------------------------------
(***************************************************************************)
(* The invariant.                                                          *)
(***************************************************************************)

\* head and the readers are on a chain of entries that ends at w_off.
OnChain(E) ==
  /\ Chain(buffer, w_off, E)
  /\ head \in E
  /\ \A r \in opened : r_off[r] \in E

\* Only a reader within logger_read is on the wait queue, and only one that has
\* the device open is within it.
QueueOfReaders ==
  /\ \A r \in asleep : rd[r] \in {"check", "schedule"}
  /\ \A r \in Readers : r \notin opened => rd[r] = "idle"

LogInv ==
  /\ LogTypeOK
  /\ QueueOfReaders
  /\ \E E : OnChain(E)

\* At first the chain is its end.
LEMMA LogInitInv == LogInit => LogInv
<1> SUFFICES ASSUME LogInit PROVE LogInv
  OBVIOUS
<1>1. 0 \in Offsets /\ 0 \in 0 .. Base - 1
  BY Sizes DEF Offsets
<1>2. LogTypeOK /\ QueueOfReaders
  BY <1>1 DEF LogInit, LogTypeOK, QueueOfReaders
<1>3. OnChain({0})
  BY <1>1 DEF LogInit, OnChain, Chain
<1> QED BY <1>2, <1>3 DEF LogInv

\* A write that is complete.
LEMMA WriteChain ==
  ASSUME LogTypeOK, NEW E, OnChain(E), NEW w \in Writers,
         NEW len \in 1 .. MaxPayload, NEW byte \in PayloadBytes, write_entry(w, len, byte)
  PROVE  /\ buffer' \in [Offsets -> 0 .. Base - 1] /\ w_off' \in Offsets
         /\ head' \in Offsets /\ r_off' \in [Readers -> Offsets]
         /\ \E F : OnChain(F)'
<1> DEFINE M == HeaderLen + len
           F == Spared(w_off, E, M)
<1>1. buffer \in [Offsets -> 0 .. Base - 1] /\ w_off \in Offsets /\ Chain(buffer, w_off, E)
  BY DEF LogTypeOK, OnChain
<1>2. len \in 0 .. len
  BY Sizes
<1>3. /\ buffer' \in [Offsets -> 0 .. Base - 1] /\ M \in 3 .. Size - 1 /\ M \in 3 .. MaxEntry
      /\ Overwrites(buffer, buffer', w_off, M) /\ LenAt(buffer', w_off) = M
  BY <1>1, <1>2, WrittenFacts, Sizes DEF write_entry
<1>4. w_off' = Plus(w_off, M) /\ w_off' \in Offsets
  <2>1. M \in 0 .. Size /\ w_off + M = w_off + HeaderLen + len
    BY <1>1, <1>3, Sizes DEF Offsets
  <2> QED BY <1>1, <2>1, OffsetIsPlus DEF write_entry
<1>5. Chain(buffer', w_off', F \cup {w_off'})
  BY <1>1, <1>3, <1>4, WriteAdds
<1>6. F \subseteq Offsets
  BY <1>1 DEF Spared, Chain
<1>7. head' \in F
  BY <1>1, <1>3, FixUpFacts DEF write_entry, fix_up_readers, OnChain
<1>8. /\ opened' = opened /\ opened \subseteq Readers
      /\ r_off' = [r \in Readers |-> IF r \in opened THEN FixUp(r_off[r], M) ELSE r_off[r]]
  BY DEF write_entry, fix_up_readers, LogTypeOK
<1>9. \A r \in opened : r_off'[r] \in F
  <2> SUFFICES ASSUME NEW r \in opened PROVE r_off'[r] \in F
    OBVIOUS
  <2>1. FixUp(r_off[r], M) \in F
    BY <1>1, <1>3, FixUpFacts DEF OnChain
  <2> QED BY <1>8, <2>1
<1>10. r_off' \in [Readers -> Offsets]
  <2>1. \A r \in Readers : r_off'[r] \in Offsets
    BY <1>6, <1>8, <1>9 DEF LogTypeOK
  <2> QED BY <1>8, <2>1
<1>11. PICK F2 : F2 = F \cup {w_off'}
  OBVIOUS
<1>12. OnChain(F2)'
  <2> HIDE DEF F
  <2> QED BY <1>5, <1>7, <1>8, <1>9, <1>11 DEF OnChain
<1> QED BY <1>3, <1>4, <1>6, <1>7, <1>10, <1>12

\* A write that fails where it began.
LEMMA FaultChain ==
  ASSUME LogTypeOK, NEW E, OnChain(E), NEW w \in Writers,
         NEW len \in 1 .. MaxPayload, NEW byte \in PayloadBytes, NEW n \in 0 .. len - 1,
         write_fault(w, len, byte, n), ~ StaleFault
  PROVE  /\ buffer' \in [Offsets -> 0 .. Base - 1] /\ w_off' = w_off
         /\ head' \in Offsets /\ r_off' \in [Readers -> Offsets]
         /\ \E F : OnChain(F)'
<1> DEFINE M == HeaderLen + len
           F == Spared(w_off, E, M)
<1>1. buffer \in [Offsets -> 0 .. Base - 1] /\ w_off \in Offsets /\ Chain(buffer, w_off, E)
  BY DEF LogTypeOK, OnChain
<1>2. n \in 0 .. len
  BY Sizes
<1>3. /\ buffer' \in [Offsets -> 0 .. Base - 1] /\ M \in 1 .. Size - 1 /\ M \in 3 .. MaxEntry
      /\ Overwrites(buffer, buffer', w_off, M)
  BY <1>1, <1>2, WrittenFacts, Sizes DEF write_fault
<1>4. w_off' = w_off
  BY DEF write_fault
<1>5. Chain(buffer', w_off', F)
  BY <1>1, <1>3, <1>4, FailKeeps
<1>6. F \subseteq Offsets
  BY <1>1 DEF Spared, Chain
<1>7. head' \in F
  BY <1>1, <1>3, FixUpFacts DEF write_fault, fix_up_readers, OnChain
<1>8. /\ opened' = opened /\ opened \subseteq Readers
      /\ r_off' = [r \in Readers |-> IF r \in opened THEN FixUp(r_off[r], M) ELSE r_off[r]]
  BY DEF write_fault, fix_up_readers, LogTypeOK
<1>9. \A r \in opened : r_off'[r] \in F
  <2> SUFFICES ASSUME NEW r \in opened PROVE r_off'[r] \in F
    OBVIOUS
  <2>1. FixUp(r_off[r], M) \in F
    BY <1>1, <1>3, FixUpFacts DEF OnChain
  <2> QED BY <1>8, <2>1
<1>10. r_off' \in [Readers -> Offsets]
  <2>1. \A r \in Readers : r_off'[r] \in Offsets
    BY <1>6, <1>8, <1>9 DEF LogTypeOK
  <2> QED BY <1>8, <2>1
<1>11. PICK F2 : F2 = F
  OBVIOUS
<1>12. OnChain(F2)'
  <2> HIDE DEF F
  <2> QED BY <1>5, <1>7, <1>8, <1>9, <1>11 DEF OnChain
<1> QED BY <1>3, <1>4, <1>6, <1>7, <1>10, <1>12
\* Reading an entry takes the reader to the next one of its chain.
LEMMA ReadChain ==
  ASSUME LogTypeOK, QueueOfReaders, NEW E, OnChain(E), NEW r \in Readers, read_entry(r)
  PROVE  r_off' \in [Readers -> Offsets] /\ OnChain(E)'
<1>1. /\ buffer \in [Offsets -> 0 .. Base - 1] /\ w_off \in Offsets /\ Chain(buffer, w_off, E)
      /\ r_off \in [Readers -> Offsets] /\ opened \subseteq Readers
  BY DEF LogTypeOK, OnChain
<1>2. r \in opened /\ r_off[r] \in E
  BY DEF QueueOfReaders, read_entry, OnChain
<1>3. buffer' = buffer /\ w_off' = w_off /\ head' = head /\ opened' = opened
  BY DEF read_entry
<1>4. CASE UNCHANGED r_off
  BY <1>1, <1>3, <1>4 DEF OnChain
<1>5. CASE w_off # r_off[r] /\ r_off' = [r_off EXCEPT ![r] = logger_offset(@ + get_entry_len(@))]
  <2> DEFINE o == r_off[r]
             y == Plus(o, LenAt(buffer, o))
  <2>1. /\ o \in Offsets /\ Dist(w_off, o) \in 1 .. Size - 1
        /\ LenAt(buffer, o) \in 3 .. Dist(w_off, o) /\ y \in E /\ y \in Offsets
    BY <1>1, <1>2, <1>5, ChainStep
  <2>2. LenAt(buffer, o) \in 0 .. Size
    BY <2>1, Sizes
  <2>3. logger_offset(o + get_entry_len(o)) = y
    BY <2>1, <2>2, GetEntryLen, OffsetIsPlus
  <2>4. r_off' = [r_off EXCEPT ![r] = y]
    BY <1>1, <1>5, <2>3
  <2> HIDE DEF y
  <2> QED BY <1>1, <1>3, <2>1, <2>4 DEF OnChain
<1> QED BY <1>4, <1>5 DEF read_entry

\* Steps that leave buffer, w_off, head and the readers that are open alone.
LEMMA QuietChain ==
  ASSUME NEW E, OnChain(E), UNCHANGED <<buffer, w_off, head, opened, r_off>>
  PROVE  OnChain(E)'
BY DEF OnChain

\* Every step keeps the types and the wait queue.
LEMMA TypesNext ==
  ASSUME LogTypeOK, QueueOfReaders, LogNext \/ UNCHANGED logVars,
         /\ buffer' \in [Offsets -> 0 .. Base - 1] /\ w_off' \in Offsets
         /\ head' \in Offsets /\ r_off' \in [Readers -> Offsets]
  PROVE  LogTypeOK' /\ QueueOfReaders'
<1> USE DEF LogTypeOK, QueueOfReaders
<1>1. ASSUME NEW w \in Writers, WriterStep(w) PROVE LogTypeOK' /\ QueueOfReaders'
  <2> USE DEF WriterStep
  <2>1. CASE write_start(w)
    BY <2>1 DEF write_start
  <2>2. ASSUME NEW len \in 1 .. MaxPayload, NEW byte \in PayloadBytes, write_entry(w, len, byte)
        PROVE  LogTypeOK' /\ QueueOfReaders'
    <3>1. 0 \in Offsets
      BY Sizes DEF Offsets
    <3> QED BY <2>2, <3>1 DEF write_entry
  <2>3. ASSUME NEW len \in 1 .. MaxPayload, NEW byte \in PayloadBytes, NEW n \in 0 .. len - 1,
               write_fault(w, len, byte, n)
        PROVE  LogTypeOK' /\ QueueOfReaders'
    <3>1. 0 \in Offsets
      BY Sizes DEF Offsets
    <3> QED BY <2>3, <3>1 DEF write_fault
  <2>4. CASE write_wake_up(w)
    BY <2>4 DEF write_wake_up
  <2> QED BY <1>1, <2>1, <2>2, <2>3, <2>4
<1>2. ASSUME NEW r \in Readers, ReaderStep(r) PROVE LogTypeOK' /\ QueueOfReaders'
  <2> USE DEF ReaderStep
  <2>1. CASE read_prepare(r)
    BY <2>1 DEF read_prepare
  <2>2. CASE read_check(r)
    BY <2>2 DEF read_check
  <2>3. CASE read_schedule(r)
    BY <2>3 DEF read_schedule
  <2>4. CASE read_entry(r)
    <3>1. PICK v \in {"again", "idle"} : rd' = [rd EXCEPT ![r] = v]
      BY <2>4 DEF read_entry
    <3>2. rd[r] = "read" /\ UNCHANGED <<opened, asleep, wr, orig>>
      BY <2>4 DEF read_entry
    <3> QED BY <3>1, <3>2
  <2> QED BY <1>2, <2>1, <2>2, <2>3, <2>4
<1>3. ASSUME NEW r \in Readers, read_signal(r) PROVE LogTypeOK' /\ QueueOfReaders'
  BY <1>3 DEF read_signal
<1>4. ASSUME NEW r \in Readers, logger_open(r) PROVE LogTypeOK' /\ QueueOfReaders'
  BY <1>4 DEF logger_open
<1>5. ASSUME NEW r \in Readers, logger_release(r) PROVE LogTypeOK' /\ QueueOfReaders'
  BY <1>5 DEF logger_release
<1>6. CASE logger_ioctl_flush
  BY <1>6 DEF logger_ioctl_flush
<1>7. CASE UNCHANGED logVars
  BY <1>7 DEF logVars
<1> QED BY <1>1, <1>2, <1>3, <1>4, <1>5, <1>6, <1>7 DEF LogNext

\* Every step keeps the invariant.
LEMMA LogNextInv ==
  ASSUME LogInv, [LogNext]_logVars, ~ StaleFault
  PROVE  LogInv'
<1> DEFINE Kept == /\ buffer' \in [Offsets -> 0 .. Base - 1] /\ w_off' \in Offsets
                   /\ head' \in Offsets /\ r_off' \in [Readers -> Offsets]
                   /\ \E F : OnChain(F)'
<1>1. LogTypeOK /\ QueueOfReaders
  BY DEF LogInv
<1>2. PICK E : OnChain(E)
  BY DEF LogInv
<1>3. /\ buffer \in [Offsets -> 0 .. Base - 1] /\ w_off \in Offsets /\ head \in Offsets
      /\ r_off \in [Readers -> Offsets]
  BY <1>1 DEF LogTypeOK
<1>4. ASSUME UNCHANGED <<buffer, w_off, head, opened, r_off>> PROVE Kept
  BY <1>2, <1>3, <1>4, QuietChain
<1>5. ASSUME NEW w \in Writers, WriterStep(w) PROVE Kept
  <2>1. CASE write_start(w)
    BY <2>1, <1>4 DEF write_start
  <2>2. ASSUME NEW len \in 1 .. MaxPayload, NEW byte \in PayloadBytes, write_entry(w, len, byte)
        PROVE  Kept
    BY <1>1, <1>2, <2>2, WriteChain
  <2>3. ASSUME NEW len \in 1 .. MaxPayload, NEW byte \in PayloadBytes, NEW n \in 0 .. len - 1,
               write_fault(w, len, byte, n)
        PROVE  Kept
    BY <1>1, <1>2, <1>3, <2>3, FaultChain
  <2>4. CASE write_wake_up(w)
    BY <2>4, <1>4 DEF write_wake_up
  <2> QED BY <1>5, <2>1, <2>2, <2>3, <2>4 DEF WriterStep
<1>6. ASSUME NEW r \in Readers, ReaderStep(r) PROVE Kept
  <2>1. CASE read_prepare(r)
    BY <2>1, <1>4 DEF read_prepare
  <2>2. CASE read_check(r)
    BY <2>2, <1>4 DEF read_check
  <2>3. CASE read_schedule(r)
    BY <2>3, <1>4 DEF read_schedule
  <2>4. CASE read_entry(r)
    <3>1. r_off' \in [Readers -> Offsets] /\ OnChain(E)'
      BY <1>1, <1>2, <2>4, ReadChain
    <3>2. UNCHANGED <<buffer, w_off, head>>
      BY <2>4 DEF read_entry
    <3> QED BY <1>3, <3>1, <3>2
  <2> QED BY <1>6, <2>1, <2>2, <2>3, <2>4 DEF ReaderStep
<1>7. ASSUME NEW r \in Readers, read_signal(r) PROVE Kept
  BY <1>7, <1>4 DEF read_signal
<1>8. ASSUME NEW r \in Readers, logger_open(r) PROVE Kept
  <2>1. OnChain(E)'
    BY <1>2, <1>3, <1>8 DEF logger_open, OnChain
  <2> QED BY <1>3, <1>8, <2>1 DEF logger_open
<1>9. ASSUME NEW r \in Readers, logger_release(r) PROVE Kept
  <2>1. OnChain(E)'
    BY <1>2, <1>3, <1>9 DEF logger_release, OnChain
  <2>2. 0 \in Offsets
    BY Sizes DEF Offsets
  <2> QED BY <1>3, <1>9, <2>1, <2>2 DEF logger_release
<1>10. ASSUME logger_ioctl_flush PROVE Kept
  <2>1. OnChain(E)'
    BY <1>1, <1>2, <1>3, <1>10 DEF logger_ioctl_flush, OnChain, Chain, LogTypeOK
  <2>2. r_off' \in [Readers -> Offsets] /\ UNCHANGED <<buffer, w_off>> /\ head' = w_off
    BY <1>3, <1>10 DEF logger_ioctl_flush
  <2> QED BY <1>3, <2>1, <2>2
<1> HIDE DEF Kept
<1>11. ASSUME UNCHANGED logVars PROVE Kept
  <2>1. UNCHANGED <<buffer, w_off, head, opened, r_off>>
    BY <1>11 DEF logVars
  <2> QED BY <2>1, <1>4
<1>12. Kept
  BY <1>5, <1>6, <1>7, <1>8, <1>9, <1>10, <1>11 DEF LogNext
<1>13. LogTypeOK' /\ QueueOfReaders'
  <2>1. LogNext \/ UNCHANGED logVars
    OBVIOUS
  <2> QED BY <1>1, <1>12, <2>1, TypesNext DEF Kept
<1> QED BY <1>12, <1>13 DEF LogInv, Kept

\* What Pending finds, in this state and in the next.
LEMMA PendingIs ==
  ASSUME NEW off
  PROVE  Pending(off) = PendingOf(buffer, w_off, off)
BY DEF Pending, PendingOf, Used

\* The invariant says that every offset is at an entry.
LEMMA InvAtEntries == LogInv => AtEntries
<1> SUFFICES ASSUME LogInv, NEW off \in {head} \cup {r_off[r] : r \in opened}
             PROVE  \A i \in DOMAIN Pending(off) : Pending(off)[i] # <<>>
  BY DEF AtEntries
<1>1. PICK E : OnChain(E)
  BY DEF LogInv
<1>2. buffer \in [Offsets -> 0 .. Base - 1] /\ w_off \in Offsets /\ Chain(buffer, w_off, E)
  BY <1>1 DEF LogInv, LogTypeOK, OnChain
<1>3. off \in E
  BY <1>1 DEF OnChain
<1> QED BY <1>2, <1>3, PendingFacts, PendingIs

\* And that the lengths reported are those of the entries.
LEMMA InvLengths == LogInv => LengthsReported
<1> SUFFICES ASSUME LogInv, NEW r \in opened
             PROVE  LET q == Pending(r_off[r])
                    IN  /\ LOGGER_GET_LOG_LEN(r) = Fifo!Bytes(q)
                        /\ LOGGER_GET_NEXT_ENTRY_LEN(r)
                             = IF q = <<>> THEN 0 ELSE PayloadEntryLen(q[1])
  BY DEF LengthsReported
<1> DEFINE o == r_off[r]
           q == PendingOf(buffer, w_off, o)
<1>1. PICK E : OnChain(E)
  BY DEF LogInv
<1>2. buffer \in [Offsets -> 0 .. Base - 1] /\ w_off \in Offsets /\ Chain(buffer, w_off, E)
  BY <1>1 DEF LogInv, LogTypeOK, OnChain
<1>3. o \in E /\ o \in Offsets
  BY <1>1, <1>2 DEF OnChain, Chain
<1>4. Pending(o) = q
  BY PendingIs
<1>5. LOGGER_GET_LOG_LEN(r) = Dist(w_off, o)
  BY <1>2, <1>3, Sizes DEF LOGGER_GET_LOG_LEN, Dist, Offsets
<1>6. Fifo!Bytes(q) = Dist(w_off, o) /\ q \in Queues
  BY <1>2, <1>3, PendingFacts
<1>7. CASE o = w_off
  <2>1. q = <<>> /\ LOGGER_GET_NEXT_ENTRY_LEN(r) = 0
    BY <1>2, <1>7, PendingEnd DEF LOGGER_GET_NEXT_ENTRY_LEN
  <2> QED BY <1>4, <1>5, <1>6, <2>1
<1>8. CASE o # w_off
  <2> DEFINE y == Plus(o, LenAt(buffer, o))
             p == PendingOf(buffer, w_off, y)
  <2>1. q = <<Payload(buffer, o)>> \o p
    BY <1>2, <1>3, <1>8, PendingStep
  <2>2. Payload(buffer, o) \in Seq(Nat) /\ PayloadEntryLen(Payload(buffer, o)) = LenAt(buffer, o)
    BY <1>2, <1>3, <1>8, PayloadFacts
  <2>3. p \in Queues
    BY <1>2, <1>3, <1>8, ChainStep, PendingFacts
  <2> HIDE DEF p
  <2>4. q # <<>> /\ q[1] = Payload(buffer, o)
    BY <2>1, <2>2, <2>3 DEF Queues
  <2>5. LOGGER_GET_NEXT_ENTRY_LEN(r) = LenAt(buffer, o)
    BY <1>3, <1>8, GetEntryLen DEF LOGGER_GET_NEXT_ENTRY_LEN
  <2> HIDE DEF q
  <2> QED BY <1>4, <1>5, <1>6, <2>2, <2>4, <2>5
<1> QED BY <1>7, <1>8

\* Whatever the writers and readers do, every offset of the log stays at an
\* entry, also where writes wrap around, fail or lap the readers, and the ioctls
\* report the lengths of the entries that logger_read will return; as long as no
\* write fails that began before another writer's.
THEOREM LogAlwaysExact ==
  ASSUME ~ StaleFault
  PROVE  LogSafety => []LogExact
<1>1. LogInv => LogExact
  BY InvAtEntries, InvLengths DEF LogExact, LogInv
<1> QED BY <1>1, LogInitInv, LogNextInv, PTL DEF LogSafety
-----------------------------------------------------------------------------
(***************************************************************************)
(* The ring buffer implements LogFifo.                                     *)
(***************************************************************************)

\* The queues of LogFifo: what is pending at the readers' offsets.
LogQueue == [r \in Readers |-> IF r \in opened THEN Pending(r_off[r]) ELSE <<>>]

\* They are read from the buffer, in this state and in the next.
LEMMA QueuesAre ==
  /\ LogQueue = [r \in Readers |->
                   IF r \in opened THEN PendingOf(buffer, w_off, r_off[r]) ELSE <<>>]
  /\ LogQueue' = [r \in Readers |->
                   IF r \in opened' THEN PendingOf(buffer', w_off', r_off'[r]) ELSE <<>>]
  /\ Pending(head) = PendingOf(buffer, w_off, head)
  /\ Pending(head)' = PendingOf(buffer', w_off', head')
<1>1. Pending(head) = PendingOf(buffer, w_off, head)
  BY DEF Pending, PendingOf, Used
<1>2. Pending(head)' = PendingOf(buffer', w_off', head')
  BY DEF Pending, PendingOf, Used
<1>3. LogQueue = [r \in Readers |->
                    IF r \in opened THEN PendingOf(buffer, w_off, r_off[r]) ELSE <<>>]
  BY DEF LogQueue, Pending, PendingOf, Used
<1>4. LogQueue' = [r \in Readers |->
                     IF r \in opened' THEN PendingOf(buffer', w_off', r_off'[r]) ELSE <<>>]
  BY DEF LogQueue, Pending, PendingOf, Used
<1> QED BY <1>1, <1>2, <1>3, <1>4

\* An entry and its length.
LEMMA EntryLength ==
  ASSUME NEW len \in 1 .. MaxPayload, NEW byte \in PayloadBytes
  PROVE  /\ [i \in 1 .. len |-> byte] \in Entries
         /\ PayloadEntryLen([i \in 1 .. len |-> byte]) = HeaderLen + len
<1>1. len \in Nat
  BY Sizes
<1>2. Len([i \in 1 .. len |-> byte]) = len
  BY <1>1
<1> QED BY <1>2 DEF Entries, PayloadEntryLen

\* A write of logger.c is a write of LogFifo.
LEMMA WriteIsWrite ==
  ASSUME LogInv, NEW w \in Writers,
         NEW len \in 1 .. MaxPayload, NEW byte \in PayloadBytes, write_entry(w, len, byte)
  PROVE  Fifo!Next
<1> DEFINE M == HeaderLen + len
           e == [i \in 1 .. len |-> byte]
<1>1. PICK E : OnChain(E)
  BY DEF LogInv
<1>2. /\ buffer \in [Offsets -> 0 .. Base - 1] /\ w_off \in Offsets /\ Chain(buffer, w_off, E)
      /\ opened \subseteq Readers
  BY <1>1 DEF LogInv, LogTypeOK, OnChain
<1>3. len \in 0 .. len
  BY Sizes
<1>4. /\ buffer' \in [Offsets -> 0 .. Base - 1] /\ M \in 3 .. Size - 1 /\ M \in 3 .. MaxEntry
      /\ Overwrites(buffer, buffer', w_off, M) /\ LenAt(buffer', w_off) = M
      /\ Payload(buffer', w_off) = e
  BY <1>2, <1>3, WrittenFacts, Sizes DEF write_entry
<1>5. w_off' = Plus(w_off, M)
  <2>1. M \in 0 .. Size /\ w_off + M = w_off + HeaderLen + len
    BY <1>2, <1>4, Sizes DEF Offsets
  <2> QED BY <1>2, <2>1, OffsetIsPlus DEF write_entry
<1>6. e \in Entries /\ PayloadEntryLen(e) = M
  BY EntryLength
<1> HIDE DEF M, e
<1>7. ASSUME NEW off \in E
      PROVE  \E s \in Fifo!MakeRoom(PendingOf(buffer, w_off, off), PayloadEntryLen(e)) :
               PendingOf(buffer', w_off', FixUp(off, M)) = Append(s, e)
  <2>1. /\ FixUp(off, M) \in Spared(w_off, E, M)
        /\ PendingOf(buffer, w_off, FixUp(off, M)) \in Fifo!MakeRoom(PendingOf(buffer, w_off, off), M)
    BY <1>2, <1>4, FixUpFacts
  <2>2. PendingOf(buffer', w_off', FixUp(off, M))
          = Append(PendingOf(buffer, w_off, FixUp(off, M)), e)
    <3>1. Adds(buffer, buffer', w_off, Plus(w_off, M), Spared(w_off, E, M))
      BY <1>2, <1>4, WriteAdds
    <3> QED BY <1>4, <1>5, <2>1, <3>1 DEF Adds
  <2> QED BY <1>6, <2>1, <2>2
<1>8. /\ opened' = opened /\ head' = FixUp(head, M)
      /\ \A r \in opened : r_off'[r] = FixUp(r_off[r], M)
  BY <1>2 DEF write_entry, fix_up_readers, M
<1>9. \E s \in Fifo!MakeRoom(Pending(head), PayloadEntryLen(e)) : Pending(head)' = Append(s, e)
  <2>1. head \in E
    BY <1>1 DEF OnChain
  <2> QED BY <1>7, <1>8, <2>1, QueuesAre
<1>10. \A r \in opened :
         \E s \in Fifo!MakeRoom(LogQueue[r], PayloadEntryLen(e)) : LogQueue'[r] = Append(s, e)
  <2> SUFFICES ASSUME NEW r \in opened
               PROVE  \E s \in Fifo!MakeRoom(LogQueue[r], PayloadEntryLen(e)) :
                        LogQueue'[r] = Append(s, e)
    OBVIOUS
  <2>1. r_off[r] \in E /\ r \in Readers /\ r \in opened'
    BY <1>1, <1>2, <1>8 DEF OnChain
  <2>2. LogQueue[r] = PendingOf(buffer, w_off, r_off[r])
    BY <2>1, QueuesAre
  <2>3. LogQueue'[r] = PendingOf(buffer', w_off', FixUp(r_off[r], M))
    BY <1>8, <2>1, QueuesAre
  <2> QED BY <1>7, <2>1, <2>2, <2>3
<1>11. \A r \in Readers \ opened : LogQueue'[r] = <<>>
  BY <1>8, QueuesAre
<1>12. Fifo!Write(e)
  BY <1>8, <1>9, <1>10, <1>11 DEF Fifo!Write, LogQueue
<1> QED BY <1>6, <1>12 DEF Fifo!Next

\* A write that fails is one that has made room.
LEMMA FaultIsFailedWrite ==
  ASSUME LogInv, NEW w \in Writers, ~ StaleFault,
         NEW len \in 1 .. MaxPayload, NEW byte \in PayloadBytes, NEW n \in 0 .. len - 1,
         write_fault(w, len, byte, n)
  PROVE  Fifo!Next
<1> DEFINE M == HeaderLen + len
           e == [i \in 1 .. len |-> byte]
<1>1. PICK E : OnChain(E)
  BY DEF LogInv
<1>2. /\ buffer \in [Offsets -> 0 .. Base - 1] /\ w_off \in Offsets /\ Chain(buffer, w_off, E)
      /\ opened \subseteq Readers
  BY <1>1 DEF LogInv, LogTypeOK, OnChain
<1>3. n \in 0 .. len
  BY Sizes
<1>4. /\ buffer' \in [Offsets -> 0 .. Base - 1] /\ M \in 1 .. Size - 1 /\ M \in 3 .. MaxEntry
      /\ Overwrites(buffer, buffer', w_off, M)
  BY <1>2, <1>3, WrittenFacts, Sizes DEF write_fault
<1>5. w_off' = w_off
  BY DEF write_fault
<1>6. e \in Entries /\ PayloadEntryLen(e) = M
  BY EntryLength
<1> HIDE DEF M, e
<1>7. ASSUME NEW off \in E
      PROVE  PendingOf(buffer', w_off', FixUp(off, M))
               \in Fifo!MakeRoom(PendingOf(buffer, w_off, off), PayloadEntryLen(e))
  <2>1. /\ FixUp(off, M) \in Spared(w_off, E, M)
        /\ PendingOf(buffer, w_off, FixUp(off, M)) \in Fifo!MakeRoom(PendingOf(buffer, w_off, off), M)
    BY <1>2, <1>4, FixUpFacts
  <2>2. PendingOf(buffer', w_off', FixUp(off, M)) = PendingOf(buffer, w_off, FixUp(off, M))
    BY <1>2, <1>4, <1>5, <2>1, FailKeeps
  <2> QED BY <1>6, <2>1, <2>2
<1>8. /\ opened' = opened /\ head' = FixUp(head, M)
      /\ \A r \in opened : r_off'[r] = FixUp(r_off[r], M)
  BY <1>2 DEF write_fault, fix_up_readers, M
<1>9. Pending(head)' \in Fifo!MakeRoom(Pending(head), PayloadEntryLen(e))
  <2>1. head \in E
    BY <1>1 DEF OnChain
  <2> QED BY <1>7, <1>8, <2>1, QueuesAre
<1>10. \A r \in opened : LogQueue'[r] \in Fifo!MakeRoom(LogQueue[r], PayloadEntryLen(e))
  <2> SUFFICES ASSUME NEW r \in opened
               PROVE  LogQueue'[r] \in Fifo!MakeRoom(LogQueue[r], PayloadEntryLen(e))
    OBVIOUS
  <2>1. r_off[r] \in E /\ r \in Readers /\ r \in opened'
    BY <1>1, <1>2, <1>8 DEF OnChain
  <2>2. LogQueue[r] = PendingOf(buffer, w_off, r_off[r])
    BY <2>1, QueuesAre
  <2>3. LogQueue'[r] = PendingOf(buffer', w_off', FixUp(r_off[r], M))
    BY <1>8, <2>1, QueuesAre
  <2> QED BY <1>7, <2>1, <2>2, <2>3
<1>11. \A r \in Readers \ opened : LogQueue'[r] = <<>>
  BY <1>8, QueuesAre
<1>12. Fifo!FailedWrite(e)
  BY <1>8, <1>9, <1>10, <1>11 DEF Fifo!FailedWrite, LogQueue
<1> QED BY <1>6, <1>12 DEF Fifo!Next
\* logger_read takes the first entry, or leaves all as it is.
LEMMA ReadIsRead ==
  ASSUME LogInv, NEW r \in Readers, read_entry(r)
  PROVE  Fifo!Next \/ UNCHANGED Fifo!fifoVars
<1>1. PICK E : OnChain(E)
  BY DEF LogInv
<1> DEFINE o == r_off[r]
           L == LenAt(buffer, o)
           y == Plus(o, L)
           p == PendingOf(buffer, w_off, y)
<1>2. /\ buffer \in [Offsets -> 0 .. Base - 1] /\ w_off \in Offsets /\ Chain(buffer, w_off, E)
      /\ opened \subseteq Readers /\ r_off \in [Readers -> Offsets] /\ r \in opened
  BY <1>1 DEF LogInv, LogTypeOK, OnChain, QueueOfReaders, read_entry
<1>3. buffer' = buffer /\ w_off' = w_off /\ head' = head /\ opened' = opened
  BY DEF read_entry
<1>4. Pending(head)' = Pending(head)
  BY <1>3, QueuesAre
<1>5. CASE UNCHANGED r_off
  <2>1. LogQueue' = LogQueue
    BY <1>3, <1>5, QueuesAre
  <2> QED BY <1>3, <1>4, <2>1 DEF Fifo!fifoVars, LogQueue
<1>6. CASE w_off # o /\ r_off' = [r_off EXCEPT ![r] = logger_offset(@ + get_entry_len(@))]
  <2>1. o \in E /\ o \in Offsets
    BY <1>1, <1>2 DEF OnChain
  <2>2. L \in 3 .. Dist(w_off, o) /\ Dist(w_off, o) \in 1 .. Size - 1 /\ y \in E
    BY <1>2, <1>6, <2>1, ChainStep
  <2>3. L \in 0 .. Size /\ get_entry_len(o) = L
    BY <2>1, <2>2, GetEntryLen, Sizes
  <2>4. r_off' = [r_off EXCEPT ![r] = y]
    BY <1>6, <2>1, <2>3, OffsetIsPlus
  <2>5. PendingOf(buffer, w_off, o) = <<Payload(buffer, o)>> \o p
    BY <1>2, <1>6, <2>1, PendingStep
  <2>6. p \in Queues /\ Payload(buffer, o) \in Seq(Nat)
    BY <1>2, <1>6, <2>1, <2>2, PendingFacts, PayloadFacts
  <2>7. LogQueue'[r] = p
    BY <1>2, <1>3, <2>4, QueuesAre
  <2>8. LogQueue[r] = <<Payload(buffer, o)>> \o p
    BY <1>2, <2>5, QueuesAre
  <2> HIDE DEF p
  <2>9. LogQueue[r] # <<>> /\ Tail(LogQueue[r]) = p
    <3> DEFINE x == Payload(buffer, o)
    <3> HIDE DEF x
    <3>1. <<x>> \o p # <<>> /\ Tail(<<x>> \o p) = p
      BY <2>6 DEF Queues, x
    <3> QED BY <2>8, <3>1 DEF x
  <2>10. ASSUME NEW t \in Readers, t # r PROVE LogQueue'[t] = LogQueue[t]
    BY <1>2, <1>3, <2>4, <2>10, QueuesAre
  <2>11. LogQueue' = [LogQueue EXCEPT ![r] = Tail(@)]
    <3>1. /\ LogQueue = [t \in Readers |-> LogQueue[t]]
          /\ LogQueue' = [t \in Readers |-> LogQueue'[t]]
      BY QueuesAre
    <3> QED BY <2>7, <2>9, <2>10, <3>1
  <2>12. Fifo!Read(r)
    BY <1>2, <1>3, <1>4, <2>9, <2>11 DEF Fifo!Read, LogQueue
  <2> QED BY <2>12 DEF Fifo!Next
<1> QED BY <1>5, <1>6 DEF read_entry

\* A reader begins where the head is.
LEMMA OpenIsOpen ==
  ASSUME LogInv, NEW r \in Readers, logger_open(r)
  PROVE  Fifo!Next
<1>1. opened \subseteq Readers /\ r_off \in [Readers -> Offsets]
  BY DEF LogInv, LogTypeOK
<1>2. /\ buffer' = buffer /\ w_off' = w_off /\ head' = head /\ opened' = opened \cup {r}
      /\ r \notin opened /\ r_off' = [r_off EXCEPT ![r] = head]
  BY DEF logger_open
<1>3. Pending(head)' = Pending(head)
  BY <1>2, QueuesAre
<1>4. LogQueue' = [LogQueue EXCEPT ![r] = Pending(head)]
  BY <1>1, <1>2, QueuesAre
<1>5. Fifo!Open(r)
  BY <1>2, <1>3, <1>4 DEF Fifo!Open, LogQueue
<1> QED BY <1>5 DEF Fifo!Next

\* The queue of a reader that closes the device goes with it.
LEMMA ReleaseIsClose ==
  ASSUME LogInv, NEW r \in Readers, logger_release(r)
  PROVE  Fifo!Next
<1>1. opened \subseteq Readers /\ r_off \in [Readers -> Offsets]
  BY DEF LogInv, LogTypeOK
<1>2. /\ buffer' = buffer /\ w_off' = w_off /\ head' = head /\ opened' = opened \ {r}
      /\ r \in opened /\ r_off' = [r_off EXCEPT ![r] = 0]
  BY DEF logger_release
<1>3. Pending(head)' = Pending(head)
  BY <1>2, QueuesAre
<1>4. LogQueue' = [LogQueue EXCEPT ![r] = <<>>]
  BY <1>1, <1>2, QueuesAre
<1>5. Fifo!Close(r)
  BY <1>2, <1>3, <1>4 DEF Fifo!Close, LogQueue
<1> QED BY <1>5 DEF Fifo!Next

\* A flush leaves every reader and the head at w_off, where nothing is pending.
LEMMA FlushIsFlush ==
  ASSUME LogInv, logger_ioctl_flush
  PROVE  Fifo!Next
<1>1. /\ buffer \in [Offsets -> 0 .. Base - 1] /\ w_off \in Offsets
      /\ opened \subseteq Readers
  BY DEF LogInv, LogTypeOK
<1>2. /\ buffer' = buffer /\ w_off' = w_off /\ head' = w_off /\ opened' = opened
      /\ \A r \in opened : r_off'[r] = w_off
  BY <1>1 DEF logger_ioctl_flush
<1>3. PendingOf(buffer, w_off, w_off) = <<>>
  BY <1>1, PendingEnd
<1>4. Pending(head)' = <<>>
  BY <1>2, <1>3, QueuesAre
<1>5. LogQueue' = [r \in Readers |-> <<>>]
  BY <1>2, <1>3, QueuesAre
<1>6. Fifo!Flush
  BY <1>2, <1>4, <1>5 DEF Fifo!Flush, LogQueue
<1> QED BY <1>6 DEF Fifo!Next

\* What touches neither the buffer nor its offsets is no step of LogFifo.
LEMMA QuietIsQuiet ==
  ASSUME UNCHANGED <<buffer, w_off, head, opened, r_off>>
  PROVE  UNCHANGED Fifo!fifoVars
<1>1. LogQueue' = LogQueue /\ Pending(head)' = Pending(head)
  BY QueuesAre
<1> QED BY <1>1 DEF Fifo!fifoVars, LogQueue

\* Every step of the log device is one of LogFifo, or none.
LEMMA LogStepsAreFifoSteps ==
  ASSUME LogInv, [LogNext]_logVars, ~ StaleFault
  PROVE  [Fifo!Next]_Fifo!fifoVars
<1> DEFINE Step == Fifo!Next \/ UNCHANGED Fifo!fifoVars
<1> SUFFICES Step
  OBVIOUS
<1>1. ASSUME NEW w \in Writers, WriterStep(w) PROVE Step
  <2>1. CASE write_start(w)
    BY <2>1, QuietIsQuiet DEF write_start
  <2>2. ASSUME NEW len \in 1 .. MaxPayload, NEW byte \in PayloadBytes, write_entry(w, len, byte)
        PROVE  Step
    BY <2>2, WriteIsWrite
  <2>3. ASSUME NEW len \in 1 .. MaxPayload, NEW byte \in PayloadBytes, NEW n \in 0 .. len - 1,
               write_fault(w, len, byte, n)
        PROVE  Step
    BY <2>3, FaultIsFailedWrite
  <2>4. CASE write_wake_up(w)
    BY <2>4, QuietIsQuiet DEF write_wake_up
  <2> HIDE DEF Step
  <2> QED BY <1>1, <2>1, <2>2, <2>3, <2>4 DEF WriterStep
<1>2. ASSUME NEW r \in Readers, ReaderStep(r) \/ read_signal(r) PROVE Step
  <2>1. CASE read_prepare(r)
    BY <2>1, QuietIsQuiet DEF read_prepare
  <2>2. CASE read_check(r)
    BY <2>2, QuietIsQuiet DEF read_check
  <2>3. CASE read_schedule(r)
    BY <2>3, QuietIsQuiet DEF read_schedule
  <2>4. CASE read_entry(r)
    BY <2>4, ReadIsRead
  <2>5. CASE read_signal(r)
    BY <2>5, QuietIsQuiet DEF read_signal
  <2> HIDE DEF Step
  <2> QED BY <1>2, <2>1, <2>2, <2>3, <2>4, <2>5 DEF ReaderStep
<1>3. ASSUME NEW r \in Readers, logger_open(r) \/ logger_release(r) PROVE Step
  BY <1>3, OpenIsOpen, ReleaseIsClose
<1>4. CASE logger_ioctl_flush
  BY <1>4, FlushIsFlush
<1>5. CASE UNCHANGED logVars
  BY <1>5, QuietIsQuiet DEF logVars
<1> HIDE DEF Step
<1> QED BY <1>1, <1>2, <1>3, <1>4, <1>5 DEF LogNext

\* The ring buffer of logger.c implements the promise of LogFifo: each reader
\* reads whole entries, unchanged and in order, and loses some only when the log
\* is full, however the writers lap it, wrap around and fail; as long as no write
\* fails that began before another writer's.
THEOREM LogImplementsFifo ==
  ASSUME ~ StaleFault
  PROVE  LogSafety => FifoSpec
<1>1. ASSUME LogInit PROVE Fifo!Init
  <2>1. /\ opened = {} /\ head = 0 /\ w_off = 0
        /\ buffer \in [Offsets -> 0 .. Base - 1] /\ w_off \in Offsets
    BY <1>1, LogInitInv DEF LogInit, LogInv, LogTypeOK
  <2>2. Pending(head) = <<>>
    BY <2>1, PendingEnd, QueuesAre
  <2>3. LogQueue = [r \in Readers |-> <<>>]
    BY <2>1, QueuesAre
  <2> QED BY <2>1, <2>2, <2>3 DEF Fifo!Init, LogQueue
<1> QED BY <1>1, LogInitInv, LogNextInv, LogStepsAreFifoSteps, PTL DEF LogSafety, FifoSpec, Fifo!Spec
=============================================================================
