-------------------------- MODULE TelemetryProofs ---------------------------
(***************************************************************************)
(* Theorems about Telemetry for any calls, tools, observations and window. *)
(* TelemetryInv is the inductive invariant: the mutex is held through an   *)
(* export, so no other call changes the metrics while a snapshot of them   *)
(* is written.  SumOf is recursive: what it is is shown from the least     *)
(* index at which it would not be.                                         *)
(***************************************************************************)
EXTENDS Telemetry, FiniteSetTheorems, TLAPS

\* A call that is exporting has the mutex, and exports only to a path that is set.
Exclusive ==
  \A c \in Calls : pc[c] \in {"create", "write"} => exporting /\ holder = c

-----------------------------------------------------------------------------
(* Sums.                                                                    *)

\* A set of numbers has a least one.
LEMMA Least ==
  ASSUME NEW T, T \subseteq Nat, T # {}
  PROVE  \E m \in T : \A k \in T : m <= k
<1>1. PICK m \in T : \A k \in T : <<k, m>> \notin OpToRel(<, Nat)
  BY WFMin, NatLessThanWellFounded
<1>2. ASSUME NEW k \in T
      PROVE  m <= k
  <2>1. ~ (k < m)
    BY <1>1 DEF OpToRel
  <2>2. k \in Nat /\ m \in Nat
    OBVIOUS
  <2>. QED  BY <2>1, <2>2
<1>. QED  BY <1>2

\* f has the sums of the first numbers of v, up to n of them.
SumsUpTo(v, n, f) ==
  /\ f[0] = 0
  /\ \A i \in 1 .. n : f[i] = f[i - 1] + v[i]

\* The sums are determined by the numbers,
LEMMA SumsAgree ==
  ASSUME NEW v, NEW n \in Nat, NEW f, NEW g, SumsUpTo(v, n, f), SumsUpTo(v, n, g)
  PROVE  f[n] = g[n]
<1>. DEFINE T == {i \in 0 .. n : f[i] # g[i]}
<1>. SUFFICES ASSUME T # {}
              PROVE  FALSE
  OBVIOUS
<1>1. PICK m \in T : \A k \in T : m <= k
  <2>1. T \subseteq Nat
    OBVIOUS
  <2>. HIDE DEF T
  <2>. QED  BY <2>1, Least
<1>2. m \in 1 .. n
  BY DEF SumsUpTo
<1>3. m - 1 \in 0 .. n /\ m - 1 \notin T
  BY <1>1, <1>2
<1>4. f[m - 1] = g[m - 1]
  BY <1>3
<1>5. f[m] = f[m - 1] + v[m] /\ g[m] = g[m - 1] + v[m]
  BY <1>2 DEF SumsUpTo
<1>6. f[m] = g[m]
  BY <1>4, <1>5
<1>. QED  BY <1>6

\* and they exist.
LEMMA SumsExist ==
  ASSUME NEW v \in Seq(Nat)
  PROVE  \E f \in [0 .. Len(v) -> Nat] : SumsUpTo(v, Len(v), f)
<1>. DEFINE Has(n) == \E f \in [0 .. n -> Nat] : SumsUpTo(v, n, f)
            T == {n \in 0 .. Len(v) : ~Has(n)}
<1>. SUFFICES ASSUME T # {}
              PROVE  FALSE
  OBVIOUS
<1>1. PICK m \in T : \A k \in T : m <= k
  <2>1. T \subseteq Nat
    OBVIOUS
  <2>. HIDE DEF T
  <2>. QED  BY <2>1, Least
<1>2. Has(0)
  <2>1. [i \in 0 .. 0 |-> 0] \in [0 .. 0 -> Nat]
    OBVIOUS
  <2>2. SumsUpTo(v, 0, [i \in 0 .. 0 |-> 0])
    BY DEF SumsUpTo
  <2>. QED  BY <2>1, <2>2
<1>3. m \in 1 .. Len(v)
  <2>1. m # 0
    BY <1>2
  <2>. QED  BY <2>1
<1>4. Has(m - 1)
  <2>1. m - 1 \in 0 .. Len(v) /\ ~ (m <= m - 1)
    BY <1>3
  <2>. QED  BY <1>1, <2>1
<1>5. PICK f \in [0 .. m - 1 -> Nat] : SumsUpTo(v, m - 1, f)
  BY <1>4
<1>. DEFINE g == [i \in 0 .. m |-> IF i = m THEN f[m - 1] + v[m] ELSE f[i]]
<1>6. g \in [0 .. m -> Nat]
  <2>1. v[m] \in Nat /\ f[m - 1] \in Nat
    BY <1>3
  <2>2. \A i \in 0 .. m : i # m => i \in 0 .. m - 1
    BY <1>3
  <2>. QED  BY <2>1, <2>2
<1>7. SumsUpTo(v, m, g)
  <2>1. g[0] = 0
    BY <1>3, <1>5 DEF SumsUpTo
  <2>2. ASSUME NEW i \in 1 .. m
        PROVE  g[i] = g[i - 1] + v[i]
    <3>1. CASE i = m
      BY <1>3, <3>1
    <3>2. CASE i # m
      <4>1. i \in 1 .. m - 1 /\ i - 1 \in 0 .. m /\ i - 1 # m /\ i \in 0 .. m
        BY <1>3, <3>2
      <4>. QED  BY <1>5, <3>2, <4>1 DEF SumsUpTo
    <3>. QED  BY <3>1, <3>2
  <2>. QED  BY <2>1, <2>2 DEF SumsUpTo
<1>. QED  BY <1>1, <1>6, <1>7

\* SumOf is the last of them.
LEMMA SumOfIs ==
  ASSUME NEW v \in Seq(Nat), NEW f, SumsUpTo(v, Len(v), f)
  PROVE  SumOf(v) = f[Len(v)]
<1>. DEFINE n == Len(v)
            Sums(g) == g = [i \in 0 .. n |-> IF i = 0 THEN 0 ELSE g[i - 1] + v[i]]
            sum == CHOOSE g : Sums(g)
<1>1. n \in Nat
  OBVIOUS
<1>2. SumOf(v) = sum[n]
  BY DEF SumOf
<1>3. \E g : Sums(g)
  <2>1. PICK g \in [0 .. n -> Nat] : SumsUpTo(v, n, g)
    BY SumsExist
  <2>2. Sums(g)
    BY <2>1 DEF SumsUpTo
  <2>. QED  BY <2>2
<1>4. Sums(sum)
  BY <1>3
<1>5. SumsUpTo(v, n, sum)
  <2>. HIDE DEF sum, n
  <2>. QED  BY <1>1, <1>4 DEF SumsUpTo
<1>. HIDE DEF sum, n
<1>. QED  BY <1>1, <1>2, <1>5, SumsAgree DEF n

\* The sum of one number more.
LEMMA SumOfAppend ==
  ASSUME NEW v \in Seq(Nat), NEW e \in Nat
  PROVE  SumOf(v) \in Nat /\ SumOf(Append(v, e)) = SumOf(v) + e
<1>. DEFINE n == Len(v)  w == Append(v, e)
<1>1. /\ w \in Seq(Nat) /\ Len(w) = n + 1 /\ n \in Nat /\ w[n + 1] = e
      /\ \A i \in 1 .. n : w[i] = v[i]
  OBVIOUS
<1>2. PICK f \in [0 .. Len(w) -> Nat] : SumsUpTo(w, Len(w), f)
  BY <1>1, SumsExist
<1>3. SumOf(w) = f[n + 1] /\ f[n + 1] = f[n] + e /\ f[n] \in Nat
  <2>1. SumOf(w) = f[Len(w)]
    <3>. HIDE DEF w
    <3>. QED  BY <1>1, <1>2, SumOfIs
  <2>. HIDE DEF w, n
  <2>2. n \in 0 .. Len(w) /\ n + 1 \in 1 .. Len(w) /\ n + 1 - 1 = n
    BY <1>1
  <2>3. f[n + 1] = f[n] + w[n + 1] /\ f[n] \in Nat
    BY <1>2, <2>2 DEF SumsUpTo
  <2>. QED  BY <1>1, <2>1, <2>3
<1>4. SumsUpTo(v, n, f)
  BY <1>1, <1>2 DEF SumsUpTo
<1>5. SumOf(v) = f[n]
  BY <1>4, SumOfIs
<1>. QED  BY <1>3, <1>5

LEMMA SumOfNone == SumOf(<<>>) = 0
<1>. DEFINE f == [i \in 0 .. 0 |-> 0]
<1>1. <<>> \in Seq(Nat) /\ Len(<<>>) = 0
  OBVIOUS
<1>2. SumsUpTo(<<>>, Len(<<>>), f)
  BY <1>1 DEF SumsUpTo
<1>. QED  BY <1>1, <1>2, SumOfIs

-----------------------------------------------------------------------------
(* Counts and the window.                                                   *)

\* The number of positions whose element is in a set, with one element more.
LEMMA CountAppend ==
  ASSUME NEW S, NEW s \in Seq(S), NEW e \in S, NEW T
  PROVE  LET before == {i \in DOMAIN s : s[i] \in T}
             after  == {i \in DOMAIN Append(s, e) : Append(s, e)[i] \in T}
         IN  /\ Cardinality(before) \in Nat
             /\ Cardinality(after) = Cardinality(before) + IF e \in T THEN 1 ELSE 0
<1>. DEFINE before == {i \in DOMAIN s : s[i] \in T}
            after  == {i \in DOMAIN Append(s, e) : Append(s, e)[i] \in T}
            n == Len(s)
<1>1. n \in Nat /\ DOMAIN s = 1 .. n
  OBVIOUS
<1>2. IsFiniteSet(before) /\ Cardinality(before) \in Nat
  <2>1. IsFiniteSet(1 .. n) /\ before \subseteq 1 .. n
    BY <1>1, FS_Interval
  <2>. HIDE DEF before, n
  <2>. QED  BY <2>1, FS_Subset, FS_CardinalityType
<1>3. after = IF e \in T THEN before \cup {n + 1} ELSE before
  <2>1. /\ DOMAIN Append(s, e) = 1 .. n + 1 /\ Append(s, e)[n + 1] = e
        /\ \A i \in 1 .. n : Append(s, e)[i] = s[i]
    OBVIOUS
  <2>2. 1 .. n + 1 = 1 .. n \cup {n + 1} /\ n + 1 \notin 1 .. n
    BY <1>1
  <2>. HIDE DEF n
  <2>. QED  BY <1>1, <2>1, <2>2
<1>4. n + 1 \notin before
  BY <1>1
<1>. HIDE DEF before, after, n
<1>5. CASE e \in T
  <2>1. after = before \cup {n + 1}
    BY <1>3, <1>5
  <2>2. Cardinality(before \cup {n + 1}) = Cardinality(before) + 1
    BY <1>2, <1>4, FS_AddElement
  <2>. QED  BY <1>2, <1>5, <2>1, <2>2 DEF before, after
<1>6. CASE e \notin T
  <2>1. after = before
    BY <1>3, <1>6
  <2>2. Cardinality(after) = Cardinality(before)
    BY <2>1, Zenon
  <2>3. Cardinality(after) = Cardinality(before) + 0
    BY <1>2, <2>2
  <2>. QED  BY <1>2, <1>6, <2>3, Zenon DEF before, after
<1>. QED  BY <1>5, <1>6

\* w is the window of the numbers in v: the last of them, n at most.
Windowed(v, n, w) ==
  /\ w \in Seq(Nat)
  /\ Len(w) = IF Len(v) < n THEN Len(v) ELSE n
  /\ \A i \in 1 .. Len(w) : w[i] = v[Len(v) - Len(w) + i]

\* The window slides over one number more.
LEMMA WindowSlides ==
  ASSUME NEW v \in Seq(Nat), NEW n \in Nat \ {0}, NEW w \in Seq(Nat), Windowed(v, n, w),
         NEW e \in Nat
  PROVE  Windowed(Append(v, e), n, Tailing(Append(w, e), n))
<1>. DEFINE a == Append(v, e)  b == Append(w, e)  t == Tailing(b, n)
            p == Len(v)  q == Len(w)
<1>1. p \in Nat /\ q \in Nat /\ (p < n => q = p) /\ (p >= n => q = n)
  BY DEF Windowed
<1>2. \A i \in 1 .. q : w[i] = v[p - q + i]
  BY DEF Windowed
<1>3. /\ a \in Seq(Nat) /\ Len(a) = p + 1 /\ a[p + 1] = e
      /\ \A i \in 1 .. p : a[i] = v[i]
  OBVIOUS
<1>4. /\ b \in Seq(Nat) /\ Len(b) = q + 1 /\ b[q + 1] = e
      /\ \A i \in 1 .. q : b[i] = w[i]
  OBVIOUS
<1>. HIDE DEF a, b, p, q
<1>5. ASSUME NEW i \in 1 .. q + 1
      PROVE  b[i] = a[p - q + i]
  <2>1. CASE i = q + 1
    <3>1. p - q + (q + 1) = p + 1
      BY <1>1
    <3>. QED  BY <1>3, <1>4, <2>1, <3>1
  <2>2. CASE i # q + 1
    <3>1. i \in 1 .. q /\ p - q + i \in 1 .. p
      BY <1>1, <2>2
    <3>2. b[i] = w[i] /\ w[i] = v[p - q + i] /\ a[p - q + i] = v[p - q + i]
      BY <1>2, <1>3, <1>4, <3>1
    <3>. QED  BY <3>2
  <2>. QED  BY <2>1, <2>2
<1>6. CASE q = n
  <2>1. t = SubSeq(b, 2, n + 1) /\ p >= n
    BY <1>1, <1>4, <1>6 DEF Tailing
  <2>2. t \in Seq(Nat) /\ Len(t) = n /\ \A i \in 1 .. n : t[i] = b[i + 1]
    BY <1>4, <1>6, <2>1
  <2>3. ASSUME NEW i \in 1 .. n
        PROVE  t[i] = a[p + 1 - n + i]
    <3>1. i + 1 \in 1 .. q + 1 /\ p - q + (i + 1) = p + 1 - n + i
      BY <1>1, <1>6
    <3>. QED  BY <1>5, <2>2, <3>1
  <2>4. ~ (p + 1 < n)
    BY <1>1, <2>1
  <2>. HIDE DEF t
  <2>5. Windowed(a, n, t)
    <3>1. Len(t) = IF Len(a) < n THEN Len(a) ELSE n
      BY <1>3, <2>2, <2>4
    <3>2. \A i \in 1 .. Len(t) : t[i] = a[Len(a) - Len(t) + i]
      <4>. SUFFICES ASSUME NEW i \in 1 .. Len(t)
                    PROVE  t[i] = a[Len(a) - Len(t) + i]
        OBVIOUS
      <4>1. i \in 1 .. n /\ Len(a) - Len(t) + i = p + 1 - n + i
        BY <1>1, <1>3, <2>2
      <4>. QED  BY <2>3, <4>1, Zenon
    <3>. QED  BY <2>2, <3>1, <3>2 DEF Windowed
  <2>. QED  BY <2>5 DEF a, b, t
<1>7. CASE q # n
  <2>1. t = b /\ q = p /\ p < n
    BY <1>1, <1>4, <1>7 DEF Tailing
  <2>2. p + 1 < n \/ p + 1 = n
    BY <1>1, <2>1
  <2>3. \A i \in 1 .. q + 1 : b[i] = a[p + 1 - (q + 1) + i]
    <3>1. p + 1 - (q + 1) = p - q
      BY <1>1
    <3>. QED  BY <1>5, <3>1
  <2>4. Windowed(a, n, b)
    <3>1. Len(b) = IF Len(a) < n THEN Len(a) ELSE n
      BY <1>1, <1>3, <1>4, <2>1, <2>2
    <3>2. \A i \in 1 .. Len(b) : b[i] = a[Len(a) - Len(b) + i]
      <4>. SUFFICES ASSUME NEW i \in 1 .. Len(b)
                    PROVE  b[i] = a[Len(a) - Len(b) + i]
        OBVIOUS
      <4>1. i \in 1 .. q + 1 /\ Len(a) - Len(b) + i = p + 1 - (q + 1) + i
        BY <1>1, <1>3, <1>4
      <4>. QED  BY <2>3, <4>1, Zenon
    <3>. QED  BY <1>4, <3>1, <3>2 DEF Windowed
  <2>. QED  BY <2>1, <2>4 DEF a, b
<1>. QED  BY <1>6, <1>7

-----------------------------------------------------------------------------
(* The sort and the percentile.                                             *)

\* A sequence has as many positions as its length.
LEMMA PositionsFinite ==
  ASSUME NEW w \in Seq(Nat)
  PROVE  IsFiniteSet(DOMAIN w) /\ Cardinality(DOMAIN w) = Len(w)
<1>. DEFINE N == Len(w)
<1>1. N \in Nat /\ DOMAIN w = 1 .. N
  OBVIOUS
<1>. HIDE DEF N
<1>2. IsFiniteSet(1 .. N) /\ Cardinality(1 .. N) = IF 1 > N THEN 0 ELSE N - 1 + 1
  BY <1>1, FS_Interval
<1>3. Cardinality(1 .. N) = N
  BY <1>1, <1>2
<1>. QED  BY <1>1, <1>2, <1>3 DEF N

\* Of two values one comes before the other, and its place is lower.
LEMMA PlacesDiffer ==
  ASSUME NEW w \in Seq(Nat), NEW i \in DOMAIN w, NEW j \in DOMAIN w,
         w[i] < w[j] \/ (w[i] = w[j] /\ i < j)
  PROVE  Cardinality(NotAfter(w, i)) < Cardinality(NotAfter(w, j))
<1>1. /\ DOMAIN w = 1 .. Len(w) /\ Len(w) \in Nat /\ i \in Nat /\ j \in Nat
      /\ \A k \in 1 .. Len(w) : w[k] \in Nat
  OBVIOUS
<1>2. NotAfter(w, i) \subseteq NotAfter(w, j) \ {j} /\ j \in NotAfter(w, j)
  BY <1>1 DEF NotAfter
<1>3. IsFiniteSet(NotAfter(w, j))
  <2>1. NotAfter(w, j) \subseteq DOMAIN w
    BY DEF NotAfter
  <2>. QED  BY <2>1, PositionsFinite, FS_Subset
<1>4. /\ IsFiniteSet(NotAfter(w, j) \ {j})
      /\ Cardinality(NotAfter(w, j) \ {j}) = Cardinality(NotAfter(w, j)) - 1
  BY <1>2, <1>3, FS_RemoveElement
<1>5. Cardinality(NotAfter(w, i)) <= Cardinality(NotAfter(w, j) \ {j})
  BY <1>2, <1>4, FS_Subset
<1>6. Cardinality(NotAfter(w, i)) \in Nat /\ Cardinality(NotAfter(w, j)) \in Nat
  BY <1>2, <1>3, <1>4, FS_Subset, FS_CardinalityType
<1>. QED  BY <1>4, <1>5, <1>6

\* Each place is taken: the sort loses no value.
LEMMA PlaceIsTaken ==
  ASSUME NEW w \in Seq(Nat), NEW n \in DOMAIN w
  PROVE  \E i \in DOMAIN w : Cardinality(NotAfter(w, i)) = n
<1>. DEFINE D == DOMAIN w
            place == [i \in D |-> Cardinality(NotAfter(w, i))]
<1>1. /\ D = 1 .. Len(w) /\ Len(w) \in Nat /\ \A i \in D : i \in Nat /\ w[i] \in Nat
      /\ IsFiniteSet(D) /\ Cardinality(D) = Len(w)
  BY PositionsFinite
<1>2. ASSUME NEW i \in D
      PROVE  Cardinality(NotAfter(w, i)) \in D
  <2>1. NotAfter(w, i) \subseteq D /\ i \in NotAfter(w, i)
    BY <1>1 DEF NotAfter
  <2>2. /\ IsFiniteSet(NotAfter(w, i)) /\ Cardinality(NotAfter(w, i)) \in Nat
        /\ Cardinality(NotAfter(w, i)) <= Len(w)
    BY <1>1, <2>1, FS_Subset, FS_CardinalityType
  <2>3. Cardinality(NotAfter(w, i)) # 0
    BY <2>1, <2>2, FS_EmptySet
  <2>. QED  BY <1>1, <2>2, <2>3
<1>3. ASSUME NEW i \in D, NEW j \in D, i # j
      PROVE  Cardinality(NotAfter(w, i)) # Cardinality(NotAfter(w, j))
  <2>1. \/ w[i] < w[j] \/ (w[i] = w[j] /\ i < j)
        \/ w[j] < w[i] \/ (w[j] = w[i] /\ j < i)
    BY <1>1, <1>3
  <2>2. Cardinality(NotAfter(w, i)) \in Nat /\ Cardinality(NotAfter(w, j)) \in Nat
    BY <1>1, <1>2
  <2>3. \/ Cardinality(NotAfter(w, i)) < Cardinality(NotAfter(w, j))
        \/ Cardinality(NotAfter(w, j)) < Cardinality(NotAfter(w, i))
    BY <2>1, PlacesDiffer
  <2>. QED  BY <2>2, <2>3
<1>4. place \in Injection(D, D)
  <2>1. place \in [D -> D]
    BY <1>2
  <2>2. \A i, j \in D : place[i] = place[j] => i = j
    BY <1>3
  <2>. QED  BY <2>1, <2>2 DEF Injection, IsInjective
<1>5. place \in Surjection(D, D)
  BY <1>1, <1>4, FS_Injection
<1>6. PICK i \in D : place[i] = n
  BY <1>5 DEF Surjection
<1>. QED  BY <1>6

\* As many positions have a value not above the k-th of the sorted, and as many one
\* not below it, as come up to it, and from it on, in the order.
LEMMA PlaceSplits ==
  ASSUME NEW w \in Seq(Nat), NEW i \in DOMAIN w, NEW k \in DOMAIN w,
         Cardinality(NotAfter(w, i)) = k
  PROVE  /\ Cardinality({j \in DOMAIN w : w[j] <= w[i]}) >= k
         /\ Cardinality({j \in DOMAIN w : w[j] >= w[i]}) >= Len(w) - k + 1
<1>. DEFINE D    == DOMAIN w
            B    == NotAfter(w, i)
            low  == {j \in D : w[j] <= w[i]}
            high == {j \in D : w[j] >= w[i]}
<1>1. /\ D = 1 .. Len(w) /\ Len(w) \in Nat /\ \A j \in D : j \in Nat /\ w[j] \in Nat
      /\ IsFiniteSet(D) /\ Cardinality(D) = Len(w)
  BY PositionsFinite
<1>2. B \subseteq low /\ i \in B /\ D \ high \subseteq B \ {i} /\ B \subseteq D
  BY <1>1 DEF NotAfter
<1>3. /\ low \subseteq D /\ high \subseteq D
      /\ IsFiniteSet(low) /\ IsFiniteSet(high) /\ IsFiniteSet(B)
      /\ Cardinality(low) \in Nat /\ Cardinality(high) \in Nat
  BY <1>1, <1>2, FS_Subset, FS_CardinalityType
<1>. HIDE DEF low, high, B, D
<1>4. Cardinality(low) >= k
  <2>1. Cardinality(B) <= Cardinality(low)
    BY <1>2, <1>3, FS_Subset
  <2>. QED  BY <2>1 DEF B
<1>5. Cardinality(high) >= Len(w) - k + 1
  <2>1. IsFiniteSet(B \ {i}) /\ Cardinality(B \ {i}) = k - 1
    BY <1>2, <1>3, FS_RemoveElement DEF B
  <2>2. Cardinality(D \ high) <= k - 1
    BY <1>2, <2>1, FS_Subset
  <2>3. IsFiniteSet(D \ high) /\ Cardinality(D \ high) = Cardinality(D) - Cardinality(high)
    <3>1. D \cap high = high
      BY <1>3
    <3>2. /\ IsFiniteSet(D \ high)
          /\ Cardinality(D \ high) = Cardinality(D) - Cardinality(D \cap high)
      BY <1>1, FS_Difference
    <3>. QED  BY <3>1, <3>2
  <2>4. k \in Nat /\ Cardinality(D \ high) \in Nat
    BY <1>1, <2>3, FS_CardinalityType DEF D
  <2>. QED  BY <1>1, <1>3, <2>2, <2>3, <2>4
<1>. QED  BY <1>4, <1>5 DEF low, high, D

\* The percentile is the value at its place in the order.
LEMMA PercentileSplits ==
  ASSUME NEW w \in Seq(Nat), w # <<>>
  PROVE  LET n == Len(w) - 1
             p == percentile95(w)
         IN  /\ Cardinality({i \in DOMAIN w : w[i] <= p}) >= (n * 95) \div 100 + 1
             /\ Cardinality({i \in DOMAIN w : w[i] >= p}) >= Len(w) - (n * 95) \div 100
<1>. DEFINE d == ((Len(w) - 1) * 95) \div 100
            at == CHOOSE i \in DOMAIN w : Cardinality(NotAfter(w, i)) = d + 1
<1>1. d \in Nat /\ d + 1 \in DOMAIN w /\ Len(w) \in Nat
  <2>1. Len(w) \in Nat \ {0} /\ Len(w) - 1 \in Nat /\ DOMAIN w = 1 .. Len(w)
    OBVIOUS
  <2>2. \A x \in Nat : (x * 95) \div 100 \in Nat /\ (x * 95) \div 100 <= x
    OBVIOUS
  <2>. QED  BY <2>1, <2>2
<1>2. percentile95(w) = w[at]
  <2>1. percentile95(w) = Sorted(w)[d + 1]
    BY DEF percentile95
  <2>. HIDE DEF d
  <2>. QED  BY <1>1, <2>1 DEF Sorted
<1>. HIDE DEF d
<1>3. at \in DOMAIN w /\ Cardinality(NotAfter(w, at)) = d + 1
  BY <1>1, PlaceIsTaken
<1>. HIDE DEF at
<1>4. /\ Cardinality({j \in DOMAIN w : w[j] <= w[at]}) >= d + 1
      /\ Cardinality({j \in DOMAIN w : w[j] >= w[at]}) >= Len(w) - (d + 1) + 1
  BY <1>1, <1>3, PlaceSplits
<1>5. Len(w) - (d + 1) + 1 = Len(w) - d
  BY <1>1
<1>. QED  BY <1>2, <1>4, <1>5, ZenonT(30) DEF d

-----------------------------------------------------------------------------
(* The metrics and what has been observed.                                  *)

\* A sequence of numbers, each taken from an element of another, with one element more.
LEMMA TakenAppend ==
  ASSUME NEW S, NEW h \in [S -> Nat], NEW s \in Seq(S), NEW e \in S
  PROVE  /\ [i \in DOMAIN s |-> h[s[i]]] \in Seq(Nat)
         /\ Len([i \in DOMAIN s |-> h[s[i]]]) = Len(s)
         /\ [i \in DOMAIN Append(s, e) |-> h[Append(s, e)[i]]]
              = Append([i \in DOMAIN s |-> h[s[i]]], h[e])
<1>. DEFINE Taken(u) == [i \in DOMAIN u |-> h[u[i]]]
            n == Len(s)
            a == Append(s, e)
            l == Taken(a)
            r == Append(Taken(s), h[e])
<1>1. n \in Nat /\ DOMAIN s = 1 .. n /\ \A i \in 1 .. n : s[i] \in S
  OBVIOUS
<1>2. Taken(s) \in Seq(Nat) /\ Len(Taken(s)) = n /\ \A i \in 1 .. n : Taken(s)[i] = h[s[i]]
  BY <1>1
<1>3. DOMAIN a = 1 .. n + 1 /\ a[n + 1] = e /\ \A i \in 1 .. n : a[i] = s[i]
  OBVIOUS
<1>4. /\ r \in Seq(Nat) /\ Len(r) = n + 1 /\ r[n + 1] = h[e]
      /\ \A i \in 1 .. n : r[i] = Taken(s)[i]
  <2>1. h[e] \in Nat
    OBVIOUS
  <2>. HIDE DEF Taken, n
  <2>. QED  BY <1>2, <2>1
<1>5. l = [i \in 1 .. n + 1 |-> h[a[i]]]
  BY <1>3, Zenon
<1>6. r = [i \in 1 .. n + 1 |-> r[i]]
  <2>. HIDE DEF r
  <2>. QED  BY <1>1, <1>4
<1>7. \A i \in 1 .. n + 1 : h[a[i]] = r[i]
  <2>. HIDE DEF a, r, Taken, n
  <2>1. \A i \in 1 .. n + 1 : i = n + 1 \/ i \in 1 .. n
    BY <1>1
  <2>. QED  BY <1>2, <1>3, <1>4, <2>1, Zenon
<1>8. l = r
  <2>. HIDE DEF a, r, l, n
  <2>. QED  BY <1>5, <1>6, <1>7
<1>. QED  BY <1>2, <1>8

LEMMA ObservedNumbers ==
  ASSUME NEW s \in Seq(Observations), NEW o \in Observations
  PROVE  /\ Latencies(s) \in Seq(Nat) /\ Len(Latencies(s)) = Len(s)
         /\ Confidences(s) \in Seq(Nat)
         /\ Latencies(Append(s, o)) = Append(Latencies(s), o.latency)
         /\ Confidences(Append(s, o)) =
              Append(Confidences(s), IF Confident(o) THEN o.confidence ELSE 0)
<1>. DEFINE lat  == [x \in Observations |-> x.latency]
            conf == [x \in Observations |-> IF Confident(x) THEN x.confidence ELSE 0]
            a == Append(s, o)
<1>1. lat \in [Observations -> Nat] /\ conf \in [Observations -> Nat]
  BY TelemetryAssumption DEF Confident
<1>2. a \in Seq(Observations)
  OBVIOUS
<1>3. ASSUME NEW u \in Seq(Observations)
      PROVE  /\ Latencies(u) = [i \in DOMAIN u |-> lat[u[i]]]
             /\ Confidences(u) = [i \in DOMAIN u |-> conf[u[i]]]
  <2>1. \A i \in DOMAIN u : u[i] \in Observations
    OBVIOUS
  <2>. QED  BY <2>1 DEF Latencies, Confidences
<1>4. /\ lat[o] = o.latency
      /\ conf[o] = IF Confident(o) THEN o.confidence ELSE 0
  OBVIOUS
<1>. HIDE DEF lat, conf, a
<1>5. /\ Latencies(s) \in Seq(Nat) /\ Len(Latencies(s)) = Len(s)
      /\ Latencies(a) = Append(Latencies(s), o.latency)
  <2>1. /\ [i \in DOMAIN s |-> lat[s[i]]] \in Seq(Nat)
        /\ Len([i \in DOMAIN s |-> lat[s[i]]]) = Len(s)
        /\ [i \in DOMAIN a |-> lat[a[i]]] = Append([i \in DOMAIN s |-> lat[s[i]]], lat[o])
    BY <1>1, TakenAppend DEF a
  <2>. QED  BY <1>2, <1>3, <1>4, <2>1, Zenon
<1>6. /\ Confidences(s) \in Seq(Nat)
      /\ Confidences(a) = Append(Confidences(s), conf[o])
  <2>1. /\ [i \in DOMAIN s |-> conf[s[i]]] \in Seq(Nat)
        /\ [i \in DOMAIN a |-> conf[a[i]]] = Append([i \in DOMAIN s |-> conf[s[i]]], conf[o])
    BY <1>1, TakenAppend DEF a
  <2>2. Confidences(s) = [i \in DOMAIN s |-> conf[s[i]]]
    BY <1>3
  <2>3. Confidences(a) = [i \in DOMAIN a |-> conf[a[i]]]
    BY <1>2, <1>3
  <2>. QED  BY <2>1, <2>2, <2>3, Zenon
<1>. QED  BY <1>4, <1>5, <1>6 DEF a

\* The metric m tells what the sequence s of observations says.
Matches(m, s) ==
  /\ m.calls = Len(s)
  /\ m.errors = Count(s, LAMBDA o : ~o.success)
  /\ m.total = SumOf(Latencies(s))
  /\ m.samples = Count(s, Confident)
  /\ m.confidence = SumOf(Confidences(s))
  /\ Windowed(Latencies(s), Window, m.latencies)

TelemetryInv ==
  /\ TypeOK
  /\ Exclusive
  /\ \A t \in Tools : Matches(byTool[t], seen[t])
  /\ ExportIsCurrent

\* A metric that is updated goes on telling it.
LEMMA ObservedMatches ==
  ASSUME NEW s \in Seq(Observations), NEW o \in Observations, NEW m \in Metrics, Matches(m, s)
  PROVE  Observed(m, o) \in Metrics /\ Matches(Observed(m, o), Append(s, o))
<1>. DEFINE w == Observed(m, o)  a == Append(s, o)
            told == IF Confident(o) THEN o.confidence ELSE 0
<1>1. /\ o.latency \in Nat /\ o.success \in BOOLEAN /\ told \in Nat
      /\ Window \in Nat \ {0}
  BY TelemetryAssumption DEF Confident
<1>2. /\ m.calls \in Nat /\ m.errors \in Nat /\ m.total \in Nat /\ m.latencies \in Seq(Nat)
      /\ m.samples \in Nat /\ m.confidence \in Nat
  BY DEF Metrics
<1>3. /\ w.calls = m.calls + 1
      /\ w.errors = m.errors + IF o.success THEN 0 ELSE 1
      /\ w.total = m.total + o.latency
      /\ w.latencies = Tailing(Append(m.latencies, o.latency), Window)
      /\ w.samples = m.samples + IF Confident(o) THEN 1 ELSE 0
      /\ w.confidence = m.confidence + told
  BY <1>1, <1>2 DEF Observed, Confident
<1>4. Len(a) = m.calls + 1
  BY DEF Matches
<1>5. Windowed(Latencies(a), Window, w.latencies)
  <2>1. /\ Latencies(s) \in Seq(Nat)
        /\ Latencies(a) = Append(Latencies(s), o.latency)
    BY ObservedNumbers
  <2>2. Windowed(Latencies(s), Window, m.latencies)
    BY DEF Matches
  <2>3. Windowed(Append(Latencies(s), o.latency), Window, Tailing(Append(m.latencies, o.latency), Window))
    BY <1>1, <1>2, <2>1, <2>2, WindowSlides, Zenon
  <2>. QED  BY <1>3, <2>1, <2>3, Zenon
<1>6. Count(a, LAMBDA x : ~x.success) = m.errors + IF o.success THEN 0 ELSE 1
  <2>. DEFINE T == {x \in Observations : ~x.success}
  <2>1. ASSUME NEW u \in Seq(Observations)
        PROVE  Count(u, LAMBDA x : ~x.success) = Cardinality({i \in DOMAIN u : u[i] \in T})
    <3>1. {i \in DOMAIN u : ~u[i].success} = {i \in DOMAIN u : u[i] \in T}
      OBVIOUS
    <3>. QED  BY <3>1 DEF Count
  <2>2. a \in Seq(Observations)
    OBVIOUS
  <2>3. o \in T <=> ~o.success
    OBVIOUS
  <2>. HIDE DEF T
  <2>4. Cardinality({i \in DOMAIN a : a[i] \in T}) =
          Cardinality({i \in DOMAIN s : s[i] \in T}) + IF o \in T THEN 1 ELSE 0
    BY CountAppend
  <2>5. m.errors = Cardinality({i \in DOMAIN s : s[i] \in T})
    BY <2>1 DEF Matches
  <2>6. Count(a, LAMBDA x : ~x.success) = m.errors + IF o \in T THEN 1 ELSE 0
    BY <2>1, <2>2, <2>4, <2>5
  <2>. QED  BY <2>3, <2>6
<1>7. Count(a, Confident) = m.samples + IF Confident(o) THEN 1 ELSE 0
  <2>. DEFINE T == {x \in Observations : Confident(x)}
  <2>1. ASSUME NEW u \in Seq(Observations)
        PROVE  Count(u, Confident) = Cardinality({i \in DOMAIN u : u[i] \in T})
    <3>1. {i \in DOMAIN u : Confident(u[i])} = {i \in DOMAIN u : u[i] \in T}
      OBVIOUS
    <3>. QED  BY <3>1 DEF Count
  <2>2. a \in Seq(Observations)
    OBVIOUS
  <2>3. o \in T <=> Confident(o)
    OBVIOUS
  <2>. HIDE DEF T
  <2>4. Cardinality({i \in DOMAIN a : a[i] \in T}) =
          Cardinality({i \in DOMAIN s : s[i] \in T}) + IF o \in T THEN 1 ELSE 0
    BY CountAppend
  <2>5. m.samples = Cardinality({i \in DOMAIN s : s[i] \in T})
    BY <2>1 DEF Matches
  <2>6. Count(a, Confident) = m.samples + IF o \in T THEN 1 ELSE 0
    BY <2>1, <2>2, <2>4, <2>5
  <2>. QED  BY <2>3, <2>6
<1>8. SumOf(Latencies(a)) = m.total + o.latency
  <2>1. Latencies(s) \in Seq(Nat) /\ Latencies(a) = Append(Latencies(s), o.latency)
    BY ObservedNumbers
  <2>2. SumOf(Append(Latencies(s), o.latency)) = SumOf(Latencies(s)) + o.latency
    BY <1>1, <2>1, SumOfAppend
  <2>. QED  BY <2>1, <2>2, Zenon DEF Matches
<1>9. SumOf(Confidences(a)) = m.confidence + told
  <2>1. Confidences(s) \in Seq(Nat) /\ Confidences(a) = Append(Confidences(s), told)
    BY ObservedNumbers, Zenon
  <2>. HIDE DEF told
  <2>2. SumOf(Append(Confidences(s), told)) = SumOf(Confidences(s)) + told
    BY <1>1, <2>1, SumOfAppend
  <2>. QED  BY <2>1, <2>2, Zenon DEF Matches
<1>10. w \in Metrics
  <2>1. w.latencies \in Seq(Nat)
    BY <1>5 DEF Windowed
  <2>2. w.calls \in Nat /\ w.errors \in Nat /\ w.total \in Nat /\ w.samples \in Nat /\ w.confidence \in Nat
    <3>1. (IF o.success THEN 0 ELSE 1) \in Nat /\ (IF Confident(o) THEN 1 ELSE 0) \in Nat
      OBVIOUS
    <3>2. 1 \in Nat /\ \A x, y \in Nat : x + y \in Nat
      OBVIOUS
    <3>. HIDE DEF w, told
    <3>. QED  BY <1>1, <1>2, <1>3, <3>1, <3>2, Zenon
  <2>. QED  BY <2>1, <2>2 DEF Observed, Metrics
<1>11. Matches(w, a)
  <2>. HIDE DEF w, a, told
  <2>. QED  BY <1>3, <1>4, <1>5, <1>6, <1>7, <1>8, <1>9 DEF Matches
<1>. QED  BY <1>10, <1>11

LEMMA NothingMatches == Matches(NoMetric, <<>>) /\ NoMetric \in Metrics
<1>1. /\ Latencies(<<>>) = <<>> /\ Confidences(<<>>) = <<>>
      /\ Count(<<>>, LAMBDA o : ~o.success) = 0 /\ Count(<<>>, Confident) = 0
  <2>1. DOMAIN <<>> = {}
    OBVIOUS
  <2>2. {i \in DOMAIN <<>> : ~(<<>>[i]).success} = {} /\ {i \in DOMAIN <<>> : Confident(<<>>[i])} = {}
    BY <2>1
  <2>3. Cardinality({}) = 0
    BY FS_EmptySet
  <2>4. Count(<<>>, LAMBDA o : ~o.success) = 0 /\ Count(<<>>, Confident) = 0
    BY <2>2, <2>3 DEF Count
  <2>. QED  BY <2>1, <2>4 DEF Latencies, Confidences
<1>2. Windowed(<<>>, Window, <<>>)
  BY TelemetryAssumption DEF Windowed
<1>. QED  BY <1>1, <1>2, SumOfNone DEF Matches, NoMetric, Metrics

\* The property, by what a metric matches.
LEMMA HistoryMatched ==
  ASSUME TypeOK, \A t \in Tools : Matches(byTool[t], seen[t])
  PROVE  MetricsMatchHistory
<1>. SUFFICES ASSUME NEW t \in Tools
              PROVE  LET m == byTool[t]
                         s == seen[t]
                     IN  /\ m.calls = Len(s)
                         /\ m.errors = Count(s, LAMBDA o : ~o.success)
                         /\ m.total = SumOf(Latencies(s))
                         /\ m.samples = Count(s, Confident)
                         /\ m.confidence = SumOf(Confidences(s))
                         /\ Len(m.latencies) = IF Len(s) < Window THEN Len(s) ELSE Window
                         /\ \A i \in DOMAIN m.latencies :
                              m.latencies[i] = s[Len(s) - Len(m.latencies) + i].latency
  BY Zenon DEF MetricsMatchHistory
<1>. DEFINE m == byTool[t]  s == seen[t]
<1>1. s \in Seq(Observations) /\ Matches(m, s)
  BY DEF TypeOK
<1>. HIDE DEF m, s
<1>2. Len(Latencies(s)) = Len(s)
  BY <1>1 DEF Latencies
<1>3. /\ m.latencies \in Seq(Nat)
      /\ Len(m.latencies) = IF Len(s) < Window THEN Len(s) ELSE Window
      /\ \A i \in 1 .. Len(m.latencies) :
           m.latencies[i] = Latencies(s)[Len(s) - Len(m.latencies) + i]
  BY <1>1, <1>2 DEF Matches, Windowed
<1>4. ASSUME NEW i \in DOMAIN m.latencies
      PROVE  m.latencies[i] = s[Len(s) - Len(m.latencies) + i].latency
  <2>1. i \in 1 .. Len(m.latencies) /\ Len(m.latencies) <= Len(s)
        /\ Len(s) \in Nat /\ Len(m.latencies) \in Nat
    BY <1>1, <1>3, TelemetryAssumption
  <2>2. Len(s) - Len(m.latencies) + i \in DOMAIN s
    <3>1. Len(s) - Len(m.latencies) + i \in 1 .. Len(s)
      BY <2>1
    <3>. QED  BY <1>1, <3>1
  <2>. QED  BY <1>3, <2>1, <2>2 DEF Latencies
<1>. QED  BY <1>1, <1>3, <1>4, Zenon DEF Matches, m, s

-----------------------------------------------------------------------------
(* The steps.                                                               *)

LEMMA InitInv == Init => TelemetryInv
<1>. SUFFICES ASSUME Init
              PROVE  TelemetryInv
  OBVIOUS
<1>1. TypeOK
  <2>1. <<>> \in Seq(Observations) /\ NoMetric \in Metrics
    BY NothingMatches
  <2>2. DOMAIN file.content = {} /\ file.state = "absent"
    BY DEF Init
  <2>3. exporting \in BOOLEAN /\ failed \in BOOLEAN
    BY DEF Init
  <2>4. /\ byTool \in [Tools -> Metrics] /\ seen \in [Tools -> Seq(Observations)]
        /\ pc \in [Calls -> {"idle", "waiting", "create", "write", "done"}]
        /\ obs \in [Calls -> Observations] /\ holder \in Calls \cup {Nobody}
    BY <2>1 DEF Init
  <2>. QED  BY <2>2, <2>3, <2>4 DEF TypeOK
<1>2. \A t \in Tools : Matches(byTool[t], seen[t])
  BY NothingMatches DEF Init
<1>3. Exclusive /\ ExportIsCurrent
  BY DEF Init, Exclusive, ExportIsCurrent
<1>. QED  BY <1>1, <1>2, <1>3 DEF TelemetryInv

LEMMA EnterKeeps ==
  ASSUME TelemetryInv, NEW c \in Calls, Enter(c)
  PROVE  TelemetryInv'
<1>. USE DEF TelemetryInv
<1>1. TypeOK'
  BY DEF TypeOK, Enter
<1>2. Exclusive'
  BY DEF TypeOK, Enter, Exclusive
<1>3. (\A t \in Tools : Matches(byTool[t], seen[t]))'
  BY DEF Enter
<1>4. ExportIsCurrent'
  BY DEF Enter, ExportIsCurrent, Snapshot
<1>. QED  BY <1>1, <1>2, <1>3, <1>4

LEMMA UpdateKeeps ==
  ASSUME TelemetryInv, NEW c \in Calls, Update(c)
  PROVE  TelemetryInv'
<1>. USE DEF TelemetryInv
<1>. DEFINE u == obs[c].tool
<1>1. u \in Tools /\ obs[c] \in Observations
  BY TelemetryAssumption DEF TypeOK
<1>2. /\ byTool' = [byTool EXCEPT ![u] = Observed(byTool[u], obs[c])]
      /\ seen' = [seen EXCEPT ![u] = Append(seen[u], obs[c])]
      /\ holder' = IF exporting THEN c ELSE Nobody
      /\ pc' = [pc EXCEPT ![c] = IF exporting THEN "create" ELSE "done"]
      /\ UNCHANGED <<obs, exporting, file, failed>>
      /\ holder = Nobody
  BY DEF Update
<1>3. /\ Observed(byTool[u], obs[c]) \in Metrics
      /\ Matches(Observed(byTool[u], obs[c]), Append(seen[u], obs[c]))
      /\ Append(seen[u], obs[c]) \in Seq(Observations)
  BY <1>1, ObservedMatches DEF TypeOK
<1>. HIDE DEF u
<1>4. TypeOK'
  BY <1>1, <1>2, <1>3 DEF TypeOK
<1>5. Exclusive'
  BY <1>2, TelemetryAssumption DEF TypeOK, Exclusive
<1>6. (\A t \in Tools : Matches(byTool[t], seen[t]))'
  <2>. SUFFICES ASSUME NEW t \in Tools
                PROVE  Matches(byTool'[t], seen'[t])
    OBVIOUS
  <2>1. CASE t = u
    BY <1>1, <1>2, <1>3, <2>1 DEF TypeOK
  <2>2. CASE t # u
    BY <1>1, <1>2, <2>2 DEF TypeOK
  <2>. QED  BY <2>1, <2>2
<1>7. ExportIsCurrent'
  BY <1>2, TelemetryAssumption DEF ExportIsCurrent
<1>. QED  BY <1>4, <1>5, <1>6, <1>7

LEMMA CreateFileKeeps ==
  ASSUME TelemetryInv, NEW c \in Calls, CreateFile(c)
  PROVE  TelemetryInv'
<1>. USE DEF TelemetryInv
<1>1. exporting /\ holder = c /\ c # Nobody
  BY TelemetryAssumption DEF CreateFile, Exclusive
<1>2. TypeOK'
  BY DEF TypeOK, CreateFile
<1>3. Exclusive'
  BY <1>1 DEF TypeOK, CreateFile, Exclusive
<1>4. (\A t \in Tools : Matches(byTool[t], seen[t]))'
  BY DEF CreateFile
<1>5. ExportIsCurrent'
  BY <1>1 DEF CreateFile, ExportIsCurrent
<1>. QED  BY <1>2, <1>3, <1>4, <1>5

LEMMA WriteFileKeeps ==
  ASSUME TelemetryInv, NEW c \in Calls, WriteFile(c)
  PROVE  TelemetryInv'
<1>. USE DEF TelemetryInv
<1>1. exporting /\ holder = c
  BY DEF WriteFile, Exclusive
<1>2. TypeOK'
  <2>1. DOMAIN Snapshot \subseteq Tools
    BY DEF Snapshot
  <2>. QED  BY <2>1 DEF TypeOK, WriteFile, Unlock
<1>3. Exclusive'
  BY <1>1 DEF TypeOK, WriteFile, Unlock, Exclusive
<1>4. (\A t \in Tools : Matches(byTool[t], seen[t]))'
  BY DEF WriteFile
<1>5. ExportIsCurrent'
  <2>1. Snapshot' = Snapshot
    BY DEF WriteFile, Snapshot
  <2>. QED  BY <1>1, <2>1 DEF WriteFile, ExportIsCurrent
<1>. QED  BY <1>2, <1>3, <1>4, <1>5

LEMMA ExportFailsKeeps ==
  ASSUME TelemetryInv, NEW c \in Calls, ExportFails(c)
  PROVE  TelemetryInv'
<1>. USE DEF TelemetryInv
<1>1. exporting /\ holder = c
  BY DEF ExportFails, Exclusive
<1>2. TypeOK'
  BY DEF TypeOK, ExportFails, Unlock
<1>3. Exclusive'
  BY <1>1 DEF TypeOK, ExportFails, Unlock, Exclusive
<1>4. (\A t \in Tools : Matches(byTool[t], seen[t]))'
  BY DEF ExportFails
<1>5. ExportIsCurrent'
  BY <1>1 DEF ExportFails, ExportIsCurrent
<1>. QED  BY <1>2, <1>3, <1>4, <1>5

LEMMA RestartKeeps ==
  ASSUME TelemetryInv, Restart
  PROVE  TelemetryInv'
<1>. USE DEF TelemetryInv
<1>1. TypeOK'
  <2>1. <<>> \in Seq(Observations) /\ NoMetric \in Metrics
    BY NothingMatches
  <2>. QED  BY <2>1 DEF TypeOK, Restart
<1>2. Exclusive'
  BY DEF Restart, Exclusive
<1>3. (\A t \in Tools : Matches(byTool[t], seen[t]))'
  BY NothingMatches DEF Restart
<1>4. ExportIsCurrent'
  BY DEF Restart, ExportIsCurrent
<1>. QED  BY <1>1, <1>2, <1>3, <1>4

LEMMA StutterKeeps ==
  ASSUME TelemetryInv, UNCHANGED vars
  PROVE  TelemetryInv'
BY DEF TelemetryInv, vars, TypeOK, Exclusive, ExportIsCurrent, Snapshot

-----------------------------------------------------------------------------
(* The theorems.                                                            *)

\* The inductive invariant: the mutex is held through an export, and the metrics match
\* what has been observed, in every reachable state.
THEOREM TelemetryInvariant == Spec => []TelemetryInv
<1>1. TelemetryInv /\ [Next]_vars => TelemetryInv'
  BY EnterKeeps, UpdateKeeps, CreateFileKeeps, WriteFileKeeps, ExportFailsKeeps,
     RestartKeeps, StutterKeeps
     DEF Next, ObserveStep
<1>. QED  BY InitInv, <1>1, PTL DEF Spec

\* The variables of the collector keep to their types.
THEOREM TelemetryTypeCorrect == Spec => []TypeOK
<1>1. TelemetryInv => TypeOK
  BY DEF TelemetryInv
<1>. QED  BY <1>1, TelemetryInvariant, PTL

\* Whatever the calls and their order, the metrics that Observe maintains one call at a
\* time are those of the calls that have been observed, the window their last latencies.
THEOREM MetricsMatchHistoryHolds == Spec => []MetricsMatchHistory
<1>1. TelemetryInv => MetricsMatchHistory
  BY HistoryMatched DEF TelemetryInv
<1>. QED  BY <1>1, TelemetryInvariant, PTL

\* Whatever the window holds, percentile95 splits it in the proportion it says.
THEOREM P95SplitsWindowHolds == Spec => []P95SplitsWindow
<1>1. TypeOK => P95SplitsWindow
  <2>. SUFFICES ASSUME TypeOK, NEW t \in Tools, byTool[t].latencies # <<>>
                PROVE  LET w == byTool[t].latencies
                           n == Len(w) - 1
                           p == percentile95(w)
                       IN  /\ Count(w, LAMBDA v : v <= p) >= (n * 95) \div 100 + 1
                           /\ Count(w, LAMBDA v : v >= p) >= Len(w) - (n * 95) \div 100
    BY Zenon DEF P95SplitsWindow
  <2>1. byTool[t].latencies \in Seq(Nat)
    BY DEF TypeOK, Metrics
  <2>. QED  BY <2>1, PercentileSplits DEF Count
<1>. QED  BY <1>1, TelemetryTypeCorrect, PTL

\* Whichever calls interleave, and whichever exports fail, the exported file is the
\* snapshot of the metrics in memory once the mutex is free, unless an export failed.
THEOREM ExportIsCurrentHolds == Spec => []ExportIsCurrent
<1>1. TelemetryInv => ExportIsCurrent
  BY DEF TelemetryInv
<1>. QED  BY <1>1, TelemetryInvariant, PTL
=============================================================================
