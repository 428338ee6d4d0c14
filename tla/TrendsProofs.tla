----------------------------- MODULE TrendsProofs ---------------------------
(***************************************************************************)
(* Theorems about Trends for any histories, calls, limit and changes of    *)
(* the runs.  Keeping and SumOf are recursive: the lemmas Induction and    *)
(* Recursion say what they need, of sets and functions of numbers up to    *)
(* the length of a sequence.                                               *)
(***************************************************************************)
EXTENDS Trends, FiniteSetTheorems, TLAPS

-----------------------------------------------------------------------------
(* Induction and recursion up to a number.                                  *)

\* A set of numbers has a least one.
LEMMA Least ==
  ASSUME NEW T, T \subseteq Nat, T # {}
  PROVE  \E m \in T : \A k \in T : m <= k
<1>1. PICK m \in T : \A k \in T : <<k, m>> \notin OpToRel(<, Nat)
  BY WFMin, NatLessThanWellFounded
<1>2. ASSUME NEW k \in T
      PROVE  m <= k
  <2>1. ~ (k < m)
    BY <1>1 DEF OpToRel
  <2>2. k \in Nat /\ m \in Nat
    OBVIOUS
  <2>. QED  BY <2>1, <2>2
<1>. QED  BY <1>2

\* Induction up to a number: a set that has 0, and each number after one that it has,
\* has them all.
LEMMA Induction ==
  ASSUME NEW N \in Nat, NEW G, 0 \in G, \A n \in 1 .. N : n - 1 \in G => n \in G
  PROVE  \A n \in 0 .. N : n \in G
<1>. DEFINE T == {n \in 0 .. N : n \notin G}
<1>. SUFFICES ASSUME T # {}
              PROVE  FALSE
  OBVIOUS
<1>1. PICK m \in T : \A k \in T : m <= k
  <2>1. T \subseteq Nat
    OBVIOUS
  <2>. HIDE DEF T
  <2>. QED  BY <2>1, Least
<1>2. m \in 1 .. N /\ m - 1 \in 0 .. N /\ ~ (m <= m - 1)
  OBVIOUS
<1>3. m - 1 \in G
  BY <1>1, <1>2
<1>. QED  BY <1>2, <1>3

\* f is defined from each number to the next: each step makes an element of S of one.
StepsOf(N, S) == [1 .. N -> [S -> S]]

Follows(f, N, S, base, step) ==
  /\ f \in [0 .. N -> S]
  /\ f[0] = base
  /\ \A i \in 1 .. N : f[i] = step[i][f[i - 1]]

\* Such a function exists.
LEMMA Recursion ==
  ASSUME NEW S, NEW base \in S, NEW N \in Nat, NEW step \in StepsOf(N, S)
  PROVE  \E f : Follows(f, N, S, base, step)
<1>. USE DEF StepsOf, Follows
<1>. DEFINE Steps(n, f) == f[0] = base /\ \A i \in 1 .. n : f[i] = step[i][f[i - 1]]
            Has(n) == \E f \in [0 .. n -> S] : Steps(n, f)
            G == {n \in 0 .. N : Has(n)}
<1>1. 0 \in G
  <2>1. [i \in 0 .. 0 |-> base] \in [0 .. 0 -> S]
    OBVIOUS
  <2>2. Steps(0, [i \in 0 .. 0 |-> base])
    OBVIOUS
  <2>. HIDE DEF Steps
  <2>3. Has(0) /\ 0 \in 0 .. N
    BY <2>1, <2>2
  <2>. QED  BY <2>3
<1>2. ASSUME NEW n \in 1 .. N, n - 1 \in G
      PROVE  n \in G
  <2>1. PICK f \in [0 .. n - 1 -> S] : Steps(n - 1, f)
    BY <1>2
  <2>. DEFINE l == step[n][f[n - 1]]
              g == [i \in 0 .. n |-> IF i = n THEN l ELSE f[i]]
  <2>2. g \in [0 .. n -> S]
    <3>1. f[n - 1] \in S /\ step[n] \in [S -> S]
      OBVIOUS
    <3>2. l \in S /\ \A i \in 0 .. n : i # n => i \in 0 .. n - 1
      BY <3>1
    <3>. QED  BY <3>2
  <2>3. Steps(n, g)
    <3>1. g[0] = base
      BY <2>1
    <3>2. ASSUME NEW i \in 1 .. n
          PROVE  g[i] = step[i][g[i - 1]]
      <4>1. i \in 0 .. n /\ i - 1 \in 0 .. n /\ i - 1 # n
        OBVIOUS
      <4>2. g[i - 1] = f[i - 1]
        BY <4>1
      <4>3. CASE i = n
        BY <4>1, <4>2, <4>3
      <4>4. CASE i # n
        <5>1. i \in 1 .. n - 1
          BY <4>4
        <5>2. f[i] = step[i][f[i - 1]]
          BY <2>1, <5>1
        <5>. QED  BY <4>1, <4>2, <4>4, <5>2
      <4>. QED  BY <4>3, <4>4
    <3>. QED  BY <3>1, <3>2
  <2>. HIDE DEF Steps, g
  <2>4. Has(n) /\ n \in 0 .. N
    BY <2>2, <2>3
  <2>. QED  BY <2>4
<1>. HIDE DEF G
<1>3. N \in G
  <2>1. N \in 0 .. N
    OBVIOUS
  <2>. QED  BY <1>1, <1>2, <2>1, Induction
<1>. QED  BY <1>3 DEF G

-----------------------------------------------------------------------------
(* What Keeping keeps.                                                      *)

\* k has the first n elements of s that are wanted, in their order: e tells where each
\* of them comes from.
Picks(s, wanted, n, k, e) ==
  /\ Len(k) <= n
  /\ e \in [1 .. Len(k) -> 1 .. n]
  /\ \A i \in 1 .. Len(k) : k[i] = s[e[i]] /\ s[e[i]] \in wanted
  /\ \A i, j \in 1 .. Len(k) : i < j => e[i] < e[j]
  /\ \A j \in 1 .. n : s[j] \in wanted => \E i \in 1 .. Len(k) : e[i] = j

\* With one element more,
LEMMA PicksNext ==
  ASSUME NEW S, NEW s \in Seq(S), NEW wanted, NEW n \in 1 .. Len(s),
         NEW k \in Seq(S), NEW e, Picks(s, wanted, n - 1, k, e)
  PROVE  \E d : Picks(s, wanted, n, IF s[n] \in wanted THEN Append(k, s[n]) ELSE k, d)
<1>. DEFINE m == Len(k)
<1>1. m \in Nat /\ n \in Nat \ {0} /\ n - 1 \in Nat /\ m <= n - 1
  BY DEF Picks
<1>2. /\ e \in [1 .. m -> 1 .. n - 1]
      /\ \A i \in 1 .. m : k[i] = s[e[i]] /\ s[e[i]] \in wanted
      /\ \A i, j \in 1 .. m : i < j => e[i] < e[j]
      /\ \A j \in 1 .. n - 1 : s[j] \in wanted => \E i \in 1 .. m : e[i] = j
  BY DEF Picks
<1>3. ASSUME NEW i \in 1 .. m
      PROVE  e[i] \in 1 .. n /\ e[i] < n
  <2>1. e[i] \in 1 .. n - 1
    BY <1>2
  <2>. QED  BY <1>1, <2>1
<1>4. \A j \in 1 .. n : j \in 1 .. n - 1 \/ j = n
  BY <1>1
<1>5. CASE s[n] \notin wanted
  <2>1. e \in [1 .. m -> 1 .. n]
    BY <1>2, <1>3
  <2>2. \A j \in 1 .. n : s[j] \in wanted => \E i \in 1 .. m : e[i] = j
    BY <1>2, <1>4, <1>5
  <2>3. Picks(s, wanted, n, k, e)
    BY <1>1, <1>2, <2>1, <2>2 DEF Picks
  <2>. QED  BY <1>5, <2>3
<1>6. CASE s[n] \in wanted
  <2>. DEFINE l == Append(k, s[n])
              d == [i \in 1 .. m + 1 |-> IF i = m + 1 THEN n ELSE e[i]]
  <2>1. Len(l) = m + 1 /\ l[m + 1] = s[n] /\ \A i \in 1 .. m : l[i] = k[i]
    OBVIOUS
  <2>2. \A i \in 1 .. m + 1 : i = m + 1 \/ (i \in 1 .. m /\ i # m + 1)
    BY <1>1
  <2>3. m + 1 \in 1 .. m + 1 /\ \A i \in 1 .. m : i \in 1 .. m + 1 /\ i # m + 1
    BY <1>1
  <2>4. d[m + 1] = n /\ \A i \in 1 .. m : d[i] = e[i]
    BY <2>3
  <2>5. d \in [1 .. m + 1 -> 1 .. n]
    BY <1>1, <1>3, <2>2
  <2>. HIDE DEF d, l, m
  <2>6. \A i \in 1 .. m + 1 : l[i] = s[d[i]] /\ s[d[i]] \in wanted
    BY <1>2, <1>6, <2>1, <2>2, <2>4
  <2>7. ASSUME NEW i \in 1 .. m + 1, NEW j \in 1 .. m + 1, i < j
        PROVE  d[i] < d[j]
    <3>1. i \in 1 .. m
      BY <1>1, <2>7
    <3>2. CASE j = m + 1
      BY <1>3, <2>4, <3>1, <3>2
    <3>3. CASE j # m + 1
      BY <1>2, <2>2, <2>4, <2>7, <3>1, <3>3
    <3>. QED  BY <3>2, <3>3
  <2>8. \A j \in 1 .. n : s[j] \in wanted => \E i \in 1 .. m + 1 : d[i] = j
    BY <1>2, <1>4, <2>3, <2>4
  <2>9. Picks(s, wanted, n, l, d)
    BY <1>1, <2>1, <2>5, <2>6, <2>7, <2>8 DEF Picks
  <2>. QED  BY <1>6, <2>9 DEF l
<1>. QED  BY <1>5, <1>6

\* f has what is kept of the first elements of s, up to n of them.
KeptUpTo(s, wanted, n, f) ==
  /\ f[0] = <<>>
  /\ \A i \in 1 .. n : f[i] = IF s[i] \in wanted THEN Append(f[i - 1], s[i]) ELSE f[i - 1]

\* Such a function exists,
LEMMA KeptExists ==
  ASSUME NEW S, NEW s \in Seq(S), NEW wanted
  PROVE  \E f \in [0 .. Len(s) -> Seq(S)] : KeptUpTo(s, wanted, Len(s), f)
<1>. DEFINE N == Len(s)
<1>1. N \in Nat /\ \A i \in 1 .. N : s[i] \in S
  OBVIOUS
<1>. HIDE DEF N
<1>2. PICK step \in StepsOf(N, Seq(S)) :
        \A i \in 1 .. N : \A k \in Seq(S) :
          step[i][k] = IF s[i] \in wanted THEN Append(k, s[i]) ELSE k
  <2>. DEFINE step == [i \in 1 .. N |-> [k \in Seq(S) |->
                        IF s[i] \in wanted THEN Append(k, s[i]) ELSE k]]
  <2>1. step \in StepsOf(N, Seq(S))
    BY <1>1 DEF StepsOf
  <2>. QED  BY <2>1
<1>3. PICK f : Follows(f, N, Seq(S), <<>>, step)
  <2>1. <<>> \in Seq(S)
    OBVIOUS
  <2>. QED  BY <1>1, <2>1, Recursion
<1>4. f \in [0 .. N -> Seq(S)] /\ f[0] = <<>>
  BY <1>3 DEF Follows
<1>5. ASSUME NEW i \in 1 .. N
      PROVE  f[i] = IF s[i] \in wanted THEN Append(f[i - 1], s[i]) ELSE f[i - 1]
  <2>1. i - 1 \in 0 .. N
    BY <1>1
  <2>2. f[i - 1] \in Seq(S)
    BY <1>4, <2>1
  <2>3. f[i] = step[i][f[i - 1]]
    BY <1>3 DEF Follows
  <2>. QED  BY <1>2, <2>2, <2>3
<1>6. KeptUpTo(s, wanted, N, f)
  BY <1>4, <1>5 DEF KeptUpTo
<1>. QED  BY <1>4, <1>6 DEF N

\* and every such function has sequences that pick what is wanted.
LEMMA KeptPicks ==
  ASSUME NEW S, NEW s \in Seq(S), NEW wanted, NEW f, KeptUpTo(s, wanted, Len(s), f)
  PROVE  \A n \in 0 .. Len(s) : f[n] \in Seq(S) /\ \E e : Picks(s, wanted, n, f[n], e)
<1>. DEFINE Good(n) == f[n] \in Seq(S) /\ \E e : Picks(s, wanted, n, f[n], e)
            G == {n \in 0 .. Len(s) : Good(n)}
<1>1. Good(0)
  <2>1. f[0] = <<>>
    BY DEF KeptUpTo
  <2>2. <<>> \in Seq(S) /\ Len(<<>>) = 0 /\ 1 .. 0 = {}
    OBVIOUS
  <2>3. [i \in 1 .. 0 |-> 0] \in [1 .. 0 -> 1 .. 0]
    BY <2>2
  <2>4. Picks(s, wanted, 0, <<>>, [i \in 1 .. 0 |-> 0])
    BY <2>2, <2>3 DEF Picks
  <2>. QED  BY <2>1, <2>2, <2>4
<1>2. ASSUME NEW n \in 1 .. Len(s), Good(n - 1)
      PROVE  Good(n)
  <2>1. f[n] = IF s[n] \in wanted THEN Append(f[n - 1], s[n]) ELSE f[n - 1]
    BY DEF KeptUpTo
  <2>2. f[n] \in Seq(S)
    <3>1. s[n] \in S
      OBVIOUS
    <3>. QED  BY <1>2, <2>1, <3>1
  <2>3. \E e : Picks(s, wanted, n, f[n], e)
    <3>1. PICK e : Picks(s, wanted, n - 1, f[n - 1], e)
      BY <1>2
    <3>2. f[n - 1] \in Seq(S)
      BY <1>2
    <3>. QED  BY <2>1, <3>1, <3>2, PicksNext
  <2>. QED  BY <2>2, <2>3
<1>. HIDE DEF Good
<1>3. 0 \in G /\ \A n \in 1 .. Len(s) : n - 1 \in G => n \in G
  <2>1. 0 \in 0 .. Len(s) /\ \A n \in 1 .. Len(s) : n \in 0 .. Len(s)
    OBVIOUS
  <2>. QED  BY <1>1, <1>2, <2>1
<1>4. \A n \in 0 .. Len(s) : n \in G
  <2>1. Len(s) \in Nat
    OBVIOUS
  <2>. HIDE DEF G
  <2>. QED  BY <1>3, <2>1, Induction
<1>. QED  BY <1>4 DEF Good

\* What Keeping keeps are the elements that are wanted, each in its turn.
LEMMA KeepingPicks ==
  ASSUME NEW S, NEW s \in Seq(S), NEW wanted
  PROVE  /\ Keeping(s, wanted) \in Seq(S)
         /\ \E e : Picks(s, wanted, Len(s), Keeping(s, wanted), e)
<1>. DEFINE n == Len(s)
            Kept(g) == g = [i \in 0 .. n |->
                              IF i = 0 THEN <<>>
                              ELSE IF s[i] \in wanted THEN Append(g[i - 1], s[i]) ELSE g[i - 1]]
            kept == CHOOSE g : Kept(g)
<1>1. n \in Nat
  OBVIOUS
<1>2. Keeping(s, wanted) = kept[n]
  BY DEF Keeping
<1>3. \E g : Kept(g)
  <2>1. PICK g \in [0 .. n -> Seq(S)] : KeptUpTo(s, wanted, n, g)
    BY KeptExists
  <2>2. DOMAIN g = 0 .. n
    OBVIOUS
  <2>3. ASSUME NEW i \in 0 .. n
        PROVE  g[i] = IF i = 0 THEN <<>>
                      ELSE IF s[i] \in wanted THEN Append(g[i - 1], s[i]) ELSE g[i - 1]
    <3>1. CASE i = 0
      BY <2>1, <3>1 DEF KeptUpTo
    <3>2. CASE i # 0
      <4>1. i \in 1 .. n
        BY <1>1, <3>2
      <4>. QED  BY <2>1, <3>2, <4>1 DEF KeptUpTo
    <3>. QED  BY <3>1, <3>2
  <2>4. Kept(g)
    BY <2>2, <2>3
  <2>. QED  BY <2>4
<1>4. Kept(kept)
  BY <1>3
<1>5. KeptUpTo(s, wanted, n, kept)
  <2>. HIDE DEF kept, n
  <2>1. kept[0] = <<>>
    BY <1>1, <1>4
  <2>2. ASSUME NEW i \in 1 .. n
        PROVE  kept[i] = IF s[i] \in wanted THEN Append(kept[i - 1], s[i]) ELSE kept[i - 1]
    <3>1. i \in 0 .. n /\ i # 0
      BY <1>1
    <3>. QED  BY <1>4, <3>1
  <2>. QED  BY <2>1, <2>2 DEF KeptUpTo
<1>. HIDE DEF kept
<1>6. n \in 0 .. Len(s)
  BY <1>1
<1>7. kept[n] \in Seq(S) /\ \E e : Picks(s, wanted, n, kept[n], e)
  BY <1>5, <1>6, KeptPicks
<1>. QED  BY <1>2, <1>7
\* These are the elements of s that are wanted, no more than there are in s, and newest
\* first if s is.
Descends(s) == \A i, j \in DOMAIN s : i < j => s[i].created >= s[j].created

LEMMA KeepingKeeps ==
  ASSUME NEW S, NEW s \in Seq(S), NEW wanted
  PROVE  /\ Keeping(s, wanted) \in Seq(S)
         /\ Len(Keeping(s, wanted)) <= Len(s)
         /\ \A x : x \in ToSet(Keeping(s, wanted)) <=> x \in ToSet(s) /\ x \in wanted
         /\ Descends(s) => Descends(Keeping(s, wanted))
<1>. DEFINE k == Keeping(s, wanted)  n == Len(s)
<1>1. k \in Seq(S) /\ n \in Nat /\ DOMAIN s = 1 .. n
  BY KeepingPicks
<1>. HIDE DEF k
<1>2. Len(k) \in Nat /\ DOMAIN k = 1 .. Len(k)
  BY <1>1
<1>3. PICK e : Picks(s, wanted, n, k, e)
  BY KeepingPicks DEF k
<1>4. Len(k) <= n
  BY <1>3 DEF Picks
<1>5. ASSUME NEW i \in 1 .. Len(k)
      PROVE  e[i] \in 1 .. n /\ k[i] = s[e[i]] /\ k[i] \in wanted
  BY <1>3 DEF Picks
<1>6. ASSUME NEW x
      PROVE  x \in ToSet(k) <=> x \in ToSet(s) /\ x \in wanted
  <2>1. ASSUME x \in ToSet(k)
        PROVE  x \in ToSet(s) /\ x \in wanted
    <3>1. PICK i \in 1 .. Len(k) : x = k[i]
      BY <1>2, <2>1 DEF ToSet
    <3>. QED  BY <1>1, <1>5, <3>1 DEF ToSet
  <2>2. ASSUME x \in ToSet(s), x \in wanted
        PROVE  x \in ToSet(k)
    <3>1. PICK j \in 1 .. n : x = s[j]
      BY <1>1, <2>2 DEF ToSet
    <3>2. PICK i \in 1 .. Len(k) : e[i] = j
      BY <1>3, <2>2, <3>1 DEF Picks
    <3>3. k[i] = x
      BY <1>5, <3>1, <3>2
    <3>. QED  BY <1>2, <3>3 DEF ToSet
  <2>. QED  BY <2>1, <2>2
<1>7. ASSUME Descends(s)
      PROVE  Descends(k)
  <2>. SUFFICES ASSUME NEW i \in 1 .. Len(k), NEW j \in 1 .. Len(k), i < j
                PROVE  k[i].created >= k[j].created
    BY <1>2 DEF Descends
  <2>1. e[i] < e[j]
    BY <1>3 DEF Picks
  <2>2. e[i] \in DOMAIN s /\ e[j] \in DOMAIN s /\ k[i] = s[e[i]] /\ k[j] = s[e[j]]
    BY <1>1, <1>5
  <2>3. s[e[i]].created >= s[e[j]].created
    BY <1>7, <2>1, <2>2 DEF Descends
  <2>. QED  BY <2>2, <2>3
<1>. QED  BY <1>1, <1>4, <1>6, <1>7 DEF k

-----------------------------------------------------------------------------
(* Seconds.                                                                 *)

LEMMA Multiples ==
  ASSUME NEW m \in Int, NEW n \in Int, NEW T \in Nat \ {0}, m < n
  PROVE  T * m + T <= T * n
<1>. DEFINE d == n - m
<1>1. d \in Nat /\ d # 0 /\ n = m + d
  OBVIOUS
<1>2. T * n = T * m + T * d
  BY <1>1
<1>3. T * d >= T
  <2>. HIDE DEF d
  <2>1. T * d = T + T * (d - 1) /\ T * (d - 1) >= 0
    BY <1>1
  <2>. QED  BY <1>1, <2>1
<1>4. T * m \in Int /\ T * d \in Int
  BY <1>1
<1>. QED  BY <1>2, <1>3, <1>4

\* What is left of a time is at most the time, and less than a second before it.
LEMMA SecondIs ==
  ASSUME NEW t \in Int
  PROVE  \E q \in Int : /\ Second(t) = TicksPerSecond * q
                        /\ Second(t) <= t /\ t < Second(t) + TicksPerSecond
<1>1. TicksPerSecond \in Nat \ {0}
  BY TrendsAssumption
<1>. DEFINE T == TicksPerSecond  q == t \div T  r == t % T
<1>2. q \in Int /\ r \in 0 .. T - 1 /\ t = T * q + r
  BY <1>1
<1>3. Second(t) = t - r
  BY DEF Second
<1>. HIDE DEF q, r, T
<1>4. T * q \in Int
  BY <1>1, <1>2 DEF T
<1>5. Second(t) = T * q /\ Second(t) <= t /\ t < Second(t) + T
  BY <1>1, <1>2, <1>3, <1>4 DEF T
<1>. QED  BY <1>2, <1>5 DEF T

\* Seconds keep the order of times.
LEMMA SecondOrder ==
  ASSUME NEW s \in Int, NEW t \in Int, s <= t
  PROVE  Second(s) <= Second(t) /\ Second(s) \in Int /\ Second(t) \in Int /\ Second(t) <= t
<1>. DEFINE T == TicksPerSecond
<1>1. T \in Nat \ {0}
  BY TrendsAssumption
<1>2. PICK p \in Int : Second(s) = T * p /\ Second(s) <= s
  BY SecondIs
<1>3. PICK q \in Int : Second(t) = T * q /\ Second(t) <= t /\ t < Second(t) + T
  BY SecondIs
<1>. HIDE DEF T
<1>4. T * p \in Int /\ T * q \in Int
  BY <1>1
<1>5. q < p => T * q + T <= T * p
  BY <1>1, Multiples
<1>6. p <= q => T * p <= T * q
  <2>1. p < q => T * p + T <= T * q
    BY <1>1, Multiples
  <2>. QED  BY <1>1, <1>4, <2>1
<1>. QED  BY <1>1, <1>2, <1>3, <1>4, <1>5, <1>6

\* A whole second that is no later than a time is no later than what is left of it.
LEMMA SecondOfWhole ==
  ASSUME NEW c \in Nat, c % TicksPerSecond = 0, NEW t \in Int, c <= t
  PROVE  c <= Second(t)
<1>1. Second(c) <= Second(t) /\ TicksPerSecond \in Nat \ {0}
  BY SecondOrder, TrendsAssumption
<1>2. Second(c) = c
  BY <1>1 DEF Second
<1>. QED  BY <1>1, <1>2

-----------------------------------------------------------------------------
(* Lists of runs.                                                           *)

\* list has the runs of a set from one second to another, the oldest left out if there
\* are more than the limit or ten pages.
ListSound(list, runs, from, to) ==
  /\ \A run \in ToSet(list) :
       run \in runs /\ Second(from) <= run.created /\ run.created <= Second(to)
  /\ \A run \in runs :
       Second(from) <= run.created /\ run.created <= Second(to) =>
         run \in ToSet(list) \/ CutOff(run, list)

\* A list is of one run at least, be the limit or the last page the nearer.
LEMMA LongestIs == Longest \in Nat \ {0}
BY TrendsAssumption DEF Longest, Lesser

\* What is listed of a history that is in order.
LEMMA ListedSound ==
  ASSUME history \in Seq(RunSpace), Descends(history), NEW from, NEW to
  PROVE  /\ Listed(from, to) \in Seq(RunSpace)
         /\ Len(Listed(from, to)) <= Longest
         /\ ListSound(Listed(from, to), ToSet(history), from, to)
<1>. DEFINE inRange == {run \in ToSet(history) :
                          Second(from) <= run.created /\ run.created <= Second(to)}
            all == Keeping(history, inRange)
            n == Lesser(Len(all), Longest)
            list == SubSeq(all, 1, n)
<1>1. Listed(from, to) = list
  BY DEF Listed
<1>2. /\ all \in Seq(RunSpace) /\ Descends(all)
      /\ \A x : x \in ToSet(all) <=> x \in ToSet(history) /\ x \in inRange
  <2>. HIDE DEF inRange
  <2>. QED  BY KeepingKeeps
<1>3. \A x : x \in ToSet(all) <=>
               x \in ToSet(history) /\ Second(from) <= x.created /\ x.created <= Second(to)
  BY <1>2
<1>4. Longest \in Nat \ {0}
  BY LongestIs
<1>. HIDE DEF all
<1>5. /\ Len(all) \in Nat /\ n \in Nat /\ n <= Len(all) /\ n <= Longest
      /\ n < Len(all) => n = Longest
  BY <1>2, <1>4 DEF Lesser
<1>. HIDE DEF n
<1>6. /\ list \in Seq(RunSpace) /\ Len(list) = n
      /\ \A i \in 1 .. n : list[i] = all[i] /\ i \in DOMAIN all
  BY <1>2, <1>5
<1>. HIDE DEF list
<1>7. ASSUME NEW run \in ToSet(list)
      PROVE  run \in ToSet(all)
  <2>1. PICK i \in 1 .. n : run = list[i]
    BY <1>6, <1>7 DEF ToSet
  <2>. QED  BY <1>6, <2>1 DEF ToSet
<1>8. ASSUME NEW run \in ToSet(all), run \notin ToSet(list)
      PROVE  CutOff(run, list)
  <2>1. PICK j \in DOMAIN all : run = all[j]
    BY <1>8 DEF ToSet
  <2>2. j \in 1 .. Len(all) /\ DOMAIN list = 1 .. n
    BY <1>2, <1>6, <2>1
  <2>3. j > n
    <3>1. j \notin 1 .. n
      BY <1>6, <1>8, <2>1, <2>2 DEF ToSet
    <3>. QED  BY <1>5, <2>2, <3>1
  <2>4. Len(list) = Longest
    BY <1>5, <1>6, <2>2, <2>3
  <2>5. ASSUME NEW newer \in ToSet(list)
        PROVE  newer.created >= run.created
    <3>1. PICK i \in 1 .. n : newer = list[i]
      BY <2>2, <2>5 DEF ToSet
    <3>2. i < j /\ i \in DOMAIN all /\ newer = all[i]
      BY <1>5, <1>6, <2>2, <2>3, <3>1
    <3>. QED  BY <1>2, <2>1, <3>2 DEF Descends
  <2>. QED  BY <2>4, <2>5 DEF CutOff
<1>9. ListSound(list, ToSet(history), from, to)
  BY <1>3, <1>7, <1>8 DEF ListSound
<1>. QED  BY <1>1, <1>4, <1>5, <1>6, <1>9

\* The runs of a workflow.
LEMMA FilterKeeps ==
  ASSUME NEW runs \in Seq(RunSpace)
  PROVE  /\ FilterByWorkflow(runs) \in Seq(RunSpace)
         /\ Len(FilterByWorkflow(runs)) <= Len(runs)
         /\ \A run : run \in ToSet(FilterByWorkflow(runs)) <=>
                       /\ run \in ToSet(runs)
                       /\ call.workflow = "" \/ call.workflow \in run.names
<1>1. CASE call.workflow = ""
  <2>1. FilterByWorkflow(runs) = runs
    BY <1>1 DEF FilterByWorkflow
  <2>2. Len(runs) <= Len(runs)
    OBVIOUS
  <2>. QED  BY <1>1, <2>1, <2>2, Zenon
<1>2. CASE call.workflow # ""
  <2>. DEFINE wanted == {run \in ToSet(runs) : call.workflow \in run.names}
  <2>1. FilterByWorkflow(runs) = Keeping(runs, wanted)
    BY <1>2 DEF FilterByWorkflow
  <2>2. /\ Keeping(runs, wanted) \in Seq(RunSpace)
        /\ Len(Keeping(runs, wanted)) <= Len(runs)
        /\ \A x : x \in ToSet(Keeping(runs, wanted)) <=> x \in ToSet(runs) /\ x \in wanted
    <3>. HIDE DEF wanted
    <3>. QED  BY KeepingKeeps
  <2>3. \A x : x \in wanted <=> x \in ToSet(runs) /\ call.workflow \in x.names
    OBVIOUS
  <2>. HIDE DEF wanted
  <2>. QED  BY <1>2, <2>1, <2>2, <2>3
<1>. QED  BY <1>1, <1>2

-----------------------------------------------------------------------------
(* The loop over the logs.                                                  *)

FailedOf(runs, n) == {i \in 1 .. n - 1 : RunFailed(runs[i])}

SeenOf(logs, t) == {i \in DOMAIN logs : t \in logs[i]}

\* time is the latest at which a run of a set of positions was updated.
Latest(runs, seen, time) ==
  /\ \E i \in seen : runs[i].updated = time
  /\ \A i \in seen : runs[i].updated <= time

\* Before the n-th run, count is the number of runs that failed, logs has the tests that
\* were named by those logs that could be read, and found what is known of each test.
LoopOf(runs, n, count, logs, found) ==
  /\ n \in 1 .. Len(runs) + 1
  /\ count = Cardinality(FailedOf(runs, n))
  /\ DOMAIN logs \subseteq FailedOf(runs, n)
  /\ \A i \in DOMAIN logs : logs[i] \subseteq Tests
  /\ DOMAIN found = UNION Range(logs)
  /\ \A t \in DOMAIN found :
       /\ found[t] \in [count : Nat, lastSeenAt : Nat]
       /\ found[t].count = Cardinality(SeenOf(logs, t))
       /\ Latest(runs, SeenOf(logs, t), found[t].lastSeenAt)

\* Positions are finitely many.
LEMMA FailedFinite ==
  ASSUME NEW runs, NEW n \in Nat \ {0}
  PROVE  /\ IsFiniteSet(FailedOf(runs, n))
         /\ Cardinality(FailedOf(runs, n)) \in 0 .. n - 1
<1>1. IsFiniteSet(1 .. n - 1) /\ Cardinality(1 .. n - 1) = n - 1
  BY FS_Interval
<1>2. FailedOf(runs, n) \subseteq 1 .. n - 1
  BY DEF FailedOf
<1>3. /\ IsFiniteSet(FailedOf(runs, n))
      /\ Cardinality(FailedOf(runs, n)) <= Cardinality(1 .. n - 1)
  BY <1>1, <1>2, FS_Subset
<1>4. Cardinality(FailedOf(runs, n)) \in Nat
  BY <1>3, FS_CardinalityType
<1>. QED  BY <1>1, <1>3, <1>4

\* One run more has failed or not.
LEMMA FailedNext ==
  ASSUME NEW runs, NEW n \in Nat \ {0}
  PROVE  /\ RunFailed(runs[n]) =>
              /\ n \notin FailedOf(runs, n)
              /\ FailedOf(runs, n + 1) = FailedOf(runs, n) \cup {n}
              /\ Cardinality(FailedOf(runs, n + 1)) = Cardinality(FailedOf(runs, n)) + 1
         /\ ~RunFailed(runs[n]) => FailedOf(runs, n + 1) = FailedOf(runs, n)
<1>1. n \notin 1 .. n - 1 /\ 1 .. n + 1 - 1 = 1 .. n - 1 \cup {n}
  OBVIOUS
<1>2. n \notin FailedOf(runs, n)
  BY <1>1 DEF FailedOf
<1>3. ASSUME RunFailed(runs[n])
      PROVE  FailedOf(runs, n + 1) = FailedOf(runs, n) \cup {n}
  BY <1>1, <1>3 DEF FailedOf
<1>4. ASSUME ~RunFailed(runs[n])
      PROVE  FailedOf(runs, n + 1) = FailedOf(runs, n)
  BY <1>1, <1>4 DEF FailedOf
<1>5. IsFiniteSet(FailedOf(runs, n))
  BY FailedFinite
<1>6. Cardinality(FailedOf(runs, n) \cup {n}) = Cardinality(FailedOf(runs, n)) + 1
  BY <1>2, <1>5, FS_AddElement
<1>. QED  BY <1>2, <1>3, <1>4, <1>6

\* The loop begins.
LEMMA LoopBegins ==
  ASSUME NEW runs \in Seq(RunSpace)
  PROVE  LoopOf(runs, 1, 0, <<>>, <<>>)
<1>1. 1 \in 1 .. Len(runs) + 1 /\ 1 .. 1 - 1 = {}
  OBVIOUS
<1>2. FailedOf(runs, 1) = {}
  BY <1>1 DEF FailedOf
<1>3. Cardinality({}) = 0
  BY FS_EmptySet
<1>4. DOMAIN <<>> = {}
  OBVIOUS
<1>5. UNION Range(<<>>) = {}
  BY <1>4, Zenon DEF Range
<1>. QED  BY <1>1, <1>2, <1>3, <1>4, <1>5, Zenon DEF LoopOf

\* It passes a run that has not failed, or one whose logs it cannot read.
LEMMA LoopPasses ==
  ASSUME NEW runs \in Seq(RunSpace), NEW n, NEW count, NEW logs, NEW found,
         LoopOf(runs, n, count, logs, found), n <= Len(runs)
  PROVE  /\ ~RunFailed(runs[n]) => LoopOf(runs, n + 1, count, logs, found)
         /\ RunFailed(runs[n]) => LoopOf(runs, n + 1, count + 1, logs, found)
<1>1. n \in Nat \ {0} /\ n + 1 \in 1 .. Len(runs) + 1
  BY DEF LoopOf
<1>2. ASSUME ~RunFailed(runs[n])
      PROVE  LoopOf(runs, n + 1, count, logs, found)
  <2>1. FailedOf(runs, n + 1) = FailedOf(runs, n)
    BY <1>1, <1>2, FailedNext
  <2>. QED  BY <1>1, <2>1, Zenon DEF LoopOf
<1>3. ASSUME RunFailed(runs[n])
      PROVE  LoopOf(runs, n + 1, count + 1, logs, found)
  <2>1. /\ FailedOf(runs, n + 1) = FailedOf(runs, n) \cup {n}
        /\ Cardinality(FailedOf(runs, n + 1)) = Cardinality(FailedOf(runs, n)) + 1
    BY <1>1, <1>3, FailedNext
  <2>2. DOMAIN logs \subseteq FailedOf(runs, n + 1)
    BY <2>1, Zenon DEF LoopOf
  <2>. QED  BY <1>1, <2>1, <2>2, Zenon DEF LoopOf
<1>. QED  BY <1>2, <1>3

\* It reads the logs of a run: each test that they name has failed once more, and its
\* latest failure is this one if it is later.
LEMMA SeenOneMore ==
  ASSUME NEW runs \in Seq(RunSpace), NEW n \in 1 .. Len(runs), NEW logs, NEW t,
         n \notin DOMAIN logs, DOMAIN logs \subseteq DOMAIN runs, IsFiniteSet(SeenOf(logs, t)),
         t \notin DOMAIN aggregates => SeenOf(logs, t) = {},
         t \in DOMAIN aggregates =>
           /\ aggregates[t] \in [count : Nat, lastSeenAt : Nat]
           /\ aggregates[t].count = Cardinality(SeenOf(logs, t))
           /\ Latest(runs, SeenOf(logs, t), aggregates[t].lastSeenAt)
  PROVE  /\ SeenIn(t, runs[n]) \in [count : Nat, lastSeenAt : Nat]
         /\ SeenIn(t, runs[n]).count = Cardinality(SeenOf(logs, t) \cup {n})
         /\ Latest(runs, SeenOf(logs, t) \cup {n}, SeenIn(t, runs[n]).lastSeenAt)
<1>. DEFINE seen == SeenOf(logs, t)  u == runs[n].updated
            entry == Entry(t)  e == SeenIn(t, runs[n])
<1>1. u \in Nat
  <2>1. runs[n] \in RunSpace
    OBVIOUS
  <2>. QED  BY <2>1 DEF RunSpace
<1>2. /\ entry.count = Cardinality(seen) /\ entry.count \in Nat
      /\ entry.lastSeenAt \in Nat \cup {NoTime}
      /\ entry.lastSeenAt = NoTime => seen = {}
      /\ entry.lastSeenAt # NoTime => Latest(runs, seen, entry.lastSeenAt)
  <2>1. CASE t \in DOMAIN aggregates
    <3>1. entry = aggregates[t]
      BY <2>1 DEF Entry
    <3>2. /\ entry.count \in Nat /\ entry.lastSeenAt \in Nat
          /\ entry.count = Cardinality(seen) /\ Latest(runs, seen, entry.lastSeenAt)
      BY <2>1, <3>1
    <3>3. entry.lastSeenAt # NoTime
      BY <3>2 DEF NoTime
    <3>. QED  BY <3>2, <3>3
  <2>2. CASE t \notin DOMAIN aggregates
    <3>1. entry.count = 0 /\ entry.lastSeenAt = NoTime
      BY <2>2 DEF Entry
    <3>2. seen = {} /\ Cardinality({}) = 0
      BY <2>2, FS_EmptySet
    <3>. QED  BY <3>1, <3>2
  <2>. QED  BY <2>1, <2>2
<1>3. Cardinality(seen \cup {n}) = Cardinality(seen) + 1
  <2>1. n \notin seen
    BY DEF SeenOf
  <2>. QED  BY <2>1, FS_AddElement
<1>4. /\ e = [count |-> entry.count + 1,
              lastSeenAt |-> IF u > entry.lastSeenAt THEN u ELSE entry.lastSeenAt]
  BY DEF SeenIn
<1>5. /\ e.count = entry.count + 1
      /\ u > entry.lastSeenAt => e.lastSeenAt = u
      /\ ~ (u > entry.lastSeenAt) => e.lastSeenAt = entry.lastSeenAt
  BY <1>4
<1>. HIDE DEF entry, u
<1>6. entry.lastSeenAt = NoTime => u > entry.lastSeenAt
  BY <1>1 DEF NoTime
<1>7. e.lastSeenAt \in Nat
  BY <1>1, <1>2, <1>5, <1>6
<1>8. e \in [count : Nat, lastSeenAt : Nat]
  BY <1>2, <1>4, <1>5, <1>7
<1>. HIDE DEF e, seen
<1>9. Latest(runs, seen \cup {n}, e.lastSeenAt)
  <2>1. CASE entry.lastSeenAt = NoTime
    <3>1. e.lastSeenAt = u /\ seen = {}
      BY <1>2, <1>5, <1>6, <2>1
    <3>2. u <= u
      BY <1>1
    <3>. QED  BY <3>1, <3>2, Zenon DEF Latest, u
  <2>2. CASE entry.lastSeenAt # NoTime /\ u > entry.lastSeenAt
    <3>1. e.lastSeenAt = u /\ u <= u
      BY <1>1, <1>5, <2>2
    <3>2. \E i \in seen \cup {n} : runs[i].updated = e.lastSeenAt
      BY <3>1 DEF u
    <3>3. ASSUME NEW i \in seen
          PROVE  runs[i].updated <= u
      <4>1. runs[i].updated <= entry.lastSeenAt /\ entry.lastSeenAt \in Nat
        BY <1>2, <2>2 DEF Latest
      <4>2. runs[i] \in RunSpace
        BY DEF seen, SeenOf
      <4>3. runs[i].updated \in Nat
        BY <4>2 DEF RunSpace
      <4>. QED  BY <1>1, <2>2, <4>1, <4>3
    <3>4. \A i \in seen \cup {n} : runs[i].updated <= e.lastSeenAt
      BY <3>1, <3>3, Zenon DEF u
    <3>. QED  BY <3>2, <3>4 DEF Latest
  <2>3. CASE entry.lastSeenAt # NoTime /\ ~ (u > entry.lastSeenAt)
    <3>1. e.lastSeenAt = entry.lastSeenAt /\ u <= entry.lastSeenAt
      BY <1>1, <1>2, <1>5, <2>3
    <3>2. Latest(runs, seen, entry.lastSeenAt)
      BY <1>2, <2>3
    <3>. QED  BY <3>1, <3>2, Zenon DEF Latest, u
  <2>. QED  BY <2>1, <2>2, <2>3
<1>. QED  BY <1>2, <1>3, <1>5, <1>8, <1>9 DEF e, seen

LEMMA LoopReads ==
  ASSUME NEW runs \in Seq(RunSpace), NEW n, NEW count,
         LoopOf(runs, n, count, named, aggregates), n <= Len(runs), RunFailed(runs[n]),
         NEW names \in SUBSET Tests
  PROVE  LoopOf(runs, n + 1, count + 1,
                [i \in DOMAIN named \cup {n} |-> IF i = n THEN names ELSE named[i]],
                [t \in DOMAIN aggregates \cup names |->
                   IF t \in names THEN SeenIn(t, runs[n]) ELSE aggregates[t]])
<1>. DEFINE logs == [i \in DOMAIN named \cup {n} |-> IF i = n THEN names ELSE named[i]]
            found == [t \in DOMAIN aggregates \cup names |->
                        IF t \in names THEN SeenIn(t, runs[n]) ELSE aggregates[t]]
            m == n + 1
<1>1. n \in 1 .. Len(runs) /\ m \in 1 .. Len(runs) + 1 /\ n \in Nat \ {0}
  BY DEF LoopOf
<1>2. /\ count = Cardinality(FailedOf(runs, n))
      /\ DOMAIN named \subseteq FailedOf(runs, n)
      /\ \A i \in DOMAIN named : named[i] \subseteq Tests
      /\ DOMAIN aggregates = UNION Range(named)
  BY DEF LoopOf
<1>3. /\ n \notin FailedOf(runs, n)
      /\ FailedOf(runs, m) = FailedOf(runs, n) \cup {n}
      /\ Cardinality(FailedOf(runs, m)) = Cardinality(FailedOf(runs, n)) + 1
  BY <1>1, FailedNext
<1>4. /\ n \notin DOMAIN named
      /\ DOMAIN logs = DOMAIN named \cup {n} /\ logs[n] = names
      /\ \A i \in DOMAIN named : logs[i] = named[i]
  BY <1>2, <1>3
<1>5. /\ DOMAIN found = DOMAIN aggregates \cup names
      /\ \A t \in names : found[t] = SeenIn(t, runs[n])
      /\ \A t \in DOMAIN aggregates \ names : found[t] = aggregates[t]
  OBVIOUS
<1>. HIDE DEF logs, found, m
<1>6. DOMAIN logs \subseteq FailedOf(runs, m)
  BY <1>2, <1>3, <1>4
<1>7. \A i \in DOMAIN logs : logs[i] \subseteq Tests
  BY <1>2, <1>4, Zenon
<1>8. DOMAIN found = UNION Range(logs)
  <2>1. Range(logs) = Range(named) \cup {names}
    BY <1>4, ZenonT(30) DEF Range
  <2>. QED  BY <1>2, <1>5, <2>1
<1>9. ASSUME NEW t
      PROVE  /\ IsFiniteSet(SeenOf(named, t))
             /\ t \in names => SeenOf(logs, t) = SeenOf(named, t) \cup {n}
             /\ t \notin names => SeenOf(logs, t) = SeenOf(named, t)
             /\ t \notin DOMAIN aggregates => SeenOf(named, t) = {}
  <2>1. IsFiniteSet(SeenOf(named, t))
    <3>1. SeenOf(named, t) \subseteq FailedOf(runs, n)
      BY <1>2 DEF SeenOf
    <3>. QED  BY <1>1, <3>1, FailedFinite, FS_Subset
  <2>2. t \in names => SeenOf(logs, t) = SeenOf(named, t) \cup {n}
    BY <1>4, Zenon DEF SeenOf
  <2>3. t \notin names => SeenOf(logs, t) = SeenOf(named, t)
    BY <1>4, Zenon DEF SeenOf
  <2>4. t \notin DOMAIN aggregates => SeenOf(named, t) = {}
    BY <1>2, Zenon DEF SeenOf, Range
  <2>. QED  BY <2>1, <2>2, <2>3, <2>4
<1>10. ASSUME NEW t \in DOMAIN found
       PROVE  /\ found[t] \in [count : Nat, lastSeenAt : Nat]
              /\ found[t].count = Cardinality(SeenOf(logs, t))
              /\ Latest(runs, SeenOf(logs, t), found[t].lastSeenAt)
  <2>1. t \in DOMAIN aggregates =>
          /\ aggregates[t] \in [count : Nat, lastSeenAt : Nat]
          /\ aggregates[t].count = Cardinality(SeenOf(named, t))
          /\ Latest(runs, SeenOf(named, t), aggregates[t].lastSeenAt)
    BY DEF LoopOf
  <2>2. CASE t \in names
    <3>1. /\ SeenIn(t, runs[n]) \in [count : Nat, lastSeenAt : Nat]
          /\ SeenIn(t, runs[n]).count = Cardinality(SeenOf(named, t) \cup {n})
          /\ Latest(runs, SeenOf(named, t) \cup {n}, SeenIn(t, runs[n]).lastSeenAt)
      <4>1. DOMAIN named \subseteq DOMAIN runs
        BY <1>1, <1>2 DEF FailedOf
      <4>. QED  BY <1>1, <1>4, <1>9, <2>1, <4>1, SeenOneMore
    <3>. QED  BY <1>5, <1>9, <2>2, <3>1
  <2>3. CASE t \notin names
    BY <1>5, <1>9, <2>1, <2>3
  <2>. QED  BY <2>2, <2>3
<1>11. LoopOf(runs, m, count + 1, logs, found)
  BY <1>1, <1>2, <1>3, <1>6, <1>7, <1>8, <1>10, Zenon DEF LoopOf
<1>. QED  BY <1>11 DEF logs, found, m

\* What the loop knows: the logs that name a test are of failed runs, each of which counts
\* once,
LEMMA LoopCounts ==
  ASSUME NEW runs \in Seq(RunSpace), NEW n, NEW count, NEW logs, NEW found,
         LoopOf(runs, n, count, logs, found), NEW t \in DOMAIN found
  PROVE  /\ found[t].count \in Nat \ {0}
         /\ found[t].count + Cardinality(FailedOf(runs, n) \ DOMAIN logs) <= count
<1>. DEFINE failed == FailedOf(runs, n)  seen == SeenOf(logs, t)
            unread == failed \ DOMAIN logs
<1>1. n \in Nat \ {0} /\ n <= Len(runs) + 1
  BY DEF LoopOf
<1>2. /\ count = Cardinality(failed)
      /\ DOMAIN logs \subseteq failed
      /\ found[t].count = Cardinality(seen)
      /\ Latest(runs, seen, found[t].lastSeenAt)
  BY DEF LoopOf
<1>3. IsFiniteSet(failed)
  BY <1>1, FailedFinite
<1>4. seen \subseteq failed /\ seen \cap unread = {} /\ seen \cup unread \subseteq failed
  BY <1>2 DEF SeenOf
<1>5. seen # {}
  BY <1>2 DEF Latest
<1>6. unread \subseteq failed
  OBVIOUS
<1>. HIDE DEF failed, seen, unread
<1>7. /\ IsFiniteSet(seen) /\ IsFiniteSet(unread)
      /\ Cardinality(seen) \in Nat /\ Cardinality(unread) \in Nat
      /\ Cardinality(seen \cup unread) <= Cardinality(failed)
  <2>1. IsFiniteSet(seen) /\ IsFiniteSet(unread)
    BY <1>3, <1>4, <1>6, FS_Subset
  <2>2. Cardinality(seen \cup unread) <= Cardinality(failed)
    BY <1>3, <1>4, FS_Subset
  <2>. QED  BY <2>1, <2>2, FS_CardinalityType
<1>8. Cardinality(seen \cup unread) = Cardinality(seen) + Cardinality(unread)
  <2>1. Cardinality(seen \cup unread)
          = Cardinality(seen) + Cardinality(unread) - Cardinality(seen \cap unread)
    BY <1>7, FS_Union
  <2>2. Cardinality(seen \cap unread) = 0
    BY <1>4, FS_EmptySet
  <2>. QED  BY <1>7, <2>1, <2>2
<1>9. Cardinality(seen) # 0
  BY <1>5, <1>7, FS_EmptySet
<1>. QED  BY <1>2, <1>7, <1>8, <1>9 DEF failed, seen, unread

LastOf(runs, seen) == Max({runs[i].updated : i \in seen})

\* and the latest of them is the greatest of their times.
LEMMA LoopLatest ==
  ASSUME NEW runs \in Seq(RunSpace), NEW n, NEW count, NEW logs, NEW found,
         LoopOf(runs, n, count, logs, found), NEW t \in DOMAIN found
  PROVE  found[t].lastSeenAt = LastOf(runs, SeenOf(logs, t))
<1>. DEFINE seen == SeenOf(logs, t)  last == found[t].lastSeenAt
            times == {runs[i].updated : i \in seen}
<1>1. n \in Nat \ {0} /\ n <= Len(runs) + 1
  BY DEF LoopOf
<1>2. /\ DOMAIN logs \subseteq FailedOf(runs, n)
      /\ found[t] \in [count : Nat, lastSeenAt : Nat]
      /\ Latest(runs, seen, last)
  BY DEF LoopOf
<1>3. last \in Nat
  BY <1>2
<1>4. PICK i \in seen : runs[i].updated = last
  BY <1>2 DEF Latest
<1>5. ASSUME NEW j \in seen
      PROVE  runs[j].updated \in Nat /\ runs[j].updated <= last
  <2>1. j \in 1 .. Len(runs)
    BY <1>1, <1>2 DEF SeenOf, FailedOf
  <2>2. runs[j] \in RunSpace
    BY <2>1
  <2>. QED  BY <1>2, <2>2 DEF RunSpace, Latest
<1>. HIDE DEF seen, last
<1>6. last \in times /\ \A x \in times : x \in Nat /\ last >= x
  BY <1>3, <1>4, <1>5
<1>. HIDE DEF times
<1>7. \A x \in times : (\A y \in times : x >= y) => x = last
  BY <1>3, <1>6
<1>8. last = Max(times)
  BY <1>6, <1>7 DEF Max
<1>. QED  BY <1>8 DEF LastOf, last, times, seen

-----------------------------------------------------------------------------
(* The report.                                                              *)

\* list has tests that were found, and none that it leaves out failed more often than one
\* of those.
TopSound(found, list) ==
  /\ list \in Seq(Tests) /\ Len(list) <= TopSize
  /\ \A t \in DOMAIN found \ ToSet(list) :
       /\ Len(list) = TopSize
       /\ \A i \in DOMAIN list : found[list[i]].count >= found[t].count

\* An order of all tests has each of them, so those left out come after the top.
LEMMA TopOfRecords ==
  ASSUME DOMAIN aggregates \subseteq Tests,
         NEW records \in SetToSeqs(DOMAIN aggregates),
         \A i, j \in DOMAIN records :
           i < j => aggregates[records[i]].count >= aggregates[records[j]].count
  PROVE  TopSound(aggregates, SubSeq(records, 1, Lesser(Len(records), TopSize)))
<1>. DEFINE D == DOMAIN aggregates  N == Cardinality(D)
            n == Lesser(Len(records), TopSize)  list == SubSeq(records, 1, n)
<1>1. IsFiniteSet(D) /\ N \in Nat
  BY TrendsAssumption, FS_Subset, FS_CardinalityType
<1>2. /\ records \in [1 .. N -> D]
      /\ \A i, j \in 1 .. N : i # j => records[i] # records[j]
  BY DEF SetToSeqs
<1>3. IsFiniteSet(1 .. N) /\ Cardinality(1 .. N) = N
  BY <1>1, FS_Interval
<1>. HIDE DEF N, D
<1>4. records \in Injection(1 .. N, D)
  BY <1>2 DEF Injection, IsInjective
<1>5. records \in Surjection(1 .. N, D)
  BY <1>1, <1>3, <1>4, FS_Injection DEF N
<1>6. \A t \in D : \E i \in 1 .. N : records[i] = t
  BY <1>5 DEF Surjection
<1>7. records \in Seq(D) /\ Len(records) = N /\ D \subseteq Tests
  BY <1>1, <1>2 DEF D
<1>8. TopSize \in Nat \ {0}
  BY TrendsAssumption
<1>9. n \in Nat /\ n <= N /\ n <= TopSize /\ (n < N => n = TopSize)
  BY <1>1, <1>7, <1>8 DEF Lesser
<1>. HIDE DEF n
<1>10. list \in Seq(Tests) /\ Len(list) = n /\ \A i \in 1 .. n : list[i] = records[i]
  BY <1>1, <1>7, <1>9
<1>. HIDE DEF list
<1>11. ASSUME NEW t \in D \ ToSet(list)
       PROVE  /\ Len(list) = TopSize
              /\ \A i \in DOMAIN list : aggregates[list[i]].count >= aggregates[t].count
  <2>1. PICK j \in 1 .. N : records[j] = t
    BY <1>6, <1>11
  <2>2. DOMAIN list = 1 .. n
    BY <1>10
  <2>3. j > n
    <3>1. j \notin 1 .. n
      BY <1>10, <1>11, <2>1, <2>2 DEF ToSet
    <3>. QED  BY <1>1, <1>9, <3>1
  <2>4. n = TopSize
    BY <1>1, <1>9, <2>3
  <2>5. ASSUME NEW i \in 1 .. n
        PROVE  aggregates[list[i]].count >= aggregates[t].count
    <3>1. i \in DOMAIN records /\ j \in DOMAIN records /\ i < j /\ list[i] = records[i]
      BY <1>1, <1>2, <1>9, <1>10, <2>3
    <3>. QED  BY <2>1, <3>1
  <2>. QED  BY <1>10, <2>2, <2>4, <2>5
<1>12. TopSound(aggregates, list)
  BY <1>9, <1>10, <1>11 DEF TopSound, D
<1>. QED  BY <1>12 DEF list, n

-----------------------------------------------------------------------------
(* The provider's runs.                                                     *)

\* runs are a history that a call has seen begin as was: newest first, and a run that is
\* in both has kept the time of its creation and its names.
HistorySound(runs, was, time) ==
  /\ runs \in Seq(RunSpace)
  /\ Descends(runs)
  /\ \A run \in ToSet(runs) : run.created <= time
  /\ \A run \in ToSet(runs), old \in ToSet(was) :
       run.id = old.id => run.created = old.created /\ run.names = old.names

\* The runs that the provider begins with.
LEMMA FirstSound ==
  ASSUME NEW h \in Histories
  PROVE  /\ HistorySound(h, h, Start)
         /\ \A run \in ToSet(h) : run.id <= Len(h) /\ run.created % TicksPerSecond = 0
<1>1. /\ h \in Seq(RunSpace)
      /\ \A i \in DOMAIN h :
           /\ h[i].id <= Len(h)
           /\ h[i].created <= Start /\ h[i].created % TicksPerSecond = 0
           /\ \A j \in DOMAIN h : i < j => h[i].id # h[j].id /\ h[i].created >= h[j].created
  BY TrendsAssumption
<1>2. ASSUME NEW i \in DOMAIN h, NEW j \in DOMAIN h, h[i].id = h[j].id
      PROVE  i = j
  <2>1. i \in Int /\ j \in Int
    BY <1>1
  <2>2. ~ (i < j) /\ ~ (j < i)
    BY <1>1, <1>2
  <2>. QED  BY <2>1, <2>2
<1>3. \A run \in ToSet(h), old \in ToSet(h) : run.id = old.id => run = old
  BY <1>2, Zenon DEF ToSet
<1>4. Descends(h)
  BY <1>1 DEF Descends
<1>5. \A run \in ToSet(h) :
        /\ run.id <= Len(h) /\ run.created <= Start /\ run.created % TicksPerSecond = 0
  BY <1>1, Zenon DEF ToSet
<1>. QED  BY <1>1, <1>3, <1>4, <1>5, Zenon DEF HistorySound

\* Time passes,
LEMMA SoundLater ==
  ASSUME NEW runs, NEW was, NEW s \in Nat, NEW t \in Nat, s <= t, HistorySound(runs, was, s)
  PROVE  HistorySound(runs, was, t)
<1>1. ASSUME NEW run \in ToSet(runs)
      PROVE  run.created <= t
  <2>1. run.created <= s /\ runs \in Seq(RunSpace)
    BY DEF HistorySound
  <2>2. run \in RunSpace
    BY <2>1 DEF ToSet
  <2>3. run.created \in Nat
    BY <2>2 DEF RunSpace
  <2>. QED  BY <2>1, <2>3
<1>. QED  BY <1>1, Zenon DEF HistorySound

\* a run is added that is new,
LEMMA SoundCons ==
  ASSUME NEW runs, NEW was, NEW t \in Nat, HistorySound(runs, was, t),
         NEW new \in RunSpace, new.created = t, \A old \in ToSet(was) : old.id # new.id
  PROVE  HistorySound(Cons(new, runs), was, t)
<1>. DEFINE more == Cons(new, runs)
<1>1. /\ runs \in Seq(RunSpace) /\ Descends(runs)
      /\ \A run \in ToSet(runs) : run.created <= t
  BY DEF HistorySound
<1>2. /\ more \in Seq(RunSpace) /\ Len(more) = Len(runs) + 1 /\ more[1] = new
      /\ \A i \in 2 .. Len(runs) + 1 : more[i] = runs[i - 1] /\ i - 1 \in DOMAIN runs
  BY <1>1 DEF Cons
<1>. HIDE DEF more
<1>3. DOMAIN more = 1 .. Len(runs) + 1 /\ Len(runs) \in Nat
  BY <1>1, <1>2
<1>4. \A i \in DOMAIN more : i = 1 \/ i \in 2 .. Len(runs) + 1
  BY <1>3
<1>5. ASSUME NEW run \in ToSet(more)
      PROVE  run = new \/ run \in ToSet(runs)
  <2>1. PICK i \in DOMAIN more : run = more[i]
    BY DEF ToSet
  <2>2. CASE i = 1
    BY <1>2, <2>1, <2>2
  <2>3. CASE i \in 2 .. Len(runs) + 1
    <3>1. run = runs[i - 1] /\ i - 1 \in DOMAIN runs
      BY <1>2, <2>1, <2>3
    <3>. QED  BY <3>1 DEF ToSet
  <2>. QED  BY <1>4, <2>2, <2>3
<1>6. ASSUME NEW i \in DOMAIN more, NEW j \in DOMAIN more, i < j
      PROVE  more[i].created >= more[j].created
  <2>1. j \in 2 .. Len(runs) + 1
    BY <1>3, <1>6
  <2>2. more[j] = runs[j - 1] /\ j - 1 \in DOMAIN runs
    BY <1>2, <2>1
  <2>3. CASE i = 1
    <3>1. runs[j - 1] \in ToSet(runs) /\ runs[j - 1] \in RunSpace
      BY <1>1, <2>2 DEF ToSet
    <3>2. runs[j - 1].created <= t /\ runs[j - 1].created \in Nat
      BY <1>1, <3>1 DEF RunSpace
    <3>. QED  BY <1>2, <2>2, <2>3, <3>2
  <2>4. CASE i # 1
    <3>1. i \in 2 .. Len(runs) + 1
      BY <1>4, <2>4
    <3>2. more[i] = runs[i - 1] /\ i - 1 \in DOMAIN runs /\ i - 1 < j - 1
      BY <1>2, <1>3, <1>6, <3>1
    <3>. QED  BY <1>1, <2>2, <3>2 DEF Descends
  <2>. QED  BY <2>3, <2>4
<1>7. \A run \in ToSet(more) : run.created <= t
  <2>1. t <= t
    OBVIOUS
  <2>. QED  BY <1>1, <1>5, <2>1, Zenon
<1>8. \A run \in ToSet(more), old \in ToSet(was) :
        run.id = old.id => run.created = old.created /\ run.names = old.names
  BY <1>5, Zenon DEF HistorySound
<1>9. Descends(more)
  BY <1>6 DEF Descends
<1>. QED  BY <1>2, <1>7, <1>8, <1>9, Zenon DEF HistorySound, more

\* one changes but keeps its id, creation and names,
LEMMA SoundExcept ==
  ASSUME NEW runs, NEW was, NEW t, HistorySound(runs, was, t),
         NEW i \in DOMAIN runs, NEW new \in RunSpace, new.id = runs[i].id,
         new.created = runs[i].created, new.names = runs[i].names
  PROVE  HistorySound([runs EXCEPT ![i] = new], was, t)
<1>. DEFINE changed == [runs EXCEPT ![i] = new]
<1>1. /\ runs \in Seq(RunSpace) /\ Descends(runs)
      /\ \A run \in ToSet(runs) : run.created <= t
      /\ \A run \in ToSet(runs), old \in ToSet(was) :
           run.id = old.id => run.created = old.created /\ run.names = old.names
  BY DEF HistorySound
<1>2. changed \in Seq(RunSpace) /\ DOMAIN changed = DOMAIN runs
  BY <1>1
<1>3. ASSUME NEW j \in DOMAIN runs
      PROVE  /\ changed[j].id = runs[j].id
             /\ changed[j].created = runs[j].created
             /\ changed[j].names = runs[j].names
  <2>1. CASE j = i
    BY <1>1, <2>1
  <2>2. CASE j # i
    BY <1>1, <2>2
  <2>. QED  BY <2>1, <2>2
<1>. HIDE DEF changed
<1>4. Descends(changed)
  BY <1>1, <1>2, <1>3 DEF Descends
<1>5. ASSUME NEW run \in ToSet(changed)
      PROVE  /\ run.created <= t
             /\ \A old \in ToSet(was) :
                  run.id = old.id => run.created = old.created /\ run.names = old.names
  <2>1. PICK j \in DOMAIN runs : run = changed[j]
    BY <1>2 DEF ToSet
  <2>2. runs[j] \in ToSet(runs)
    BY DEF ToSet
  <2>3. run.id = runs[j].id /\ run.created = runs[j].created /\ run.names = runs[j].names
    BY <1>3, <2>1
  <2>. QED  BY <1>1, <2>2, <2>3, Zenon
<1>. QED  BY <1>2, <1>4, <1>5, Zenon DEF HistorySound, changed

\* What a sequence of two parts holds.
LEMMA Joined ==
  ASSUME NEW S, NEW s \in Seq(S), NEW t \in Seq(S)
  PROVE  /\ s \o t \in Seq(S)
         /\ Len(s \o t) = Len(s) + Len(t)
         /\ \A j \in 1 .. Len(s) : (s \o t)[j] = s[j]
         /\ \A j \in 1 .. Len(t) : (s \o t)[Len(s) + j] = t[j]
<1>1. s \o t \in Seq(S) /\ Len(s \o t) = Len(s) + Len(t)
  OBVIOUS
<1>2. ASSUME NEW j \in 1 .. Len(s)
      PROVE  (s \o t)[j] = s[j]
  OBVIOUS
<1>3. ASSUME NEW j \in 1 .. Len(t)
      PROVE  (s \o t)[Len(s) + j] = t[j]
  OBVIOUS
<1>. QED  BY <1>1, <1>2, <1>3

\* or one is removed.
LEMMA SoundRemoveAt ==
  ASSUME NEW runs, NEW was, NEW t, HistorySound(runs, was, t), NEW i \in DOMAIN runs
  PROVE  HistorySound(RemoveAt(runs, i), was, t)
<1>. DEFINE before == SubSeq(runs, 1, i - 1)  after == SubSeq(runs, i + 1, Len(runs))
            less == before \o after
<1>1. /\ runs \in Seq(RunSpace) /\ Descends(runs)
      /\ \A run \in ToSet(runs) : run.created <= t
      /\ \A run \in ToSet(runs), old \in ToSet(was) :
           run.id = old.id => run.created = old.created /\ run.names = old.names
  BY DEF HistorySound
<1>2. i \in 1 .. Len(runs) /\ Len(runs) \in Nat /\ DOMAIN runs = 1 .. Len(runs)
  BY <1>1
<1>3. /\ before \in Seq(RunSpace) /\ Len(before) = i - 1
      /\ \A j \in 1 .. i - 1 : before[j] = runs[j]
  BY <1>1, <1>2
<1>4. /\ after \in Seq(RunSpace) /\ Len(after) = Len(runs) - i
      /\ \A j \in 1 .. Len(runs) - i : after[j] = runs[i + j]
  BY <1>1, <1>2
<1>5. RemoveAt(runs, i) = less
  BY DEF RemoveAt
<1>. HIDE DEF before, after
<1>6. /\ less \in Seq(RunSpace) /\ Len(less) = Len(before) + Len(after)
      /\ \A j \in 1 .. Len(before) : less[j] = before[j]
      /\ \A j \in 1 .. Len(after) : less[Len(before) + j] = after[j]
  <2>1. before \in Seq(RunSpace) /\ after \in Seq(RunSpace)
    BY <1>3, <1>4
  <2>. QED  BY <2>1, Joined
<1>. HIDE DEF less
<1>. DEFINE from(j) == IF j < i THEN j ELSE j + 1
<1>7. DOMAIN less = 1 .. Len(runs) - 1
  BY <1>2, <1>3, <1>4, <1>6
<1>8. ASSUME NEW j \in DOMAIN less
      PROVE  from(j) \in DOMAIN runs /\ less[j] = runs[from(j)]
  <2>1. j \in 1 .. Len(runs) - 1
    BY <1>7
  <2>2. CASE j < i
    <3>1. j \in 1 .. i - 1
      BY <2>1, <2>2, <1>2
    <3>2. less[j] = before[j] /\ before[j] = runs[j]
      BY <1>3, <1>6, <3>1
    <3>. QED  BY <1>2, <2>1, <2>2, <3>2
  <2>3. CASE ~ (j < i)
    <3>1. j - (i - 1) \in 1 .. Len(runs) - i /\ (i - 1) + (j - (i - 1)) = j
          /\ i + (j - (i - 1)) = j + 1
      BY <1>2, <2>1, <2>3
    <3>2. after[j - (i - 1)] = runs[j + 1]
      BY <1>4, <3>1
    <3>3. less[(i - 1) + (j - (i - 1))] = after[j - (i - 1)]
      BY <1>3, <1>4, <1>6, <3>1
    <3>. QED  BY <1>2, <2>1, <2>3, <3>1, <3>2, <3>3
  <2>. QED  BY <2>2, <2>3
<1>9. ASSUME NEW j \in DOMAIN less, NEW k \in DOMAIN less, j < k
      PROVE  from(j) < from(k)
  BY <1>2, <1>7, <1>9
<1>. HIDE DEF from
<1>10. Descends(less)
  BY <1>1, <1>8, <1>9 DEF Descends
<1>11. ToSet(less) \subseteq ToSet(runs)
  BY <1>8, Zenon DEF ToSet
<1>. QED  BY <1>1, <1>5, <1>6, <1>10, <1>11, Zenon DEF HistorySound

-----------------------------------------------------------------------------
(* The snapshot of a window.                                                *)

\* The positions of the numbers that are smaller than a number, and of those that are not
\* greater.
Below(v, x) == {i \in DOMAIN v : v[i] < x}
UpTo(v, x)  == {i \in DOMAIN v : v[i] <= x}

\* There is a number that none of a sequence exceeds.
LEMMA BoundExists ==
  ASSUME NEW N \in Nat, NEW v \in [1 .. N -> Nat]
  PROVE  \E b \in Nat : \A i \in 1 .. N : v[i] <= b
<1>. DEFINE Has(n) == \E b \in Nat : \A i \in 1 .. n : v[i] <= b
            G == {n \in 0 .. N : Has(n)}
<1>1. 0 \in G
  <2>1. 1 .. 0 = {} /\ 0 \in 0 .. N
    OBVIOUS
  <2>. QED  BY <2>1
<1>2. ASSUME NEW n \in 1 .. N, n - 1 \in G
      PROVE  n \in G
  <2>1. PICK b \in Nat : \A i \in 1 .. n - 1 : v[i] <= b
    BY <1>2
  <2>. DEFINE c == IF b < v[n] THEN v[n] ELSE b
  <2>2. \A i \in 1 .. n : v[i] \in Nat /\ (i = n \/ i \in 1 .. n - 1)
    OBVIOUS
  <2>3. c \in Nat /\ b <= c /\ v[n] <= c
    OBVIOUS
  <2>. HIDE DEF c
  <2>4. \A i \in 1 .. n : v[i] <= c
    BY <2>1, <2>2, <2>3
  <2>. QED  BY <2>3, <2>4
<1>. HIDE DEF G
<1>3. N \in G
  <2>1. N \in 0 .. N
    OBVIOUS
  <2>. QED  BY <1>1, <1>2, <2>1, Induction
<1>. QED  BY <1>3 DEF G

\* The n-th of the sorted values.
LEMMA SortedIs ==
  ASSUME NEW v \in Seq(Nat), NEW n \in 1 .. Len(v)
  PROVE  /\ Sorted(v, n) \in Nat
         /\ Cardinality(Below(v, Sorted(v, n))) < n
         /\ Cardinality(UpTo(v, Sorted(v, n))) >= n
<1>. DEFINE P(x) == Cardinality(Below(v, x)) < n /\ Cardinality(UpTo(v, x)) >= n
            T == {x \in Nat : Cardinality(UpTo(v, x)) >= n}
<1>1. Len(v) \in Nat /\ DOMAIN v = 1 .. Len(v) /\ \A i \in DOMAIN v : v[i] \in Nat
  OBVIOUS
<1>2. /\ IsFiniteSet(DOMAIN v) /\ Cardinality(DOMAIN v) = Len(v)
      /\ \A x : /\ IsFiniteSet(UpTo(v, x)) /\ Cardinality(UpTo(v, x)) \in Nat
                /\ IsFiniteSet(Below(v, x)) /\ Cardinality(Below(v, x)) \in Nat
  <2>1. IsFiniteSet(DOMAIN v) /\ Cardinality(DOMAIN v) = Len(v)
    BY <1>1, FS_Interval
  <2>2. \A x : UpTo(v, x) \subseteq DOMAIN v /\ Below(v, x) \subseteq DOMAIN v
    BY DEF UpTo, Below
  <2>. QED  BY <2>1, <2>2, FS_Subset, FS_CardinalityType
<1>3. T # {}
  <2>1. PICK b \in Nat : \A i \in DOMAIN v : v[i] <= b
    <3>1. v \in [1 .. Len(v) -> Nat]
      BY <1>1
    <3>. QED  BY <1>1, <3>1, BoundExists
  <2>2. UpTo(v, b) = DOMAIN v
    BY <2>1 DEF UpTo
  <2>3. b \in T
    BY <1>1, <1>2, <2>2
  <2>. QED  BY <2>3
<1>4. PICK x \in T : \A y \in T : x <= y
  <2>. HIDE DEF T
  <2>1. T \subseteq Nat
    BY DEF T
  <2>. QED  BY <1>3, <2>1, Least
<1>5. Cardinality(Below(v, x)) < n
  <2>1. CASE x = 0
    <3>1. Below(v, x) = {}
      BY <1>1, <2>1 DEF Below
    <3>. QED  BY <3>1, FS_EmptySet
  <2>2. CASE x # 0
    <3>1. x - 1 \in Nat /\ ~ (x <= x - 1)
      BY <2>2
    <3>2. x - 1 \notin T
      BY <1>4, <3>1
    <3>3. Below(v, x) = UpTo(v, x - 1)
      BY <1>1, <3>1 DEF Below, UpTo
    <3>. QED  BY <1>2, <3>1, <3>2, <3>3
  <2>. QED  BY <2>1, <2>2
<1>6. x \in Range(v)
  <2>1. Below(v, x) # UpTo(v, x)
    BY <1>2, <1>5
  <2>2. PICK i \in DOMAIN v : v[i] <= x /\ ~ (v[i] < x)
    BY <1>1, <2>1 DEF Below, UpTo
  <2>3. v[i] = x
    BY <1>1, <2>2
  <2>. QED  BY <2>3 DEF Range
<1>7. \E y \in Range(v) : P(y)
  BY <1>5, <1>6
<1>8. Sorted(v, n) = CHOOSE y \in Range(v) : P(y)
  BY DEF Sorted, Quantify, Below, UpTo
<1>. HIDE DEF P
<1>9. Sorted(v, n) \in Range(v) /\ P(Sorted(v, n))
  BY <1>7, <1>8
<1>10. Range(v) \subseteq Nat
  BY <1>1 DEF Range
<1>. QED  BY <1>9, <1>10 DEF P

\* The median splits the numbers in two.
LEMMA MedianSplits ==
  ASSUME NEW v \in Seq(Nat), v # <<>>
  PROVE  /\ MedianOf(v) \in Nat
         /\ 2 * Cardinality({i \in DOMAIN v : v[i] < MedianOf(v)}) <= Len(v)
         /\ 2 * Cardinality({i \in DOMAIN v : v[i] > MedianOf(v)}) <= Len(v)
<1>. DEFINE N == Len(v)  h == N \div 2  a == Sorted(v, h)  b == Sorted(v, h + 1)
            m == MedianOf(v)
            D == DOMAIN v
            less == {i \in D : v[i] < m}
            more == {i \in D : v[i] > m}
<1>1. N \in Nat \ {0} /\ DOMAIN v = 1 .. N /\ \A i \in DOMAIN v : v[i] \in Nat
  OBVIOUS
<1>2. /\ h \in Nat /\ h + 1 \in 1 .. N
      /\ N % 2 = 0 => N = 2 * h /\ h \in 1 .. N
      /\ N % 2 # 0 => N = 2 * h + 1
  <2>1. N \in Nat \ {0}
    BY <1>1
  <2>. HIDE DEF N
  <2>. QED  BY <2>1
<1>3. b \in Nat /\ Cardinality(Below(v, b)) < h + 1 /\ Cardinality(UpTo(v, b)) >= h + 1
  <2>. HIDE DEF h
  <2>. QED  BY <1>2, SortedIs
<1>4. N % 2 = 0 => /\ a \in Nat
                   /\ Cardinality(Below(v, a)) < h /\ Cardinality(UpTo(v, a)) >= h
  <2>. HIDE DEF h
  <2>. QED  BY <1>2, SortedIs
<1>5. m = IF N % 2 = 0 THEN (a + b) \div 2 ELSE b
  BY DEF MedianOf
<1>6. IsFiniteSet(D) /\ Cardinality(D) = N
  BY <1>1, FS_Interval
<1>7. ASSUME NEW A, NEW B, A \subseteq B, B \subseteq D
      PROVE  /\ IsFiniteSet(A) /\ IsFiniteSet(B)
             /\ Cardinality(A) \in Nat /\ Cardinality(B) \in Nat
             /\ Cardinality(A) <= Cardinality(B)
  BY <1>6, <1>7, FS_Subset, FS_CardinalityType
<1>8. ASSUME NEW x \in Nat
      PROVE  /\ Below(v, x) \subseteq UpTo(v, x) /\ UpTo(v, x) \subseteq D
             /\ Cardinality({i \in D : v[i] > x}) = N - Cardinality(UpTo(v, x))
  <2>1. Below(v, x) \subseteq UpTo(v, x) /\ UpTo(v, x) \subseteq D
    BY <1>1 DEF Below, UpTo
  <2>2. D \ UpTo(v, x) = {i \in D : v[i] > x}
    BY <1>1 DEF UpTo
  <2>3. D \cap UpTo(v, x) = UpTo(v, x)
    BY <2>1
  <2>4. Cardinality(D \ UpTo(v, x)) = Cardinality(D) - Cardinality(D \cap UpTo(v, x))
    BY <1>6, FS_Difference
  <2>. QED  BY <1>6, <2>1, <2>2, <2>3, <2>4
<1>. HIDE DEF N, h, a, b, m
<1>9. N % 2 = 0 => a <= b
  <2>. SUFFICES ASSUME N % 2 = 0, ~ (a <= b)
                PROVE  FALSE
    OBVIOUS
  <2>1. UpTo(v, b) \subseteq Below(v, a)
    BY <1>1, <1>3, <1>4 DEF UpTo, Below
  <2>2. Below(v, a) \subseteq D
    BY DEF Below
  <2>3. Cardinality(UpTo(v, b)) <= Cardinality(Below(v, a))
        /\ Cardinality(UpTo(v, b)) \in Nat /\ Cardinality(Below(v, a)) \in Nat
    BY <1>7, <2>1, <2>2
  <2>. QED  BY <1>2, <1>3, <1>4, <2>3
\* The median is no more than b, before which no more than half of them are; and it is
\* no less than a, the one before b, if their number is even.
<1>10. m \in Nat /\ m <= b /\ (N % 2 = 0 => a <= m) /\ (N % 2 # 0 => m = b)
  BY <1>3, <1>4, <1>5, <1>9
<1>11. 2 * Cardinality(less) <= N
  <2>1. less \subseteq Below(v, b)
    BY <1>1, <1>3, <1>10 DEF Below
  <2>2. Below(v, b) \subseteq D
    BY DEF Below
  <2>3. Cardinality(less) <= Cardinality(Below(v, b))
        /\ Cardinality(less) \in Nat /\ Cardinality(Below(v, b)) \in Nat
    BY <1>7, <2>1, <2>2
  <2>. QED  BY <1>1, <1>2, <1>3, <2>3
<1>12. 2 * Cardinality(more) <= N
  <2>. DEFINE k == IF N % 2 = 0 THEN a ELSE b
              above == {i \in D : v[i] > k}
  <2>1. k \in Nat /\ k <= m
    BY <1>3, <1>4, <1>10
  <2>2. Cardinality(UpTo(v, k)) >= IF N % 2 = 0 THEN h ELSE h + 1
    BY <1>3, <1>4
  <2>. HIDE DEF k
  <2>3. UpTo(v, k) \subseteq D /\ Cardinality(above) = N - Cardinality(UpTo(v, k))
    BY <1>8, <2>1
  <2>4. more \subseteq above /\ above \subseteq D
    BY <1>1, <1>10, <2>1
  <2>. HIDE DEF above, more
  <2>5. /\ Cardinality(more) <= Cardinality(above)
        /\ Cardinality(more) \in Nat /\ Cardinality(above) \in Nat
    BY <1>7, <2>4
  <2>6. Cardinality(UpTo(v, k)) \in Nat
    BY <1>7, <2>3
  <2>. QED  BY <1>1, <1>2, <2>2, <2>3, <2>5, <2>6
<1>. QED  BY <1>10, <1>11, <1>12 DEF N, m

\* The sum of numbers is one.
LEMMA SumOfType ==
  ASSUME NEW N \in Nat, NEW v \in [1 .. N -> Nat], N = Len(v)
  PROVE  SumOf(v) \in Nat
<1>. DEFINE Sums(g) == g = [n \in 0 .. N |-> IF n = 0 THEN 0 ELSE g[n - 1] + v[n]]
            sum == CHOOSE g : Sums(g)
            G == {n \in 0 .. N : sum[n] \in Nat}
<1>1. SumOf(v) = sum[N]
  BY DEF SumOf
<1>2. Sums(sum)
  <2>1. PICK step \in [1 .. N -> [Nat -> Nat]] :
          \A i \in 1 .. N : \A x \in Nat : step[i][x] = x + v[i]
    <3>1. \A i \in 1 .. N : v[i] \in Nat
      OBVIOUS
    <3>2. [i \in 1 .. N |-> [x \in Nat |-> x + v[i]]] \in [1 .. N -> [Nat -> Nat]]
      BY <3>1
    <3>. QED  BY <3>2
  <2>2. PICK f : Follows(f, N, Nat, 0, step)
    <3>1. 0 \in Nat /\ step \in StepsOf(N, Nat)
      BY DEF StepsOf
    <3>. QED  BY <3>1, Recursion
  <2>3. ASSUME NEW n \in 0 .. N, n # 0
        PROVE  f[n] = f[n - 1] + v[n]
    <3>1. n \in 1 .. N /\ n - 1 \in 0 .. N
      BY <2>3
    <3>. QED  BY <2>1, <2>2, <3>1 DEF Follows
  <2>4. Sums(f)
    BY <2>2, <2>3 DEF Follows
  <2>. QED  BY <2>4
<1>. HIDE DEF sum
<1>3. 0 \in G /\ \A n \in 1 .. N : sum[n] = sum[n - 1] + v[n]
  <2>1. 0 \in 0 .. N /\ \A n \in 1 .. N : n \in 0 .. N /\ n # 0
    OBVIOUS
  <2>. QED  BY <1>2, <2>1
<1>4. \A n \in 1 .. N : n - 1 \in G => n \in G
  BY <1>3
<1>. HIDE DEF G
<1>5. N \in G
  <2>1. N \in 0 .. N
    OBVIOUS
  <2>. QED  BY <1>3, <1>4, <2>1, Induction
<1>. QED  BY <1>1, <1>5 DEF G

LEMMA DurationsAreNat ==
  ASSUME NEW run \in RunSpace
  PROVE  /\ RunDuration(run) \in Nat /\ QueueTime(run) \in Nat
         /\ QueueTime(run) = NormalizedRun(run).queue
         /\ run.started # NoTime => RunDuration(run) = NormalizedRun(run).duration
<1>. DEFINE c == run.created  s == run.started  u == run.updated
<1>1. c \in Nat /\ u \in Nat /\ (s = NoTime \/ s \in Nat)
  BY DEF RunSpace
<1>2. /\ RunDuration(run) = IF s = NoTime THEN (IF u < c THEN 0 ELSE u - c)
                            ELSE IF u < s THEN 0 ELSE u - s
      /\ QueueTime(run) = IF s = NoTime \/ s < c THEN 0 ELSE s - c
  BY DEF RunDuration, Started, QueueTime
<1>3. /\ NormalizedRun(run).duration = IF s # NoTime /\ u > s THEN u - s ELSE 0
      /\ NormalizedRun(run).queue = IF s # NoTime /\ s > c THEN s - c ELSE 0
  BY DEF NormalizedRun
<1>. HIDE DEF c, s, u
<1>4. s = NoTime \/ s # NoTime
  OBVIOUS
<1>. QED  BY <1>1, <1>2, <1>3 DEF s

\* The average, rounded down.
LEMMA Average ==
  ASSUME NEW n \in Nat \ {0}, NEW q \in Nat
  PROVE  n * (q \div n) <= q /\ q < n * (q \div n + 1)
<1>. DEFINE d == q \div n  r == q % n
<1>1. d \in Int /\ r \in 0 .. n - 1 /\ q = n * d + r
  OBVIOUS
<1>2. n * (d + 1) = n * d + n /\ n * d \in Int
  BY <1>1
<1>. HIDE DEF d, r
<1>3. n * d <= q /\ q < n * (d + 1)
  BY <1>1, <1>2
<1>. QED  BY <1>3 DEF d

\* As many values as positions, or fewer.
LEMMA ImageNoLarger ==
  ASSUME NEW A, IsFiniteSet(A), NEW f \in [A -> STRING], NEW B,
         \A y \in B : \E x \in A : f[x] = y
  PROVE  Cardinality(B) <= Cardinality(A)
<1>. DEFINE C == {f[x] : x \in A}
            g == [x \in A |-> f[x]]
<1>1. g \in [A -> C] /\ \A y \in C : \E x \in A : g[x] = y
  OBVIOUS
<1>2. g \in Surjection(A, C) /\ B \subseteq C
  <2>1. B \subseteq C
    OBVIOUS
  <2>. HIDE DEF C, g
  <2>. QED  BY <1>1, <2>1 DEF Surjection
<1>. HIDE DEF C, g
<1>3. IsFiniteSet(C) /\ Cardinality(C) <= Cardinality(A)
  BY <1>2, FS_Surjection
<1>4. IsFiniteSet(B) /\ Cardinality(B) <= Cardinality(C)
  BY <1>2, <1>3, FS_Subset
<1>5. Cardinality(A) \in Nat /\ Cardinality(B) \in Nat /\ Cardinality(C) \in Nat
  BY <1>3, <1>4, FS_CardinalityType
<1>. QED  BY <1>3, <1>4, <1>5

\* The positions of the runs that have concluded so, and of those in a class.
EndedSo(runs, outcome) == {i \in DOMAIN runs : runs[i].conclusion = outcome}
InClass(runs, c) ==
  {i \in DOMAIN runs : ~Succeeded(runs[i]) /\ ClassifyRunFailure(runs[i]) = c}

\* No more commits are flaky than runs have ended so.
LEMMA CandidatesBounded ==
  ASSUME NEW runs \in Seq(RunSpace), NEW outcome \in {"failure", "success"}
  PROVE  Cardinality(FlakyCandidates(runs)) <= Cardinality(EndedSo(runs, outcome))
<1>. DEFINE A == EndedSo(runs, outcome)
            f == [i \in A |-> runs[i].sha]
<1>1. DOMAIN runs = 1 .. Len(runs) /\ Len(runs) \in Nat
      /\ \A i \in DOMAIN runs : runs[i] \in RunSpace
  OBVIOUS
<1>2. IsFiniteSet(A)
  <2>1. IsFiniteSet(DOMAIN runs)
    BY <1>1, FS_Interval
  <2>. QED  BY <2>1, FS_Subset DEF EndedSo
<1>3. f \in [A -> STRING]
  <2>1. \A i \in A : runs[i].sha \in STRING
    BY <1>1 DEF EndedSo, RunSpace
  <2>. QED  BY <2>1
<1>4. ASSUME NEW y \in FlakyCandidates(runs)
      PROVE  \E i \in A : f[i] = y
  <2>1. \E s \in ToSet(runs) : s.sha = y /\ s.conclusion = outcome
    BY DEF FlakyCandidates
  <2>2. PICK i \in DOMAIN runs : runs[i].sha = y /\ runs[i].conclusion = outcome
    BY <2>1 DEF ToSet
  <2>. QED  BY <2>2 DEF EndedSo
<1>. HIDE DEF A, f
<1>5. Cardinality(FlakyCandidates(runs)) <= Cardinality(A)
  BY <1>2, <1>3, <1>4, ImageNoLarger
<1>. QED  BY <1>5 DEF A

\* Sets that share no element.
LEMMA DisjointUnion ==
  ASSUME NEW A, NEW B, IsFiniteSet(A), IsFiniteSet(B), A \cap B = {}
  PROVE  /\ IsFiniteSet(A \cup B)
         /\ Cardinality(A \cup B) = Cardinality(A) + Cardinality(B)
<1>1. Cardinality(A) \in Nat /\ Cardinality(B) \in Nat
  BY FS_CardinalityType
<1>2. Cardinality(A \cap B) = 0
  BY FS_EmptySet
<1>3. /\ IsFiniteSet(A \cup B)
      /\ Cardinality(A \cup B) = Cardinality(A) + Cardinality(B) - Cardinality(A \cap B)
  BY FS_Union
<1>. QED  BY <1>1, <1>2, <1>3

\* Each run has succeeded or is in one of the classes.
LEMMA ClassesPartition ==
  ASSUME NEW runs \in Seq(RunSpace)
  PROVE  Len(runs) = Cardinality(EndedSo(runs, "success"))
                       + Cardinality(InClass(runs, "test_or_build_failure"))
                       + Cardinality(InClass(runs, "infra_timeout"))
                       + Cardinality(InClass(runs, "config_error"))
                       + Cardinality(InClass(runs, "stale"))
                       + Cardinality(InClass(runs, "neutral"))
                       + Cardinality(InClass(runs, "unknown"))
<1>. DEFINE D  == DOMAIN runs
            s0 == EndedSo(runs, "success")
            s1 == InClass(runs, "test_or_build_failure")
            s2 == InClass(runs, "infra_timeout")
            s3 == InClass(runs, "config_error")
            s4 == InClass(runs, "stale")
            s5 == InClass(runs, "neutral")
            s6 == InClass(runs, "unknown")
<1>1. IsFiniteSet(D) /\ Cardinality(D) = Len(runs)
  <2>1. D = 1 .. Len(runs) /\ Len(runs) \in Nat
    OBVIOUS
  <2>. QED  BY <2>1, FS_Interval
<1>2. ASSUME NEW i \in D
      PROVE  \/ i \in s0 \/ i \in s1 \/ i \in s2 \/ i \in s3
             \/ i \in s4 \/ i \in s5 \/ i \in s6
  <2>1. runs[i].conclusion \in Conclusions
    <3>1. runs[i] \in RunSpace
      OBVIOUS
    <3>. QED  BY <3>1 DEF RunSpace
  <2>. DEFINE c == runs[i].conclusion
  <2>2. /\ Succeeded(runs[i]) <=> c = "success"
        /\ ClassifyRunFailure(runs[i]) =
             CASE c \in {"timed_out", "cancelled"} -> "infra_timeout"
               [] c \in {"startup_failure", "action_required"} -> "config_error"
               [] c = "failure" -> "test_or_build_failure"
               [] c = "" -> "unknown"
               [] OTHER -> c
    BY DEF Succeeded, ClassifyRunFailure
  <2>. QED  BY <2>1, <2>2 DEF EndedSo, InClass, Conclusions
<1>3. /\ s0 \cap s1 = {} /\ (s0 \cup s1) \cap s2 = {}
      /\ (s0 \cup s1 \cup s2) \cap s3 = {}
      /\ (s0 \cup s1 \cup s2 \cup s3) \cap s4 = {}
      /\ (s0 \cup s1 \cup s2 \cup s3 \cup s4) \cap s5 = {}
      /\ (s0 \cup s1 \cup s2 \cup s3 \cup s4 \cup s5) \cap s6 = {}
  BY DEF EndedSo, InClass, Succeeded
<1>4. /\ s0 \subseteq D /\ s1 \subseteq D /\ s2 \subseteq D /\ s3 \subseteq D
      /\ s4 \subseteq D /\ s5 \subseteq D /\ s6 \subseteq D
  BY DEF EndedSo, InClass
<1>. HIDE DEF D, s0, s1, s2, s3, s4, s5, s6
<1>5. /\ IsFiniteSet(s0) /\ IsFiniteSet(s1) /\ IsFiniteSet(s2) /\ IsFiniteSet(s3)
      /\ IsFiniteSet(s4) /\ IsFiniteSet(s5) /\ IsFiniteSet(s6)
  BY <1>1, <1>4, FS_Subset
<1>6. s0 \cup s1 \cup s2 \cup s3 \cup s4 \cup s5 \cup s6 = D
  BY <1>2, <1>4
<1>7. /\ IsFiniteSet(s0 \cup s1)
      /\ Cardinality(s0 \cup s1) = Cardinality(s0) + Cardinality(s1)
  BY <1>3, <1>5, DisjointUnion
<1>8. /\ IsFiniteSet(s0 \cup s1 \cup s2)
      /\ Cardinality(s0 \cup s1 \cup s2) = Cardinality(s0 \cup s1) + Cardinality(s2)
  BY <1>3, <1>5, <1>7, DisjointUnion
<1>9. /\ IsFiniteSet(s0 \cup s1 \cup s2 \cup s3)
      /\ Cardinality(s0 \cup s1 \cup s2 \cup s3)
           = Cardinality(s0 \cup s1 \cup s2) + Cardinality(s3)
  BY <1>3, <1>5, <1>8, DisjointUnion
<1>10. /\ IsFiniteSet(s0 \cup s1 \cup s2 \cup s3 \cup s4)
       /\ Cardinality(s0 \cup s1 \cup s2 \cup s3 \cup s4)
            = Cardinality(s0 \cup s1 \cup s2 \cup s3) + Cardinality(s4)
  BY <1>3, <1>5, <1>9, DisjointUnion
<1>11. /\ IsFiniteSet(s0 \cup s1 \cup s2 \cup s3 \cup s4 \cup s5)
       /\ Cardinality(s0 \cup s1 \cup s2 \cup s3 \cup s4 \cup s5)
            = Cardinality(s0 \cup s1 \cup s2 \cup s3 \cup s4) + Cardinality(s5)
  BY <1>3, <1>5, <1>10, DisjointUnion
<1>12. Cardinality(D) = Cardinality(s0 \cup s1 \cup s2 \cup s3 \cup s4 \cup s5)
                          + Cardinality(s6)
  BY <1>3, <1>5, <1>6, <1>11, DisjointUnion
<1>. QED  BY <1>1, <1>7, <1>8, <1>9, <1>10, <1>11, <1>12
          DEF s0, s1, s2, s3, s4, s5, s6

\* The metrics of a window agree with its runs.
LEMMA MetricsAgree ==
  ASSUME NEW runs \in Seq(RunSpace)
  PROVE  Agrees(WindowMetrics(runs), runs)
<1>. DEFINE N == Len(runs)
            D == DOMAIN runs
            m == WindowMetrics(runs)
            told == [i \in D |-> NormalizedRun(runs[i])]
            waits == [i \in D |-> told[i].queue]
            queue == SumOf(waits)
            class(c) == IF c \in DOMAIN m.breakdown THEN m.breakdown[c] ELSE 0
            failed == {i \in D : ~Succeeded(runs[i])}
            durations == [i \in D |-> RunDuration(runs[i])]
            fewer == {i \in D : told[i].duration < m.median}
            more == {i \in D : told[i].duration > m.median}
<1>1. N \in Nat /\ D = 1 .. N /\ \A i \in D : runs[i] \in RunSpace
  OBVIOUS
<1>2. \A i \in D : /\ RunDuration(runs[i]) \in Nat
                   /\ QueueTime(runs[i]) = told[i].queue /\ told[i].queue \in Nat
                   /\ runs[i].started # NoTime => RunDuration(runs[i]) = told[i].duration
  BY <1>1, DurationsAreNat
<1>3. queue \in Nat
  <2>1. waits \in [1 .. N -> Nat] /\ N = Len(waits)
    <3>1. waits \in [1 .. N -> Nat]
      BY <1>1, <1>2
    <3>2. DOMAIN waits = 1 .. N
      BY <1>1
    <3>. HIDE DEF waits
    <3>. QED  BY <1>1, <3>1, <3>2
  <2>. HIDE DEF waits
  <2>. QED  BY <1>1, <2>1, SumOfType
<1>4. /\ runs = <<>> => /\ m.total = 0 /\ m.successes = 0 /\ m.median = 0 /\ m.queue = 0
                        /\ m.candidates = 0 /\ m.breakdown = <<>>
      /\ runs # <<>> =>
           /\ m.total = N /\ m.successes = N - Cardinality(failed)
           /\ m.median = MedianOf(durations)
           /\ m.queue = SumOf([i \in D |-> QueueTime(runs[i])]) \div N
           /\ m.candidates = Cardinality(FlakyCandidates(runs))
           /\ m.breakdown = [c \in {ClassifyRunFailure(runs[i]) : i \in failed} |->
                              Cardinality({i \in failed : ClassifyRunFailure(runs[i]) = c})]
  BY DEF WindowMetrics, Quantify
<1>5. runs = <<>> <=> N = 0
  OBVIOUS
<1>6. m.total = N
  BY <1>4, <1>5
<1>7. m.total * m.queue <= queue /\ (m.total > 0 => queue < m.total * (m.queue + 1))
  <2>1. CASE runs = <<>>
    BY <1>3, <1>4, <2>1
  <2>2. CASE runs # <<>>
    <3>1. [i \in D |-> QueueTime(runs[i])] = waits
      BY <1>2
    <3>2. m.queue = queue \div N
      BY <1>4, <2>2, <3>1
    <3>. HIDE DEF queue, m, N
    <3>. QED  BY <1>1, <1>3, <1>5, <1>6, <2>2, <3>2, Average
  <2>. QED  BY <2>1, <2>2
<1>8. ASSUME \A i \in D : runs[i].started # NoTime
      PROVE  2 * Cardinality(fewer) <= m.total /\ 2 * Cardinality(more) <= m.total
  <2>1. CASE runs = <<>>
    <3>1. fewer = {} /\ more = {}
      BY <1>1, <1>5, <2>1
    <3>. QED  BY <1>4, <2>1, <3>1, FS_EmptySet
  <2>2. CASE runs # <<>>
    <3>1. durations \in Seq(Nat) /\ Len(durations) = N /\ DOMAIN durations = D
          /\ durations # <<>>
      <4>1. durations \in [1 .. N -> Nat] /\ DOMAIN durations = D
        BY <1>1, <1>2
      <4>. HIDE DEF durations
      <4>2. durations \in Seq(Nat) /\ Len(durations) = N
        BY <1>1, <4>1
      <4>. QED  BY <1>5, <2>2, <4>1, <4>2
    <3>2. \A i \in D : durations[i] = told[i].duration
      BY <1>2, <1>8
    <3>3. m.median = MedianOf(durations)
      BY <1>4, <2>2
    <3>. HIDE DEF durations, told, m, D, N
    <3>4. /\ 2 * Cardinality({i \in D : durations[i] < m.median}) <= N
          /\ 2 * Cardinality({i \in D : durations[i] > m.median}) <= N
      BY <3>1, <3>3, MedianSplits
    <3>5. /\ fewer = {i \in D : durations[i] < m.median}
          /\ more = {i \in D : durations[i] > m.median}
      BY <3>2
    <3>. QED  BY <1>6, <3>4, <3>5
  <2>. QED  BY <2>1, <2>2
<1>9. IsFiniteSet(D) /\ Cardinality(D) = N
  BY <1>1, FS_Interval
<1>10. m.successes = Cardinality(EndedSo(runs, "success"))
  <2>1. EndedSo(runs, "success") = D \ failed /\ failed = D \cap failed
    BY DEF EndedSo, Succeeded
  <2>2. Cardinality(D \ failed) = Cardinality(D) - Cardinality(D \cap failed)
    BY <1>9, FS_Difference
  <2>3. runs = <<>> => EndedSo(runs, "success") = {}
    BY <1>1, <1>5 DEF EndedSo
  <2>. QED  BY <1>4, <1>9, <2>1, <2>2, <2>3, FS_EmptySet
<1>11. ASSUME NEW c
       PROVE  class(c) = Cardinality(InClass(runs, c))
  <2>1. InClass(runs, c) = {i \in failed : ClassifyRunFailure(runs[i]) = c}
    BY DEF InClass
  <2>2. CASE runs = <<>>
    <3>1. InClass(runs, c) = {}
      BY <1>1, <1>5, <2>2 DEF InClass
    <3>2. DOMAIN m.breakdown = {}
      BY <1>4, <2>2
    <3>. QED  BY <3>1, <3>2, FS_EmptySet
  <2>3. CASE runs # <<>>
    <3>1. DOMAIN m.breakdown = {ClassifyRunFailure(runs[i]) : i \in failed}
      BY <1>4, <2>3
    <3>2. CASE c \in DOMAIN m.breakdown
      BY <1>4, <2>1, <2>3, <3>1, <3>2
    <3>3. CASE c \notin DOMAIN m.breakdown
      <4>1. InClass(runs, c) = {}
        BY <2>1, <3>1, <3>3
      <4>. QED  BY <3>3, <4>1, FS_EmptySet
    <3>. QED  BY <3>2, <3>3
  <2>. QED  BY <2>2, <2>3
<1>. HIDE DEF class
<1>12. m.total = m.successes + class("test_or_build_failure") + class("infra_timeout")
                   + class("config_error") + class("stale") + class("neutral")
                   + class("unknown")
  BY <1>6, <1>10, <1>11, ClassesPartition, Zenon
<1>13. /\ InClass(runs, "unknown") = EndedSo(runs, "")
       /\ InClass(runs, "test_or_build_failure") = EndedSo(runs, "failure")
  <2>1. ASSUME NEW i \in D
        PROVE  /\ ~Succeeded(runs[i]) /\ ClassifyRunFailure(runs[i]) = "unknown"
                     <=> runs[i].conclusion = ""
               /\ ~Succeeded(runs[i]) /\ ClassifyRunFailure(runs[i]) = "test_or_build_failure"
                     <=> runs[i].conclusion = "failure"
    <3>1. runs[i].conclusion \in Conclusions
      BY <1>1 DEF RunSpace
    <3>. QED  BY <3>1 DEF Conclusions, Succeeded, ClassifyRunFailure
  <2>. QED  BY <2>1 DEF InClass, EndedSo
<1>14. class("unknown") = Cardinality({i \in D : runs[i].conclusion = ""})
  BY <1>11, <1>13 DEF EndedSo
<1>15. m.candidates <= Lesser(m.successes, class("test_or_build_failure"))
  <2>1. /\ Cardinality(FlakyCandidates(runs)) <= m.successes
        /\ Cardinality(FlakyCandidates(runs)) <= class("test_or_build_failure")
    BY <1>10, <1>11, <1>13, CandidatesBounded
  <2>2. m.candidates = Cardinality(FlakyCandidates(runs))
    <3>1. runs = <<>> => FlakyCandidates(runs) = {}
      BY DEF FlakyCandidates, ToSet
    <3>. QED  BY <1>4, <3>1, FS_EmptySet
  <2>. QED  BY <2>1, <2>2 DEF Lesser
<1>. QED  BY <1>6, <1>7, <1>8, <1>12, <1>14, <1>15, Zenon DEF Agrees, Quantify, class

-----------------------------------------------------------------------------
(* The inductive invariant.                                                 *)

\* The provider's runs have come from those that were there when the call arrived.
Provider ==
  /\ first \in Histories
  /\ clock \in Start .. End
  /\ HistorySound(history, first, clock)

\* Which tool has which requests, and that nothing changes but between the lists of a
\* comparison.
Stages ==
  /\ call \in Calls
  /\ pc \in {"idle", "current", "baseline", "runs", "logs", "answered"}
  /\ answer \in Codes \cup {"none", "snapshot", "report"}
  /\ pc # "answered" <=> answer = "none"
  /\ pc \notin {"baseline", "answered"} => history = first
  /\ pc \in {"current", "baseline"} \/ answer = "snapshot" =>
       call.tool = "compare" /\ call.from < call.to
  /\ pc \in {"runs", "logs"} \/ answer = "report" => call.tool = "flaky"

\* The lists are those of their windows, the first one of the runs that there were at
\* first and the second one of those that there are now.
Lists ==
  /\ current \in Seq(RunSpace) /\ Len(current) <= Longest
  /\ baseline \in Seq(RunSpace) /\ Len(baseline) <= Longest
  /\ pc = "baseline" \/ answer = "snapshot" =>
       ListSound(current, ToSet(first), call.from, call.to)
  /\ answer = "snapshot" => ListSound(baseline, ToSet(history), BaselineFrom, BaselineTo)
  /\ call.tool = "flaky" =>
       \A run \in ToSet(current) : run.created >= Second(clock - MaxLookback * Day)

\* What the loop over the logs knows, while it runs and after it.
TestsFound ==
  /\ pc # "logs" /\ answer # "report" =>
       next = 1 /\ failedRuns = 0 /\ aggregates = <<>> /\ top = <<>> /\ named = <<>>
  /\ pc = "logs" => top = <<>>
  /\ pc = "logs" \/ answer = "report" =>
       LoopOf(Scanned, next, failedRuns, named, aggregates)
  /\ answer = "report" => TopSound(aggregates, top)

TrendsInv == Provider /\ Stages /\ Lists /\ TestsFound

LEMMA InitInv == Init => TrendsInv
<1>. SUFFICES ASSUME Init
              PROVE  TrendsInv
  OBVIOUS
<1>1. Provider
  <2>1. first \in Histories /\ history = first /\ clock = Start
    BY DEF Init
  <2>2. Start \in Start .. End
    BY TrendsAssumption
  <2>. QED  BY <2>1, <2>2, FirstSound DEF Provider
<1>2. Stages
  BY DEF Init, Stages, Codes
<1>3. Lists
  <2>1. /\ <<>> \in Seq(RunSpace) /\ Len(<<>>) = 0 /\ ToSet(<<>>) = {}
    BY DEF ToSet
  <2>2. Longest \in Nat
    BY LongestIs
  <2>. QED  BY <2>1, <2>2 DEF Init, Lists
<1>4. TestsFound
  BY DEF Init, TestsFound
<1>. QED  BY <1>1, <1>2, <1>3, <1>4 DEF TrendsInv

-----------------------------------------------------------------------------
(* What a step leaves alone.                                                *)

LEMMA ProviderKept ==
  ASSUME Provider, UNCHANGED <<history, clock, first>>
  PROVE  Provider'
BY DEF Provider

\* Tests are found by the loop only.
LEMMA TestsKept ==
  ASSUME TestsFound, UNCHANGED <<flakyVars>>, pc # "logs", answer # "report",
         pc' # "logs", answer' # "report"
  PROVE  TestsFound'
BY DEF TestsFound, flakyVars

\* A call that ends without a snapshot claims nothing of its lists.
LEMMA ListsKept ==
  ASSUME Lists, UNCHANGED <<call, clock, current, baseline>>, pc' # "baseline",
         answer' # "snapshot"
  PROVE  Lists'
BY DEF Lists

-----------------------------------------------------------------------------
(* The steps.                                                               *)

LEMMA RejectKeeps ==
  ASSUME TrendsInv, Reject
  PROVE  TrendsInv'
<1>1. /\ pc = "idle" /\ pc' = "answered" /\ answer' = "INVALID_INPUT" /\ answer = "none"
      /\ UNCHANGED <<history, clock, first, call, current, baseline, flakyVars>>
  BY DEF TrendsInv, Stages, Reject, Return, providerVars
<1>2. Provider'
  BY <1>1, ProviderKept DEF TrendsInv
<1>3. Stages'
  BY <1>1 DEF TrendsInv, Stages, Codes
<1>4. Lists'
  BY <1>1, ListsKept DEF TrendsInv
<1>5. TestsFound'
  BY <1>1, TestsKept DEF TrendsInv
<1>. QED  BY <1>2, <1>3, <1>4, <1>5 DEF TrendsInv

LEMMA ListFailsKeeps ==
  ASSUME TrendsInv, ListFails \/ RunsUnread
  PROVE  TrendsInv'
<1>1. /\ pc \in {"current", "baseline", "runs"} /\ pc' = "answered" /\ answer = "none"
      /\ UNCHANGED <<history, clock, first, call, current, baseline, flakyVars>>
  BY DEF TrendsInv, Stages, ListFails, RunsUnread, Return, providerVars
<1>2. answer' \in Codes
  <2>1. PICK err \in Errors : answer' = MapError(err)
    BY DEF ListFails, RunsUnread, Return
  <2>. QED  BY <2>1, SMT DEF MapError, Errors, Sentinels, Unwrapped, Codes
<1>3. answer' \notin {"none", "snapshot", "report"}
  BY <1>2 DEF Codes
<1>4. Provider'
  BY <1>1, ProviderKept DEF TrendsInv
<1>5. Stages'
  BY <1>1, <1>2, <1>3 DEF TrendsInv, Stages
<1>6. Lists'
  BY <1>1, <1>3, ListsKept DEF TrendsInv
<1>7. TestsFound'
  BY <1>1, <1>3, TestsKept DEF TrendsInv
<1>. QED  BY <1>4, <1>5, <1>6, <1>7 DEF TrendsInv

LEMMA AcceptKeeps ==
  ASSUME TrendsInv, Accept
  PROVE  TrendsInv'
<1>1. /\ pc = "idle" /\ pc' \in {"current", "runs"} /\ answer = "none" /\ answer' = "none"
      /\ UNCHANGED <<history, clock, first, call, current, baseline, flakyVars>>
  BY DEF TrendsInv, Stages, Accept, providerVars
<1>2. Provider'
  BY <1>1, ProviderKept DEF TrendsInv
<1>3. Stages'
  <2>1. pc' = "current" => call.tool = "compare" /\ call.from < call.to
    BY DEF TrendsInv, Stages, Accept, CallSpace
  <2>2. pc' = "runs" => call.tool = "flaky"
    BY DEF Accept
  <2>. QED  BY <1>1, <2>1, <2>2 DEF TrendsInv, Stages
<1>4. Lists'
  BY <1>1, ListsKept DEF TrendsInv
<1>5. TestsFound'
  BY <1>1, TestsKept DEF TrendsInv
<1>. QED  BY <1>2, <1>3, <1>4, <1>5 DEF TrendsInv

\* The first list of a comparison.
LEMMA ReadCurrentKeeps ==
  ASSUME TrendsInv, ReadCurrent
  PROVE  TrendsInv'
<1>1. /\ pc = "current" /\ pc' = "baseline" /\ answer = "none" /\ answer' = "none"
      /\ current' = Listed(call.from, call.to) /\ history = first
      /\ call.tool = "compare" /\ call.from < call.to
      /\ UNCHANGED <<history, clock, first, call, baseline, flakyVars>>
  BY DEF TrendsInv, Stages, ReadCurrent, providerVars
<1>2. Provider'
  BY <1>1, ProviderKept DEF TrendsInv
<1>3. Stages'
  BY <1>1 DEF TrendsInv, Stages
<1>4. Lists'
  <2>1. /\ current' \in Seq(RunSpace) /\ Len(current') <= Longest
        /\ ListSound(current', ToSet(first), call.from, call.to)
    BY <1>1, ListedSound DEF TrendsInv, Provider, HistorySound
  <2>. QED  BY <1>1, <2>1 DEF TrendsInv, Lists
<1>5. TestsFound'
  BY <1>1, TestsKept DEF TrendsInv
<1>. QED  BY <1>2, <1>3, <1>4, <1>5 DEF TrendsInv

\* The second one, of runs that may have changed.
LEMMA ReadBaselineKeeps ==
  ASSUME TrendsInv, ReadBaseline
  PROVE  TrendsInv'
<1>1. /\ pc = "baseline" /\ pc' = "answered" /\ answer = "none" /\ answer' = "snapshot"
      /\ baseline' = Listed(BaselineFrom, BaselineTo)
      /\ call.tool = "compare" /\ call.from < call.to
      /\ UNCHANGED <<history, clock, first, call, current, flakyVars>>
  BY DEF TrendsInv, Stages, ReadBaseline, Return, providerVars
<1>2. Provider'
  BY <1>1, ProviderKept DEF TrendsInv
<1>3. Stages'
  BY <1>1 DEF TrendsInv, Stages
<1>4. Lists'
  <2>1. /\ baseline' \in Seq(RunSpace) /\ Len(baseline') <= Longest
        /\ ListSound(baseline', ToSet(history), BaselineFrom, BaselineTo)
    BY <1>1, ListedSound DEF TrendsInv, Provider, HistorySound
  <2>2. BaselineFrom' = BaselineFrom /\ BaselineTo' = BaselineTo
    BY <1>1 DEF BaselineFrom, BaselineTo
  <2>. QED  BY <1>1, <2>1, <2>2 DEF TrendsInv, Lists
<1>5. TestsFound'
  BY <1>1, TestsKept DEF TrendsInv
<1>. QED  BY <1>2, <1>3, <1>4, <1>5 DEF TrendsInv

\* The longest lookback is the earliest.
LEMMA LookbackBounded ==
  ASSUME call \in Calls, call.tool = "flaky", clock \in Nat
  PROVE  /\ clock - Lookback * Day \in Int /\ clock - MaxLookback * Day \in Int
         /\ clock - MaxLookback * Day <= clock - Lookback * Day
<1>1. call.days \in Int
  BY TrendsAssumption DEF CallSpace
<1>2. Day \in Nat /\ MaxLookback \in Nat /\ DefaultLookback \in Nat
  BY TrendsAssumption
<1>3. Lookback \in Int /\ Lookback <= MaxLookback
  BY <1>1, <1>2 DEF Lookback, Lesser
<1>4. Lookback * Day <= MaxLookback * Day
  <2>. DEFINE d == MaxLookback - Lookback
  <2>1. d \in Nat /\ MaxLookback = Lookback + d
    BY <1>2, <1>3
  <2>2. MaxLookback * Day = Lookback * Day + d * Day /\ d * Day \in Nat
    BY <1>2, <1>3, <2>1
  <2>. QED  BY <1>2, <1>3, <2>2
<1>. QED  BY <1>2, <1>3, <1>4

\* The list of the other tool, and the beginning of its loop.
LEMMA ReadRunsKeeps ==
  ASSUME TrendsInv, ReadRuns
  PROVE  TrendsInv'
<1>1. /\ pc = "runs" /\ pc' = "logs" /\ answer = "none" /\ answer' = "none"
      /\ current' = Listed(clock - Lookback * Day, clock)
      /\ call \in Calls /\ call.tool = "flaky" /\ history = first
      /\ UNCHANGED <<history, clock, first, call, baseline, flakyVars>>
  BY DEF TrendsInv, Stages, ReadRuns, providerVars
<1>2. clock \in Nat
  BY TrendsAssumption DEF TrendsInv, Provider
<1>3. Provider'
  BY <1>1, ProviderKept DEF TrendsInv
<1>4. Stages'
  BY <1>1 DEF TrendsInv, Stages
<1>5. /\ current' \in Seq(RunSpace) /\ Len(current') <= Longest
      /\ ListSound(current', ToSet(history), clock - Lookback * Day, clock)
  BY <1>1, ListedSound DEF TrendsInv, Provider, HistorySound
<1>6. Lists'
  <2>1. ASSUME NEW run \in ToSet(current')
        PROVE  run.created >= Second(clock - MaxLookback * Day)
    <3>1. Second(clock - Lookback * Day) <= run.created
      BY <1>5 DEF ListSound
    <3>2. /\ Second(clock - MaxLookback * Day) <= Second(clock - Lookback * Day)
          /\ Second(clock - MaxLookback * Day) \in Int /\ Second(clock - Lookback * Day) \in Int
      BY <1>1, <1>2, LookbackBounded, SecondOrder
    <3>3. run.created \in Nat
      <4>1. run \in RunSpace
        BY <1>5 DEF ToSet
      <4>. QED  BY <4>1 DEF RunSpace
    <3>. QED  BY <3>1, <3>2, <3>3
  <2>2. \A run \in ToSet(current') : run.created >= Second(clock' - MaxLookback * Day)
    BY <1>1, <2>1
  <2>. QED  BY <1>1, <1>5, <2>2, Zenon DEF TrendsInv, Lists
<1>7. TestsFound'
  <2>1. Scanned' = FilterByWorkflow(current')
    BY <1>1 DEF Scanned, FilterByWorkflow
  <2>2. Scanned' \in Seq(RunSpace)
    BY <1>5, <2>1, FilterKeeps
  <2>3. LoopOf(Scanned', 1, 0, <<>>, <<>>)
    BY <2>2, LoopBegins
  <2>4. next' = 1 /\ failedRuns' = 0 /\ aggregates' = <<>> /\ top' = <<>> /\ named' = <<>>
    BY <1>1 DEF TrendsInv, TestsFound, flakyVars
  <2>. QED  BY <1>1, <2>3, <2>4 DEF TestsFound
<1>. QED  BY <1>3, <1>4, <1>6, <1>7 DEF TrendsInv

\* What the steps of the loop leave alone, and where they stand.
LEMMA LoopStep ==
  ASSUME TrendsInv, InLoop,
         UNCHANGED <<providerVars, call, pc, current, baseline, snapshot, answer, first, top>>
  PROVE  /\ Provider' /\ Stages' /\ Lists'
         /\ pc = "logs" /\ answer = "none" /\ top = <<>> /\ Scanned' = Scanned
         /\ Scanned \in Seq(RunSpace) /\ next <= Len(Scanned)
         /\ LoopOf(Scanned, next, failedRuns, named, aggregates)
<1>1. Provider'
  BY ProviderKept DEF TrendsInv, providerVars
<1>2. Stages'
  BY DEF TrendsInv, Stages, providerVars
<1>3. pc = "logs" /\ answer = "none" /\ next <= Len(Scanned)
  BY DEF InLoop, TrendsInv, Stages
<1>4. Lists'
  BY <1>3, ListsKept DEF TrendsInv, providerVars
<1>5. Scanned' = Scanned
  BY DEF Scanned, FilterByWorkflow
<1>6. Scanned \in Seq(RunSpace)
  BY FilterKeeps DEF TrendsInv, Lists, Scanned
<1>7. LoopOf(Scanned, next, failedRuns, named, aggregates) /\ top = <<>>
  BY <1>3 DEF TrendsInv, TestsFound
<1>. QED  BY <1>1, <1>2, <1>3, <1>4, <1>5, <1>6, <1>7

LEMMA SkipRunKeeps ==
  ASSUME TrendsInv, SkipRun
  PROVE  TrendsInv'
<1>1. InLoop /\ ~RunFailed(Scanned[next]) /\ next' = next + 1
      /\ UNCHANGED <<providerVars, call, pc, current, baseline, snapshot, answer, first, top>>
      /\ UNCHANGED <<failedRuns, aggregates, named>>
  BY DEF SkipRun
<1>2. /\ Provider' /\ Stages' /\ Lists'
      /\ pc = "logs" /\ answer = "none" /\ top = <<>> /\ Scanned' = Scanned
      /\ Scanned \in Seq(RunSpace) /\ next <= Len(Scanned)
      /\ LoopOf(Scanned, next, failedRuns, named, aggregates)
  BY <1>1, LoopStep
<1>3. LoopOf(Scanned, next + 1, failedRuns, named, aggregates)
  BY <1>1, <1>2, LoopPasses
<1>4. TestsFound'
  BY <1>1, <1>2, <1>3 DEF TestsFound
<1>. QED  BY <1>2, <1>4 DEF TrendsInv

LEMMA LogsUnreadKeeps ==
  ASSUME TrendsInv, LogsUnread
  PROVE  TrendsInv'
<1>1. InLoop /\ RunFailed(Scanned[next]) /\ next' = next + 1 /\ failedRuns' = failedRuns + 1
      /\ UNCHANGED <<providerVars, call, pc, current, baseline, snapshot, answer, first, top>>
      /\ UNCHANGED <<aggregates, named>>
  BY DEF LogsUnread
<1>2. /\ Provider' /\ Stages' /\ Lists'
      /\ pc = "logs" /\ answer = "none" /\ top = <<>> /\ Scanned' = Scanned
      /\ Scanned \in Seq(RunSpace) /\ next <= Len(Scanned)
      /\ LoopOf(Scanned, next, failedRuns, named, aggregates)
  BY <1>1, LoopStep
<1>3. LoopOf(Scanned, next + 1, failedRuns + 1, named, aggregates)
  BY <1>1, <1>2, LoopPasses
<1>4. TestsFound'
  BY <1>1, <1>2, <1>3 DEF TestsFound
<1>. QED  BY <1>2, <1>4 DEF TrendsInv

LEMMA ReadRunLogsKeeps ==
  ASSUME TrendsInv, NEW names \in TestNames, ReadRunLogs(names)
  PROVE  TrendsInv'
<1>1. InLoop /\ RunFailed(Scanned[next]) /\ next' = next + 1 /\ failedRuns' = failedRuns + 1
      /\ aggregates' = [t \in DOMAIN aggregates \cup names |->
                          IF t \in names THEN SeenIn(t, Scanned[next]) ELSE aggregates[t]]
      /\ named' = [i \in DOMAIN named \cup {next} |-> IF i = next THEN names ELSE named[i]]
      /\ UNCHANGED <<providerVars, call, pc, current, baseline, snapshot, answer, first, top>>
  BY DEF ReadRunLogs
<1>2. /\ Provider' /\ Stages' /\ Lists'
      /\ pc = "logs" /\ answer = "none" /\ top = <<>> /\ Scanned' = Scanned
      /\ Scanned \in Seq(RunSpace) /\ next <= Len(Scanned)
      /\ LoopOf(Scanned, next, failedRuns, named, aggregates)
  BY <1>1, LoopStep
<1>3. LoopOf(Scanned, next + 1, failedRuns + 1, named', aggregates')
  BY <1>1, <1>2, LoopReads, Zenon DEF TestNames
<1>4. TestsFound'
  BY <1>1, <1>2, <1>3 DEF TestsFound
<1>. QED  BY <1>2, <1>4 DEF TrendsInv

LEMMA ReportKeeps ==
  ASSUME TrendsInv, Report
  PROVE  TrendsInv'
<1>1. /\ pc = "logs" /\ pc' = "answered" /\ answer' = "report" /\ answer = "none"
      /\ call.tool = "flaky"
      /\ UNCHANGED <<history, clock, first, call, current, baseline, next, failedRuns,
                     aggregates, named>>
  BY DEF TrendsInv, Stages, Report, Return, providerVars
<1>2. Provider'
  BY <1>1, ProviderKept DEF TrendsInv
<1>3. Stages'
  BY <1>1 DEF TrendsInv, Stages
<1>4. Lists'
  BY <1>1, ListsKept DEF TrendsInv
<1>5. LoopOf(Scanned, next, failedRuns, named, aggregates)
  BY <1>1 DEF TrendsInv, TestsFound
<1>6. DOMAIN aggregates \subseteq Tests
  <2>1. /\ DOMAIN aggregates = UNION Range(named)
        /\ \A i \in DOMAIN named : named[i] \subseteq Tests
    BY <1>5 DEF LoopOf
  <2>. QED  BY <2>1, Zenon DEF Range
<1>7. TopSound(aggregates, top')
  <2>1. PICK records \in SetToSeqs(DOMAIN aggregates) :
          /\ \A i, j \in DOMAIN records :
               i < j => aggregates[records[i]].count >= aggregates[records[j]].count
          /\ top' = SubSeq(records, 1, Lesser(Len(records), TopSize))
    BY DEF Report
  <2>. QED  BY <1>6, <2>1, TopOfRecords
<1>8. TestsFound'
  <2>1. Scanned' = Scanned
    BY <1>1 DEF Scanned, FilterByWorkflow
  <2>. QED  BY <1>1, <1>5, <1>7, <2>1 DEF TestsFound
<1>. QED  BY <1>2, <1>3, <1>4, <1>8 DEF TrendsInv

\* A change of the provider's runs.
LEMMA ChangesKeep ==
  ASSUME TrendsInv, Changes, HistorySound(history', first, clock')
  PROVE  TrendsInv'
<1>1. /\ pc = "baseline" /\ answer = "none" /\ call.tool = "compare"
      /\ clock' = clock + TicksPerSecond /\ clock' <= End
      /\ UNCHANGED <<call, pc, current, baseline, snapshot, answer, first, flakyVars>>
  BY DEF TrendsInv, Stages, Changes
<1>2. Provider'
  <2>1. clock' \in Start .. End
    BY <1>1, TrendsAssumption DEF TrendsInv, Provider
  <2>. QED  BY <1>1, <2>1 DEF TrendsInv, Provider
<1>3. Stages'
  BY <1>1 DEF TrendsInv, Stages
<1>4. Lists'
  BY <1>1 DEF TrendsInv, Lists
<1>5. TestsFound'
  BY <1>1, TestsKept DEF TrendsInv
<1>. QED  BY <1>2, <1>3, <1>4, <1>5 DEF TrendsInv

\* The clock of the provider, and what was true of its runs, after a change.
LEMMA ChangesSound ==
  ASSUME TrendsInv, Changes
  PROVE  /\ clock' \in Nat \ {0}
         /\ HistorySound(history, first, clock')
         /\ history \in Seq(RunSpace) /\ first \in Seq(RunSpace)
<1>1. clock \in Nat /\ clock' \in Nat \ {0} /\ clock <= clock'
  BY TrendsAssumption DEF TrendsInv, Provider, Changes
<1>2. HistorySound(history, first, clock')
  BY <1>1, SoundLater DEF TrendsInv, Provider
<1>3. first \in Seq(RunSpace)
  BY TrendsAssumption DEF TrendsInv, Provider
<1>. QED  BY <1>1, <1>2, <1>3 DEF HistorySound

LEMMA BegunIs ==
  ASSUME NEW run \in RunSpace, clock' \in Nat
  PROVE  /\ Begun(run) \in RunSpace
         /\ Begun(run).id = run.id /\ Begun(run).created = run.created
         /\ Begun(run).names = run.names
BY DEF Begun, RunSpace, Conclusions

LEMMA RunStartsKeeps ==
  ASSUME TrendsInv, RunStarts
  PROVE  TrendsInv'
<1>1. Changes
  BY DEF RunStarts
<1>2. /\ clock' \in Nat \ {0} /\ HistorySound(history, first, clock')
      /\ first \in Seq(RunSpace)
  BY <1>1, ChangesSound
<1>3. PICK run \in ToSet(first) :
        history' = Cons([Begun(run) EXCEPT !.id = Len(first) + clock', !.created = clock'],
                        history)
  BY DEF RunStarts
<1>. DEFINE new == [Begun(run) EXCEPT !.id = Len(first) + clock', !.created = clock']
<1>4. new \in RunSpace /\ new.created = clock' /\ new.id = Len(first) + clock'
  <2>1. run \in RunSpace
    BY <1>2 DEF ToSet
  <2>2. Begun(run) \in RunSpace
    BY <1>2, <2>1, BegunIs
  <2>3. Len(first) + clock' \in Nat /\ clock' \in Nat
    BY <1>2
  <2>. QED  BY <2>2, <2>3 DEF RunSpace
<1>. HIDE DEF new
<1>5. ASSUME NEW old \in ToSet(first)
      PROVE  old.id # new.id
  <2>1. old.id <= Len(first)
    BY FirstSound DEF TrendsInv, Provider
  <2>2. old \in RunSpace
    BY <1>2 DEF ToSet
  <2>3. old.id \in Nat
    BY <2>2 DEF RunSpace
  <2>. QED  BY <1>2, <1>4, <2>1, <2>3
<1>6. HistorySound(history', first, clock')
  BY <1>2, <1>3, <1>4, <1>5, SoundCons DEF new
<1>. QED  BY <1>1, <1>6, ChangesKeep

LEMMA RunFinishesKeeps ==
  ASSUME TrendsInv, RunFinishes
  PROVE  TrendsInv'
<1>1. Changes
  BY DEF RunFinishes
<1>2. /\ clock' \in Nat \ {0} /\ HistorySound(history, first, clock')
      /\ history \in Seq(RunSpace)
  BY <1>1, ChangesSound
<1>3. PICK i \in DOMAIN history, outcome \in {"success", "failure"} :
        history' = [history EXCEPT ![i].status = "completed", ![i].conclusion = outcome,
                                   ![i].updated = clock']
  BY DEF RunFinishes
<1>. DEFINE new == [history[i] EXCEPT !.status = "completed", !.conclusion = outcome,
                                      !.updated = clock']
<1>4. history' = [history EXCEPT ![i] = new]
  BY <1>2, <1>3
<1>5. /\ new \in RunSpace /\ new.id = history[i].id
      /\ new.created = history[i].created /\ new.names = history[i].names
  <2>1. history[i] \in RunSpace
    BY <1>2
  <2>. QED  BY <1>2, <2>1 DEF RunSpace, Conclusions
<1>. HIDE DEF new
<1>6. HistorySound(history', first, clock')
  BY <1>2, <1>4, <1>5, SoundExcept
<1>. QED  BY <1>1, <1>6, ChangesKeep

LEMMA RunsAgainKeeps ==
  ASSUME TrendsInv, RunsAgain
  PROVE  TrendsInv'
<1>1. Changes
  BY DEF RunsAgain
<1>2. /\ clock' \in Nat \ {0} /\ HistorySound(history, first, clock')
      /\ history \in Seq(RunSpace)
  BY <1>1, ChangesSound
<1>3. PICK i \in DOMAIN history : history' = [history EXCEPT ![i] = Begun(history[i])]
  BY DEF RunsAgain
<1>4. history[i] \in RunSpace
  BY <1>2
<1>5. HistorySound(history', first, clock')
  BY <1>2, <1>3, <1>4, BegunIs, SoundExcept
<1>. QED  BY <1>1, <1>5, ChangesKeep

LEMMA RunIsDeletedKeeps ==
  ASSUME TrendsInv, RunIsDeleted
  PROVE  TrendsInv'
<1>1. Changes
  BY DEF RunIsDeleted
<1>2. HistorySound(history, first, clock')
  BY <1>1, ChangesSound
<1>3. PICK i \in DOMAIN history : history' = RemoveAt(history, i)
  BY DEF RunIsDeleted
<1>4. HistorySound(history', first, clock')
  BY <1>2, <1>3, SoundRemoveAt
<1>. QED  BY <1>1, <1>4, ChangesKeep

LEMMA StutterKeeps ==
  ASSUME TrendsInv, UNCHANGED vars
  PROVE  TrendsInv'
<1>1. Scanned' = Scanned /\ BaselineFrom' = BaselineFrom /\ BaselineTo' = BaselineTo
  BY DEF vars, Scanned, FilterByWorkflow, BaselineFrom, BaselineTo
<1>2. Provider'
  BY ProviderKept DEF TrendsInv, vars
<1>3. Stages'
  BY DEF TrendsInv, Stages, vars
<1>4. Lists'
  BY <1>1 DEF TrendsInv, Lists, vars
<1>5. TestsFound'
  BY <1>1 DEF TrendsInv, TestsFound, vars
<1>. QED  BY <1>2, <1>3, <1>4, <1>5 DEF TrendsInv

-----------------------------------------------------------------------------
(* The theorems.                                                            *)

\* The inductive invariant: the lists are of their windows, of the runs that there were
\* when they were read, and the map of the tests is of the logs that have been read.
THEOREM TrendsInvariant == Spec => []TrendsInv
<1>1. TrendsInv /\ [Next]_vars => TrendsInv'
  BY RejectKeeps, AcceptKeeps, ListFailsKeeps, ReadCurrentKeeps, ReadBaselineKeeps,
     ReadRunsKeeps, SkipRunKeeps, LogsUnreadKeeps, ReadRunLogsKeeps, ReportKeeps,
     RunStartsKeeps, RunFinishesKeeps, RunsAgainKeeps, RunIsDeletedKeeps, StutterKeeps
     DEF Next
<1>. QED  BY InitInv, <1>1, PTL DEF Spec

\* What the lists of a snapshot have of a run that was there all the time: it is in the
\* list of a window only if it was created in the seconds of the window, and then it is
\* there or cut off.
LEMMA RunInWindow ==
  ASSUME TrendsInv, answer = "snapshot", NEW run \in ToSet(FilterByWorkflow(first)),
         run.id \in Ids(history)
  PROVE  LET inCurrent  == run.id \in Ids(FilterByWorkflow(current))
             inBaseline == run.id \in Ids(FilterByWorkflow(baseline))
         IN  /\ inCurrent => /\ Second(call.from) <= run.created
                             /\ run.created <= Second(call.to)
             /\ Second(call.from) <= run.created /\ run.created <= Second(call.to) =>
                  inCurrent \/ CutOff(run, current)
             /\ inBaseline => /\ Second(BaselineFrom) <= run.created
                              /\ run.created <= Second(BaselineTo)
             /\ Second(BaselineFrom) <= run.created /\ run.created <= Second(BaselineTo) =>
                  inBaseline \/ CutOff(run, baseline)
<1>. DEFINE inCurrent  == run.id \in Ids(FilterByWorkflow(current))
            inBaseline == run.id \in Ids(FilterByWorkflow(baseline))
<1>1. /\ first \in Seq(RunSpace) /\ HistorySound(first, first, Start)
      /\ HistorySound(history, first, clock)
      /\ current \in Seq(RunSpace) /\ baseline \in Seq(RunSpace)
      /\ ListSound(current, ToSet(first), call.from, call.to)
      /\ ListSound(baseline, ToSet(history), BaselineFrom, BaselineTo)
  BY FirstSound DEF TrendsInv, Provider, Lists, HistorySound
<1>2. run \in ToSet(first) /\ (call.workflow = "" \/ call.workflow \in run.names)
  BY <1>1, FilterKeeps
<1>3. PICK still \in ToSet(history) : still.id = run.id
  BY DEF Ids
<1>4. still.created = run.created /\ still.names = run.names
  BY <1>1, <1>2, <1>3 DEF HistorySound
<1>5. ASSUME inCurrent
      PROVE  Second(call.from) <= run.created /\ run.created <= Second(call.to)
  <2>1. PICK other \in ToSet(FilterByWorkflow(current)) : other.id = run.id
    BY <1>5 DEF Ids
  <2>2. other \in ToSet(current)
    BY <1>1, <2>1, FilterKeeps
  <2>3. /\ other \in ToSet(first)
        /\ Second(call.from) <= other.created /\ other.created <= Second(call.to)
    BY <1>1, <2>2 DEF ListSound
  <2>4. other.created = run.created
    BY <1>1, <1>2, <2>1, <2>3 DEF HistorySound
  <2>. QED  BY <2>3, <2>4
<1>6. ASSUME Second(call.from) <= run.created, run.created <= Second(call.to)
      PROVE  inCurrent \/ CutOff(run, current)
  <2>1. run \in ToSet(current) \/ CutOff(run, current)
    BY <1>1, <1>2, <1>6 DEF ListSound
  <2>2. run \in ToSet(current) => run \in ToSet(FilterByWorkflow(current))
    BY <1>1, <1>2, FilterKeeps
  <2>. QED  BY <2>1, <2>2, Zenon DEF Ids
<1>7. ASSUME inBaseline
      PROVE  Second(BaselineFrom) <= run.created /\ run.created <= Second(BaselineTo)
  <2>1. PICK other \in ToSet(FilterByWorkflow(baseline)) : other.id = run.id
    BY <1>7 DEF Ids
  <2>2. other \in ToSet(baseline)
    BY <1>1, <2>1, FilterKeeps
  <2>3. /\ other \in ToSet(history)
        /\ Second(BaselineFrom) <= other.created /\ other.created <= Second(BaselineTo)
    BY <1>1, <2>2 DEF ListSound
  <2>4. other.created = run.created
    BY <1>1, <1>2, <2>1, <2>3 DEF HistorySound
  <2>. QED  BY <2>3, <2>4
<1>8. ASSUME Second(BaselineFrom) <= run.created, run.created <= Second(BaselineTo)
      PROVE  inBaseline \/ CutOff(run, baseline)
  <2>1. still \in ToSet(baseline) \/ CutOff(still, baseline)
    BY <1>1, <1>3, <1>4, <1>8 DEF ListSound
  <2>2. still \in ToSet(baseline) => still \in ToSet(FilterByWorkflow(baseline))
    BY <1>1, <1>2, <1>4, FilterKeeps
  <2>3. CutOff(still, baseline) => CutOff(run, baseline)
    BY <1>4 DEF CutOff
  <2>. QED  BY <1>3, <2>1, <2>2, <2>3, Zenon DEF Ids
<1>. QED  BY <1>5, <1>6, <1>7, <1>8

\* Every run that was there all the time is counted in the window that it was created
\* in and in no other, but for the second in which the windows meet and the limit.
THEOREM WindowsCoverHolds == Spec => []WindowsCover
<1>1. TrendsInv => WindowsCover
  <2>. SUFFICES ASSUME TrendsInv, answer = "snapshot",
                       NEW run \in {r \in ToSet(FilterByWorkflow(first)) : r.id \in Ids(history)}
                PROVE
                  LET before == 2 * call.from - call.to
                      inCurrent  == run.id \in Ids(FilterByWorkflow(current))
                      inBaseline == run.id \in Ids(FilterByWorkflow(baseline))
                  IN  /\ run.created > call.from /\ run.created <= call.to =>
                           ~inBaseline /\ (inCurrent \/ CutOff(run, current))
                      /\ run.created < Second(call.from) /\ run.created >= before =>
                           ~inCurrent /\ (inBaseline \/ CutOff(run, baseline))
                      /\ run.created = Second(call.from) =>
                           /\ inCurrent \/ CutOff(run, current)
                           /\ inBaseline \/ CutOff(run, baseline)
                      /\ run.created > call.to \/ run.created < Second(before) =>
                           ~inCurrent /\ ~inBaseline
    BY Zenon DEF WindowsCover
  <2>. DEFINE inCurrent  == run.id \in Ids(FilterByWorkflow(current))
              inBaseline == run.id \in Ids(FilterByWorkflow(baseline))
              cutCurrent == CutOff(run, current)  cutBaseline == CutOff(run, baseline)
              c == run.created  from == call.from  to == call.to
              before == 2 * call.from - call.to
  <2>1. /\ inCurrent => Second(from) <= c /\ c <= Second(to)
        /\ Second(from) <= c /\ c <= Second(to) => inCurrent \/ cutCurrent
        /\ inBaseline => Second(BaselineFrom) <= c /\ c <= Second(BaselineTo)
        /\ Second(BaselineFrom) <= c /\ c <= Second(BaselineTo) => inBaseline \/ cutBaseline
    BY RunInWindow
  <2>2. from \in Nat /\ to \in Nat /\ from < to
    BY TrendsAssumption DEF TrendsInv, Stages, CallSpace
  <2>3. before \in Int /\ before <= from /\ BaselineFrom = before /\ BaselineTo = from
    BY <2>2 DEF BaselineFrom, BaselineTo
  <2>4. c \in Nat /\ c % TicksPerSecond = 0
    <3>1. first \in Histories /\ first \in Seq(RunSpace)
      BY TrendsAssumption DEF TrendsInv, Provider
    <3>2. run \in ToSet(first)
      BY <3>1, FilterKeeps
    <3>3. run \in RunSpace
      BY <3>1, <3>2 DEF ToSet
    <3>. QED  BY <3>1, <3>2, <3>3, FirstSound DEF RunSpace
  <2>. HIDE DEF inCurrent, inBaseline, cutCurrent, cutBaseline, c, from, to, before
  <2>5. /\ Second(before) <= Second(from) /\ Second(from) <= Second(to)
        /\ Second(before) \in Int /\ Second(from) \in Int /\ Second(to) \in Int
        /\ Second(before) <= before /\ Second(from) <= from /\ Second(to) <= to
    <3>1. /\ Second(before) <= Second(from) /\ Second(before) \in Int /\ Second(from) \in Int
          /\ Second(from) <= from
      BY <2>2, <2>3, SecondOrder
    <3>2. Second(from) <= Second(to) /\ Second(to) \in Int /\ Second(to) <= to
      BY <2>2, SecondOrder
    <3>3. Second(before) <= before
      BY <2>3, SecondOrder
    <3>. QED  BY <3>1, <3>2, <3>3
  <2>6. c <= to => c <= Second(to)
    BY <2>2, <2>4, SecondOfWhole
  <2>7. c > from /\ c <= to => ~inBaseline /\ (inCurrent \/ cutCurrent)
    BY <2>1, <2>2, <2>3, <2>4, <2>5, <2>6
  <2>8. c < Second(from) /\ c >= before => ~inCurrent /\ (inBaseline \/ cutBaseline)
    BY <2>1, <2>2, <2>3, <2>4, <2>5
  <2>9. c = Second(from) => (inCurrent \/ cutCurrent) /\ (inBaseline \/ cutBaseline)
    BY <2>1, <2>2, <2>3, <2>4, <2>5
  <2>10. c > to \/ c < Second(before) => ~inCurrent /\ ~inBaseline
    BY <2>1, <2>2, <2>3, <2>4, <2>5
  <2>. QED  BY <2>7, <2>8, <2>9, <2>10
            DEF inCurrent, inBaseline, cutCurrent, cutBaseline, c, from, to, before
<1>. QED  BY <1>1, TrendsInvariant, PTL

\* What the map says of a test is what the logs that were read have said, whatever the
\* order of the runs, and the report leaves out none that failed more often.
THEOREM FlakyCountsMatchHolds == Spec => []FlakyCountsMatch
<1>1. TrendsInv => FlakyCountsMatch
  <2>. SUFFICES ASSUME TrendsInv, pc = "logs" \/ answer = "report"
                PROVE
                  LET seenIn(t) == {i \in DOMAIN named : t \in named[i]}
                      unread == {i \in 1 .. next - 1 : RunFailed(Scanned[i])} \ DOMAIN named
                  IN  /\ DOMAIN aggregates = UNION Range(named)
                      /\ \A t \in DOMAIN aggregates :
                           /\ aggregates[t].count = Cardinality(seenIn(t))
                           /\ aggregates[t].count + Cardinality(unread) <= failedRuns
                           /\ aggregates[t].lastSeenAt
                                = Max({Scanned[i].updated : i \in seenIn(t)})
                      /\ answer = "report" =>
                           \A t \in DOMAIN aggregates \ ToSet(top) :
                             /\ Len(top) = TopSize
                             /\ \A i \in DOMAIN top :
                                  aggregates[top[i]].count >= aggregates[t].count
    BY Zenon DEF FlakyCountsMatch
  <2>1. LoopOf(Scanned, next, failedRuns, named, aggregates)
    BY DEF TrendsInv, TestsFound
  <2>2. Scanned \in Seq(RunSpace)
    BY FilterKeeps DEF TrendsInv, Lists, Scanned
  <2>3. DOMAIN aggregates = UNION Range(named)
    BY <2>1 DEF LoopOf
  <2>4. ASSUME NEW t \in DOMAIN aggregates
        PROVE  /\ aggregates[t].count = Cardinality(SeenOf(named, t))
               /\ aggregates[t].count
                    + Cardinality(FailedOf(Scanned, next) \ DOMAIN named) <= failedRuns
               /\ aggregates[t].lastSeenAt = LastOf(Scanned, SeenOf(named, t))
    <3>1. aggregates[t].count = Cardinality(SeenOf(named, t))
      BY <2>1 DEF LoopOf
    <3>2. aggregates[t].count + Cardinality(FailedOf(Scanned, next) \ DOMAIN named) <= failedRuns
      BY <2>1, <2>2, LoopCounts
    <3>3. aggregates[t].lastSeenAt = LastOf(Scanned, SeenOf(named, t))
      BY <2>1, <2>2, LoopLatest
    <3>. QED  BY <3>1, <3>2, <3>3
  <2>5. answer = "report" => TopSound(aggregates, top)
    BY DEF TrendsInv, TestsFound
  <2>. QED  BY <2>3, <2>4, <2>5, Zenon DEF SeenOf, FailedOf, LastOf, TopSound
<1>. QED  BY <1>1, TrendsInvariant, PTL

\* The variables of the two tools keep to their types, no list passes the limit, and no
\* run is older than the longest lookback.
THEOREM TrendsTypeCorrect == Spec => []TypeOK
<1>1. TrendsInv => TypeOK
  <2>. SUFFICES ASSUME TrendsInv
                PROVE  TypeOK
    OBVIOUS
  <2>1. Runs \subseteq RunSpace
    <3>1. /\ history \in Seq(RunSpace) /\ first \in Seq(RunSpace)
          /\ current \in Seq(RunSpace) /\ baseline \in Seq(RunSpace)
      BY TrendsAssumption DEF TrendsInv, Provider, HistorySound, Lists
    <3>2. \A s \in Seq(RunSpace) : ToSet(s) \subseteq RunSpace
      BY DEF ToSet
    <3>. QED  BY <3>1, <3>2, Zenon DEF Runs
  <2>2. Longest \in Nat \ {0} /\ TopSize \in Nat
    BY LongestIs, TrendsAssumption
  <2>3. {Len(current), Len(baseline)} \subseteq 0 .. Longest
    <3>1. Len(current) \in Nat /\ Len(baseline) \in Nat
      BY DEF TrendsInv, Lists
    <3>. QED  BY <2>2, <3>1 DEF TrendsInv, Lists
  <2>4. /\ next \in 1 .. Longest + 1
        /\ failedRuns \in 0 .. Longest
        /\ DOMAIN aggregates \subseteq Tests
        /\ \A t \in DOMAIN aggregates :
             aggregates[t] \in [count : 1 .. Longest, lastSeenAt : Nat]
        /\ DOMAIN named \subseteq 1 .. Longest /\ UNION Range(named) \subseteq Tests
    <3>1. CASE pc = "logs" \/ answer = "report"
      <4>1. LoopOf(Scanned, next, failedRuns, named, aggregates)
        BY <3>1 DEF TrendsInv, TestsFound
      <4>2. Scanned \in Seq(RunSpace) /\ Len(Scanned) <= Longest
        <5>1. /\ current \in Seq(RunSpace) /\ Len(current) <= Longest
          BY DEF TrendsInv, Lists
        <5>2. Scanned \in Seq(RunSpace) /\ Len(Scanned) <= Len(current)
          BY <5>1, FilterKeeps DEF Scanned
        <5>3. Len(Scanned) \in Nat /\ Len(current) \in Nat
          BY <5>1, <5>2
        <5>. QED  BY <2>2, <5>1, <5>2, <5>3
      <4>3. next \in 1 .. Len(Scanned) + 1 /\ Len(Scanned) \in Nat
        BY <4>1, <4>2 DEF LoopOf
      <4>4. next \in 1 .. Longest + 1 /\ next \in Nat \ {0}
        BY <2>2, <4>2, <4>3
      <4>5. failedRuns \in 0 .. Longest
        <5>1. failedRuns \in 0 .. next - 1
          BY <4>1, <4>4, FailedFinite DEF LoopOf
        <5>. QED  BY <2>2, <4>4, <5>1
      <4>6. UNION Range(named) \subseteq Tests /\ DOMAIN aggregates \subseteq Tests
        <5>1. /\ DOMAIN aggregates = UNION Range(named)
              /\ \A i \in DOMAIN named : named[i] \subseteq Tests
          BY <4>1 DEF LoopOf
        <5>. QED  BY <5>1, Zenon DEF Range
      <4>7. DOMAIN named \subseteq 1 .. Longest
        <5>1. DOMAIN named \subseteq 1 .. next - 1
          BY <4>1 DEF LoopOf, FailedOf
        <5>. QED  BY <2>2, <4>4, <5>1
      <4>8. ASSUME NEW t \in DOMAIN aggregates
            PROVE  aggregates[t] \in [count : 1 .. Longest, lastSeenAt : Nat]
        <5>. DEFINE unread == Cardinality(FailedOf(Scanned, next) \ DOMAIN named)
        <5>1. /\ aggregates[t].count \in Nat \ {0}
              /\ aggregates[t].count + unread <= failedRuns
          BY <4>1, <4>2, LoopCounts
        <5>2. unread \in Nat
          BY <4>4, FailedFinite, FS_Difference, FS_CardinalityType
        <5>. HIDE DEF unread
        <5>3. aggregates[t].count \in 1 .. Longest
          BY <2>2, <4>5, <5>1, <5>2
        <5>4. aggregates[t] \in [count : Nat, lastSeenAt : Nat]
          BY <4>1 DEF LoopOf
        <5>. QED  BY <5>3, <5>4
      <4>. QED  BY <4>4, <4>5, <4>6, <4>7, <4>8
    <3>2. CASE pc # "logs" /\ answer # "report"
      <4>1. next = 1 /\ failedRuns = 0 /\ aggregates = <<>> /\ named = <<>>
        BY <3>2 DEF TrendsInv, TestsFound
      <4>2. DOMAIN <<>> = {} /\ UNION Range(<<>>) = {}
        <5>1. DOMAIN <<>> = {}
          OBVIOUS
        <5>. QED  BY <5>1, Zenon DEF Range
      <4>3. 1 \in 1 .. Longest + 1 /\ 0 \in 0 .. Longest
        BY <2>2
      <4>. QED  BY <4>1, <4>2, <4>3
    <3>. QED  BY <3>1, <3>2
  <2>5. ToSet(top) \subseteq Tests /\ Len(top) <= TopSize
    <3>1. CASE answer = "report"
      BY <3>1 DEF TrendsInv, TestsFound, TopSound, ToSet
    <3>2. CASE answer # "report"
      <4>1. top = <<>>
        BY <3>2 DEF TrendsInv, TestsFound
      <4>. QED  BY <2>2, <4>1 DEF ToSet
    <3>. QED  BY <3>1, <3>2
  <2>6. /\ clock \in Start .. End /\ call \in Calls
        /\ pc \in {"idle", "current", "baseline", "runs", "logs", "answered"}
        /\ answer \in Codes \cup {"none", "snapshot", "report"}
        /\ call.tool = "flaky" =>
             \A run \in ToSet(current) : run.created >= Second(clock - MaxLookback * Day)
    BY DEF TrendsInv, Provider, Stages, Lists
  <2>. QED  BY <2>1, <2>3, <2>4, <2>5, <2>6, Zenon DEF TypeOK
<1>. QED  BY <1>1, TrendsInvariant, PTL

\* A snapshot is that of the lists that were read for it.
SnapshotIs ==
  answer = "snapshot" =>
    snapshot = BuildPerformanceSnapshot(FilterByWorkflow(current), FilterByWorkflow(baseline))

LEMMA SnapshotKept ==
  ASSUME TrendsInv, SnapshotIs, [Next]_vars
  PROVE  SnapshotIs'
<1>1. CASE ReadBaseline
  <2>1. /\ snapshot' = BuildPerformanceSnapshot(FilterByWorkflow(current),
                                                FilterByWorkflow(baseline'))
        /\ UNCHANGED <<call, current>>
    BY <1>1 DEF ReadBaseline
  <2>2. FilterByWorkflow(current)' = FilterByWorkflow(current)
    BY <2>1 DEF FilterByWorkflow
  <2>3. FilterByWorkflow(baseline)' = FilterByWorkflow(baseline')
    BY <2>1 DEF FilterByWorkflow
  <2>. QED  BY <2>1, <2>2, <2>3 DEF SnapshotIs
<1>2. CASE ~ReadBaseline
  <2>1. answer' = "snapshot" =>
          answer = "snapshot" /\ UNCHANGED <<call, current, baseline, snapshot>>
    <3>1. CASE Reject
      BY <3>1 DEF Reject, Return
    <3>2. CASE Accept
      BY <3>2 DEF Accept, TrendsInv, Stages
    <3>3. CASE ListFails \/ RunsUnread
      <4>1. PICK err \in Errors : answer' = MapError(err)
        BY <3>3 DEF ListFails, RunsUnread, Return
      <4>2. answer' \in Codes
        BY <4>1, SMT DEF MapError, Errors, Sentinels, Unwrapped, Codes
      <4>. QED  BY <4>2 DEF Codes
    <3>4. CASE ReadCurrent \/ ReadRuns
      BY <3>4 DEF ReadCurrent, ReadRuns, TrendsInv, Stages
    <3>5. CASE SkipRun \/ LogsUnread \/ \E names \in TestNames : ReadRunLogs(names)
      BY <3>5 DEF SkipRun, LogsUnread, ReadRunLogs
    <3>6. CASE Report
      BY <3>6 DEF Report, Return
    <3>7. CASE RunStarts \/ RunFinishes \/ RunsAgain \/ RunIsDeleted
      BY <3>7 DEF RunStarts, RunFinishes, RunsAgain, RunIsDeleted, Changes
    <3>8. CASE UNCHANGED vars
      BY <3>8 DEF vars
    <3>. QED  BY <1>2, <3>1, <3>2, <3>3, <3>4, <3>5, <3>6, <3>7, <3>8 DEF Next
  <2>2. UNCHANGED <<call, current, baseline>> =>
          /\ FilterByWorkflow(current)' = FilterByWorkflow(current)
          /\ FilterByWorkflow(baseline)' = FilterByWorkflow(baseline)
    BY DEF FilterByWorkflow
  <2>. QED  BY <2>1, <2>2, Zenon DEF SnapshotIs
<1>. QED  BY <1>1, <1>2

\* Whatever runs a window has, the metrics of its snapshot agree with what get_run tells
\* of each of them: the average wait, the median that splits the durations, the classes
\* that leave out no run, and the flaky commits.
THEOREM SnapshotMatchesRunsHolds == Spec => []SnapshotMatchesRuns
<1>1. Init => SnapshotIs
  BY DEF Init, SnapshotIs
<1>2. TrendsInv /\ SnapshotIs /\ [Next]_vars => SnapshotIs'
  BY SnapshotKept
<1>3. TrendsInv /\ SnapshotIs => SnapshotMatchesRuns
  <2>. SUFFICES ASSUME TrendsInv, SnapshotIs, answer = "snapshot"
                PROVE  /\ Agrees(snapshot.current, FilterByWorkflow(current))
                       /\ Agrees(snapshot.baseline, FilterByWorkflow(baseline))
    BY DEF SnapshotMatchesRuns
  <2>1. /\ FilterByWorkflow(current) \in Seq(RunSpace)
        /\ FilterByWorkflow(baseline) \in Seq(RunSpace)
    BY FilterKeeps DEF TrendsInv, Lists
  <2>2. /\ snapshot.current = WindowMetrics(FilterByWorkflow(current))
        /\ snapshot.baseline = WindowMetrics(FilterByWorkflow(baseline))
    BY DEF SnapshotIs, BuildPerformanceSnapshot
  <2>. QED  BY <2>1, <2>2, MetricsAgree
<1>. QED  BY <1>1, <1>2, <1>3, TrendsInvariant, PTL DEF Spec
=============================================================================
