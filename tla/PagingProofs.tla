---------------------------- MODULE PagingProofs ----------------------------
(***************************************************************************)
(* Theorems about Paging for lists of every length, pages of every size    *)
(* and any number of arrivals and departures.  PagingInv is the inductive  *)
(* invariant.  It accounts for the two ways in which a list drifts: past   *)
(* the client's position, where an element is met again, and behind it,    *)
(* where one is never met.                                                 *)
(***************************************************************************)
EXTENDS Paging, FiniteSetTheorems, TLAPS

\* The numbers that have been given to an element.
Known == 1 .. Len(first) + Cardinality(arrivals)

\* The client's position is after as many elements of the list as it has gathered:
\* the elements gathered that are now ahead of it, to be met again,
Again == {list[a] : a \in {b \in Len(runs) + 1 .. Len(list) : list[b] \in Returned}}

\* and the elements of the first list not gathered that are now behind it.
Behind ==
  {first[i] : i \in {k \in DOMAIN first :
     first[k] \notin Returned /\ \E a \in DOMAIN list : a <= Len(runs) /\ list[a] = first[k]}}

\* No element is listed twice, none that left comes back, and those of the first list
\* keep their order.
ListSound ==
  /\ IsFiniteSet(arrivals) /\ IsFiniteSet(departures)
  /\ IsInjective(list) /\ IsInjective(first)
  /\ ToSet(list) \cup Returned \cup arrivals \cup departures \subseteq Known
  /\ ToSet(first) \subseteq 1 .. Len(first)
  /\ departures \cap ToSet(list) = {}
  /\ ToSet(first) \ departures \subseteq ToSet(list)
  /\ \A i, j \in DOMAIN first, a, b \in DOMAIN list :
       list[a] = first[i] /\ list[b] = first[j] /\ i < j => a < b

\* While the client goes on it has gathered whole pages, and less than the limit.
LoopOrdered ==
  /\ pc = "idle" => runs = <<>> /\ page = 1
  /\ pc = "loop" => perPage > 0 /\ Len(runs) < limit /\ Len(runs) = (page - 1) * perPage

\* Each arrival has pushed at most one element ahead of the position: it will be, or
\* has been, returned again.
AgainBounded == Repeats + Cardinality(Again) <= Cardinality(arrivals)

\* Each departure has pulled at most one element behind it.
BehindBounded == Cardinality(Behind \cup Skipped) <= Cardinality(departures)

PagingInv ==
  /\ TypeOK
  /\ ListSound
  /\ LoopOrdered
  /\ AgainBounded
  /\ BehindBounded
  /\ EndSeenIsComplete

-----------------------------------------------------------------------------
(* Lemmas about the operators.                                              *)

\* Where the elements of two sequences are in their concatenation.
LEMMA Joined ==
  ASSUME NEW s \in Seq(Nat), NEW t \in Seq(Nat)
  PROVE  /\ s \o t \in Seq(Nat)
         /\ Len(s \o t) = Len(s) + Len(t)
         /\ \A b \in 1 .. Len(s) + Len(t) :
              (s \o t)[b] = IF b <= Len(s) THEN s[b] ELSE t[b - Len(s)]
OBVIOUS

\* What a part of a sequence holds.
LEMMA Cut ==
  ASSUME NEW s \in Seq(Nat), NEW m \in Nat, NEW n \in Nat, n <= Len(s)
  PROVE  LET t == SubSeq(s, m + 1, n)
         IN  /\ t \in Seq(Nat)
             /\ Len(t) = IF m < n THEN n - m ELSE 0
             /\ \A b \in 1 .. Len(t) : t[b] = s[m + b]
BY SMTT(30)

\* Where the elements of a sequence are after an insertion.
LEMMA InsertAtShifts ==
  ASSUME NEW s \in Seq(Nat), NEW i \in 1 .. Len(s) + 1, NEW e \in Nat
  PROVE  LET t == InsertAt(s, i, e)
         IN  /\ t \in Seq(Nat)
             /\ Len(t) = Len(s) + 1
             /\ \A b \in 1 .. Len(t) :
                  t[b] = IF b < i THEN s[b] ELSE IF b = i THEN e ELSE s[b - 1]
<1>. DEFINE before == SubSeq(s, 1, i - 1) \o <<e>>  after == SubSeq(s, i, Len(s))
<1>1. /\ before \in Seq(Nat) /\ Len(before) = i
      /\ \A b \in 1 .. i : before[b] = IF b < i THEN s[b] ELSE e
  OBVIOUS
<1>2. /\ after \in Seq(Nat) /\ Len(after) = Len(s) - i + 1
      /\ \A b \in 1 .. Len(s) - i + 1 : after[b] = s[i + b - 1]
  OBVIOUS
<1>3. InsertAt(s, i, e) = before \o after
  BY DEF InsertAt
<1>. HIDE DEF before, after
<1>4. /\ before \o after \in Seq(Nat)
      /\ Len(before \o after) = Len(before) + Len(after)
      /\ \A b \in 1 .. Len(before) + Len(after) :
           (before \o after)[b] = IF b <= Len(before) THEN before[b] ELSE after[b - Len(before)]
  BY <1>1, <1>2, Joined
<1>5. ASSUME NEW b \in 1 .. Len(s) + 1
      PROVE  (before \o after)[b] = IF b < i THEN s[b] ELSE IF b = i THEN e ELSE s[b - 1]
  <2>. Len(s) \in Nat /\ i \in Int /\ b \in Int
    OBVIOUS
  <2>1. CASE b <= i
    BY <1>1, <1>2, <1>4, <2>1
  <2>2. CASE b > i
    <3>1. b - i \in 1 .. Len(s) - i + 1 /\ i + (b - i) - 1 = b - 1
      BY <2>2
    <3>2. (before \o after)[b] = after[b - i]
      BY SMTT(30), <1>1, <1>2, <1>4, <2>2
    <3>. QED  BY <1>2, <2>2, <3>1, <3>2
  <2>3. b <= i \/ b > i
    OBVIOUS
  <2>. QED  BY <2>1, <2>2, <2>3, Zenon
<1>6. /\ before \o after \in Seq(Nat)
      /\ Len(before \o after) = Len(s) + 1
  BY <1>1, <1>2, <1>4
<1>. QED  BY <1>3, <1>5, <1>6

\* Where they are after a removal.
LEMMA RemoveAtShifts ==
  ASSUME NEW s \in Seq(Nat), NEW i \in 1 .. Len(s)
  PROVE  LET t == RemoveAt(s, i)
         IN  /\ t \in Seq(Nat)
             /\ Len(t) = Len(s) - 1
             /\ \A b \in 1 .. Len(t) : t[b] = IF b < i THEN s[b] ELSE s[b + 1]
<1>. DEFINE before == SubSeq(s, 1, i - 1)  after == SubSeq(s, i + 1, Len(s))
<1>1. /\ before \in Seq(Nat) /\ Len(before) = i - 1
      /\ \A b \in 1 .. i - 1 : before[b] = s[b]
  OBVIOUS
<1>2. /\ after \in Seq(Nat) /\ Len(after) = Len(s) - i
      /\ \A b \in 1 .. Len(s) - i : after[b] = s[i + b]
  OBVIOUS
<1>3. RemoveAt(s, i) = before \o after
  BY DEF RemoveAt
<1>. HIDE DEF before, after
<1>4. /\ before \o after \in Seq(Nat)
      /\ Len(before \o after) = Len(before) + Len(after)
      /\ \A b \in 1 .. Len(before) + Len(after) :
           (before \o after)[b] = IF b <= Len(before) THEN before[b] ELSE after[b - Len(before)]
  BY <1>1, <1>2, Joined
<1>5. ASSUME NEW b \in 1 .. Len(s) - 1
      PROVE  (before \o after)[b] = IF b < i THEN s[b] ELSE s[b + 1]
  <2>. Len(s) \in Nat /\ i \in Int /\ b \in Int
    OBVIOUS
  <2>1. CASE b < i
    BY SMTT(30), <1>1, <1>2, <1>4, <2>1
  <2>2. CASE b >= i
    <3>1. b - (i - 1) \in 1 .. Len(s) - i /\ i + (b - (i - 1)) = b + 1
      BY <2>2
    <3>2. b \in 1 .. Len(before) + Len(after) /\ ~ (b <= Len(before))
      BY <1>1, <1>2, <2>2
    <3>3. (before \o after)[b] = after[b - Len(before)]
      BY <1>4, <3>2
    <3>4. after[b - (i - 1)] = s[b + 1]
      BY <1>2, <3>1
    <3>5. ~ (b < i)
      BY <2>2
    <3>. QED  BY <1>1, <3>3, <3>4, <3>5
  <2>3. b < i \/ b >= i
    OBVIOUS
  <2>. QED  BY <2>1, <2>2, <2>3, Zenon
<1>6. /\ before \o after \in Seq(Nat)
      /\ Len(before \o after) = Len(s) - 1
  BY <1>1, <1>2, <1>4
<1>. QED  BY <1>3, <1>5, <1>6

\* The number of elements of pages before a page, and with it.
LEMMA PageEnds ==
  ASSUME NEW n \in Nat \ {0}, NEW size \in Nat
  PROVE  /\ (n - 1) * size \in Nat
         /\ n * size = (n - 1) * size + size
         /\ size * n = n * size
OBVIOUS

\* A part of a sequence without repeats has as many elements as positions.
LEMMA PartCardinality ==
  ASSUME NEW s \in Seq(Nat), IsInjective(s), NEW m \in Nat, NEW n \in Nat, m <= n,
         n > m => n <= Len(s)
  PROVE  LET part == {s[a] : a \in m + 1 .. n}
         IN  IsFiniteSet(part) /\ Cardinality(part) = n - m
<1>1. IsFiniteSet(m + 1 .. n) /\ Cardinality(m + 1 .. n) = n - m
  <2>1. m + 1 \in Int /\ n \in Int
    OBVIOUS
  <2>2. /\ IsFiniteSet(m + 1 .. n)
        /\ Cardinality(m + 1 .. n) = IF m + 1 > n THEN 0 ELSE n - (m + 1) + 1
    BY <2>1, FS_Interval, Zenon
  <2>. QED  BY <2>2
<1>. DEFINE part == {s[a] : a \in m + 1 .. n}
            f == [a \in m + 1 .. n |-> s[a]]
<1>2. f \in [m + 1 .. n -> part]
  OBVIOUS
<1>3. \A x \in part : \E a \in m + 1 .. n : f[a] = x
  OBVIOUS
<1>4. IsInjective(f)
  <2>1. \A a \in m + 1 .. n : a \in DOMAIN s
    OBVIOUS
  <2>. QED  BY <2>1 DEF IsInjective
<1>5. f \in Surjection(m + 1 .. n, part) /\ f \in Injection(m + 1 .. n, part)
  BY <1>2, <1>3, <1>4 DEF Surjection, Injection
<1>6. IsFiniteSet(part) /\ Cardinality(part) = Cardinality(m + 1 .. n)
  BY <1>1, <1>5, FS_Surjection
<1>. QED  BY <1>1, <1>6 DEF part

\* The sets that the invariant counts are finite.
LEMMA Counted ==
  ASSUME TypeOK, ListSound
  PROVE  /\ Cardinality(arrivals) \in Nat /\ Cardinality(departures) \in Nat
         /\ IsFiniteSet(Returned) /\ Cardinality(Returned) \in Nat
         /\ IsFiniteSet(Again) /\ Cardinality(Again) \in Nat
         /\ IsFiniteSet(Behind \cup Skipped) /\ Cardinality(Behind \cup Skipped) \in Nat
         /\ IsFiniteSet(Missed) /\ Cardinality(Missed) \in Nat
<1>1. Cardinality(arrivals) \in Nat /\ Cardinality(departures) \in Nat
  BY FS_CardinalityType DEF ListSound
<1>2. IsFiniteSet(ToSet(first)) /\ IsFiniteSet(Known)
  <2>1. IsFiniteSet(1 .. Len(first)) /\ IsFiniteSet(Known)
    BY <1>1, FS_Interval DEF TypeOK, Known
  <2>. QED  BY <2>1, FS_Subset DEF ListSound
<1>3. Returned \subseteq Known /\ Again \subseteq Known
  BY DEF ListSound, Again, ToSet, TypeOK
<1>4. Behind \cup Skipped \subseteq ToSet(first) /\ Missed \subseteq ToSet(first)
  BY DEF Behind, Skipped, Missed, ToSet
<1>5. /\ IsFiniteSet(Returned) /\ IsFiniteSet(Again)
      /\ IsFiniteSet(Behind \cup Skipped) /\ IsFiniteSet(Missed)
  BY <1>2, <1>3, <1>4, FS_Subset
<1>. QED  BY <1>1, <1>5, FS_CardinalityType

-----------------------------------------------------------------------------
(* A turn of the loop.                                                      *)

\* What a page adds: the elements of the list from the client's position on.  The
\* position is the number of elements gathered, as long as whole pages were.
LEMMA FetchTakes ==
  ASSUME TypeOK, LoopOrdered, FetchPage
  PROVE  /\ runs' \in Seq(Nat)
         /\ Len(runs) <= Len(runs') /\ Len(runs') <= Len(runs) + perPage
         /\ Len(runs') > Len(runs) => Len(runs') <= Len(list)
         /\ \A b \in 1 .. Len(runs) : runs'[b] = runs[b]
         /\ \A b \in Len(runs) + 1 .. Len(runs') : runs'[b] = list[b]
         /\ pc' = "loop" => Len(runs') = Len(runs) + perPage /\ Len(runs') < limit
         /\ Len(runs') < limit /\ Len(runs') < Len(runs) + perPage =>
              Len(list) <= Len(runs')
<1>. DEFINE P == Len(runs)
            got == PageOf(page)
            all == runs \o got
<1>1. /\ P \in Nat /\ perPage \in Nat /\ Len(list) \in Nat /\ limit \in Nat
      /\ P < limit /\ perPage > 0 /\ (page - 1) * perPage = P /\ page * perPage = P + perPage
  <2>1. /\ P \in Nat /\ perPage \in Nat /\ Len(list) \in Nat /\ limit \in Nat
        /\ page \in Nat \ {0}
    BY PagingAssumption DEF TypeOK
  <2>2. P < limit /\ perPage > 0 /\ P = (page - 1) * perPage
    BY DEF LoopOrdered, FetchPage
  <2>3. page * perPage = (page - 1) * perPage + perPage
    BY <2>1, PageEnds
  <2>. QED  BY <2>1, <2>2, <2>3
<1>. DEFINE upTo == Lesser(P + perPage, Len(list))
<1>2. got = SubSeq(list, P + 1, upTo)
  BY <1>1 DEF PageOf
<1>3. /\ upTo \in Nat /\ upTo <= Len(list) /\ upTo <= P + perPage
      /\ upTo < P + perPage => upTo = Len(list)
  BY <1>1 DEF Lesser
<1>. HIDE DEF got, upTo
<1>4. /\ got \in Seq(Nat)
      /\ Len(got) = IF P < upTo THEN upTo - P ELSE 0
      /\ \A b \in 1 .. Len(got) : got[b] = list[P + b]
  <2>1. /\ list \in Seq(Nat) /\ P \in Nat
    BY <1>1 DEF TypeOK
  <2>. HIDE DEF P
  <2>. QED  BY <1>2, <1>3, <2>1, Cut
<1>5. /\ all \in Seq(Nat) /\ Len(all) = P + Len(got)
      /\ \A b \in 1 .. P + Len(got) : all[b] = IF b <= P THEN runs[b] ELSE got[b - P]
  BY <1>4, Joined DEF TypeOK
<1>. HIDE DEF all
<1>6. \A b \in P + 1 .. P + Len(got) : all[b] = list[b]
  <2>. SUFFICES ASSUME NEW b \in P + 1 .. P + Len(got)
                PROVE  all[b] = list[b]
    OBVIOUS
  <2>1. b - P \in 1 .. Len(got) /\ P + (b - P) = b /\ b \in 1 .. P + Len(got) /\ ~ (b <= P)
    BY <1>1, <1>4
  <2>. QED  BY <1>4, <1>5, <2>1
<1>. DEFINE last == Len(got) < perPage \/ Len(all) >= limit \/ page = MaxPages
            kept == Lesser(Len(all), limit)
<1>7. /\ runs' = IF last THEN SubSeq(all, 1, kept) ELSE all
      /\ pc' = IF last THEN "done" ELSE "loop"
  BY DEF FetchPage, Truncated, all, got
<1>8. /\ kept \in Nat /\ P <= kept /\ kept <= Len(all)
      /\ kept < limit => kept = Len(all)
  BY <1>1, <1>4, <1>5 DEF Lesser
<1>9. /\ 0 <= Len(got) /\ Len(got) \in Int
      /\ Len(got) <= perPage /\ (Len(got) > 0 => P + Len(got) <= Len(list))
      /\ Len(got) < perPage => P + Len(got) >= Len(list)
  BY <1>1, <1>3, <1>4
<1>. HIDE DEF last, kept, P
<1>10. CASE ~ last
  <2>1. runs' = all /\ Len(got) = perPage /\ Len(all) < limit /\ Len(all) = P + Len(got)
    BY <1>1, <1>5, <1>7, <1>9, <1>10 DEF last
  <2>. QED  BY <1>1, <1>5, <1>6, <1>9, <2>1 DEF P
<1>11. CASE last
  <2>1. runs' = SubSeq(all, 1, kept) /\ pc' = "done"
    BY <1>7, <1>11
  <2>2. /\ runs' \in Seq(Nat) /\ Len(runs') = kept
        /\ \A b \in 1 .. kept : runs'[b] = all[b]
    BY <1>1, <1>5, <1>8, <2>1
  <2>3. \A b \in 1 .. P : runs'[b] = runs[b]
    BY <1>1, <1>5, <1>8, <1>9, <2>2
  <2>4. \A b \in P + 1 .. kept : runs'[b] = list[b]
    BY <1>1, <1>5, <1>6, <1>8, <1>9, <2>2
  <2>5. /\ kept <= P + perPage
        /\ kept > P => kept <= Len(list)
        /\ kept < limit /\ kept < P + perPage => Len(list) <= kept
    BY <1>1, <1>5, <1>8, <1>9
  <2>. QED  BY <1>8, <2>1, <2>2, <2>3, <2>4, <2>5 DEF P
<1>. QED  BY <1>10, <1>11

\* A turn of the loop moves the position over N, what the page adds: nothing new
\* comes to be ahead of it or behind it, and what was ahead and is in N is repeated.
LEMMA FetchKeepsInv ==
  ASSUME PagingInv, FetchPage
  PROVE  PagingInv'
<1>. USE DEF PagingInv
<1>. DEFINE P == Len(runs)
            K == Len(runs')
            N == {list[b] : b \in P + 1 .. K}
<1>1. /\ UNCHANGED <<limit, perPage, list, first, arrivals, departures>>
      /\ pc = "loop" /\ page' = page + 1
      /\ pc' \in {"loop", "done"}
  BY DEF FetchPage, envVars
<1>2. /\ runs' \in Seq(Nat) /\ P \in Nat /\ K \in Nat
      /\ P <= K /\ K <= P + perPage
      /\ K > P => K <= Len(list)
      /\ \A b \in 1 .. P : runs'[b] = runs[b]
      /\ \A b \in P + 1 .. K : runs'[b] = list[b]
      /\ pc' = "loop" => K = P + perPage /\ K < limit
      /\ K < limit /\ K < P + perPage => Len(list) <= K
  BY FetchTakes DEF TypeOK
<1>3. TypeOK'
  BY <1>1, <1>2 DEF TypeOK
<1>4. Returned' = Returned \cup N
  <2>1. Returned' = {runs'[b] : b \in 1 .. K}
    BY <1>2 DEF Returned, ToSet
  <2>2. Returned = {runs[b] : b \in 1 .. P}
    BY DEF Returned, ToSet, TypeOK
  <2>3. 1 .. K = 1 .. P \cup P + 1 .. K
    BY <1>2
  <2>. HIDE DEF P, K
  <2>. QED  BY <1>2, <2>1, <2>2, <2>3
<1>5. /\ N \subseteq ToSet(list)
      /\ \A b \in P + 1 .. K : b \in DOMAIN list
  <2>1. \A b \in P + 1 .. K : b \in DOMAIN list
    BY <1>2 DEF TypeOK
  <2>. QED  BY <2>1 DEF ToSet
<1>6. ListSound'
  BY <1>1, <1>4, <1>5 DEF ListSound, Known
<1>7. LoopOrdered'
  <2>1. page \in Nat \ {0} /\ perPage \in Nat
    BY PagingAssumption DEF TypeOK
  <2>2. P = (page - 1) * perPage /\ perPage > 0
    BY <1>1 DEF LoopOrdered
  <2>3. page * perPage = (page - 1) * perPage + perPage
    BY <2>1, PageEnds
  <2>4. page' - 1 = page
    BY <1>1, <2>1
  <2>5. pc' = "loop" => K < limit' /\ K = (page' - 1) * perPage' /\ perPage' > 0
    BY <1>1, <1>2, <2>2, <2>3, <2>4
  <2>. QED  BY <1>1, <2>5 DEF LoopOrdered
<1>8. IsFiniteSet(N) /\ Cardinality(N) = K - P
  <2>1. list \in Seq(Nat) /\ IsInjective(list)
    BY DEF TypeOK, ListSound
  <2>. HIDE DEF P, K
  <2>. QED  BY <1>2, <2>1, PartCardinality
<1>9. Returned \cap N \subseteq Again /\ Again' \subseteq Again \ (Returned \cap N)
  <2>1. Returned \cap N \subseteq Again
    <3>. SUFFICES ASSUME NEW b \in P + 1 .. K, list[b] \in Returned
                  PROVE  list[b] \in Again
      OBVIOUS
    <3>1. b \in P + 1 .. Len(list)
      <4>1. Len(list) \in Nat
        BY DEF TypeOK
      <4>. HIDE DEF P, K
      <4>. QED  BY <1>2, <4>1
    <3>. QED  BY <3>1 DEF Again
  <2>2. ASSUME NEW a \in K + 1 .. Len(list), list[a] \in Returned'
        PROVE  list[a] \in Again /\ list[a] \notin N
    <3>1. a \in P + 1 .. Len(list) /\ a \in DOMAIN list
      <4>1. DOMAIN list = 1 .. Len(list) /\ Len(list) \in Nat
        BY DEF TypeOK
      <4>. HIDE DEF P, K
      <4>. QED  BY <1>2, <4>1
    <3>2. \A b \in P + 1 .. K : list[b] # list[a]
      BY <1>2, <1>5, <3>1 DEF ListSound, IsInjective
    <3>. QED  BY <1>4, <2>2, <3>1, <3>2 DEF Again
  <2>3. Again' = {list[a] : a \in {b \in K + 1 .. Len(list) : list[b] \in Returned'}}
    BY <1>1 DEF Again
  <2>. QED  BY <2>1, <2>2, <2>3
<1>10. AgainBounded'
  <2>. DEFINE R == Returned \cap N
  <2>1. /\ IsFiniteSet(Returned) /\ Cardinality(Returned) \in Nat
        /\ IsFiniteSet(Again) /\ Cardinality(Again) \in Nat
        /\ Cardinality(arrivals) \in Nat
    BY Counted
  <2>2. IsFiniteSet(R) /\ IsFiniteSet(Again') /\ R \cap Again' = {}
    BY <1>9, <2>1, FS_Subset
  <2>3. Cardinality(Returned \cup N) = Cardinality(Returned) + Cardinality(N) - Cardinality(R)
    BY <1>8, <2>1, FS_Union
  <2>4. Cardinality(R \cup Again') = Cardinality(R) + Cardinality(Again')
    <3>1. Cardinality(R \cap Again') = 0
      BY <2>2, FS_EmptySet
    <3>2. Cardinality(R \cup Again') = Cardinality(R) + Cardinality(Again') - Cardinality(R \cap Again')
      BY <2>2, FS_Union
    <3>3. Cardinality(R) \in Nat /\ Cardinality(Again') \in Nat
      BY <2>2, FS_CardinalityType
    <3>. QED  BY <3>1, <3>2, <3>3
  <2>5. Cardinality(R \cup Again') <= Cardinality(Again)
    BY <1>9, <2>1, FS_Subset
  <2>6. Cardinality(R) \in Nat /\ Cardinality(Again') \in Nat
    BY <2>2, FS_CardinalityType
  <2>7. P - Cardinality(Returned) + Cardinality(Again) <= Cardinality(arrivals)
    BY DEF AgainBounded, Repeats
  <2>8. K - Cardinality(Returned') + Cardinality(Again') <= Cardinality(arrivals)
    <3>. HIDE DEF R, N, P, K
    <3>. QED  BY <1>2, <1>4, <1>8, <2>1, <2>3, <2>4, <2>5, <2>6, <2>7
  <2>. QED  BY <1>1, <2>8 DEF AgainBounded, Repeats
<1>11. ASSUME NEW x \in Behind'
       PROVE  x \in Behind
  <2>1. PICK i \in DOMAIN first, a \in DOMAIN list :
          x = first[i] /\ first[i] \notin Returned' /\ a <= K /\ list[a] = first[i]
    BY <1>1, <1>11 DEF Behind
  <2>2. a <= P
    BY <1>2, <1>4, <2>1 DEF TypeOK
  <2>. QED  BY <1>4, <2>1, <2>2 DEF Behind
<1>12. ASSUME NEW x \in Skipped'
       PROVE  x \in Behind \cup Skipped
  <2>1. PICK i \in DOMAIN first :
          /\ x = first[i] /\ first[i] \notin Returned' /\ first[i] \notin departures
          /\ \E j \in i + 1 .. Len(first) : first[j] \in Returned'
    BY <1>1, <1>12 DEF Skipped, Missed
  <2>2. PICK j \in i + 1 .. Len(first) : first[j] \in Returned'
    BY <2>1
  <2>3. j \in DOMAIN first /\ i < j
    BY DEF TypeOK
  <2>4. CASE first[j] \in Returned
    <3>1. first[i] \in Missed
      BY <1>4, <2>1 DEF Missed, ToSet
    <3>. QED  BY <2>1, <2>4, <3>1 DEF Skipped
  <2>5. CASE first[j] \in N
    <3>1. PICK b \in P + 1 .. K : list[b] = first[j]
      BY <2>5
    <3>2. PICK a \in DOMAIN list : list[a] = first[i]
      BY <2>1 DEF ListSound, ToSet
    <3>3. b \in DOMAIN list
      BY <1>5
    <3>4. a < b
      BY <2>3, <3>1, <3>2, <3>3 DEF ListSound
    <3>5. a <= P
      <4>1. a \notin P + 1 .. K
        BY <1>4, <2>1, <3>2
      <4>2. a \in Int /\ b \in Int
        BY DEF TypeOK
      <4>. HIDE DEF P, K
      <4>. QED  BY <1>2, <3>4, <4>1, <4>2
    <3>. QED  BY <1>4, <2>1, <3>2, <3>5 DEF Behind
  <2>. QED  BY <1>4, <2>2, <2>4, <2>5
<1>13. /\ IsFiniteSet(Behind \cup Skipped) /\ IsFiniteSet(Behind' \cup Skipped')
       /\ Cardinality(Behind' \cup Skipped') <= Cardinality(Behind \cup Skipped)
       /\ Cardinality(Behind' \cup Skipped') \in Nat
       /\ Cardinality(Behind \cup Skipped) \in Nat
       /\ Cardinality(departures) \in Nat
  <2>1. Behind' \cup Skipped' \subseteq Behind \cup Skipped
    BY <1>11, <1>12
  <2>2. IsFiniteSet(Behind \cup Skipped) /\ Cardinality(departures) \in Nat
    BY Counted
  <2>. QED  BY <2>1, <2>2, FS_Subset, FS_CardinalityType
<1>14. Cardinality(Behind' \cup Skipped') <= Cardinality(departures)
  BY <1>13 DEF BehindBounded
<1>15. BehindBounded'
  BY <1>1, <1>14 DEF BehindBounded
<1>16. EndSeenIsComplete'
  <2>. SUFFICES ASSUME K < limit, K < perPage * page
                PROVE  Cardinality(Missed') <= Cardinality(departures)
    <3>1. page' - 1 = page
      BY <1>1 DEF TypeOK
    <3>. QED  BY <1>1, <3>1 DEF EndSeenIsComplete
  <2>1. Len(list) <= K
    <3>1. page \in Nat \ {0} /\ perPage \in Nat
      BY PagingAssumption DEF TypeOK
    <3>2. P = (page - 1) * perPage
      BY <1>1 DEF LoopOrdered
    <3>3. perPage * page = (page - 1) * perPage + perPage
      BY <3>1, PageEnds
    <3>. QED  BY <1>2, <3>2, <3>3
  <2>2. ASSUME NEW x \in Missed'
        PROVE  x \in Behind'
    <3>1. x \in ToSet(first) /\ x \notin Returned' /\ x \notin departures
      BY <1>1, <2>2 DEF Missed
    <3>2. PICK i \in DOMAIN first, a \in DOMAIN list : x = first[i] /\ list[a] = first[i]
      BY <3>1 DEF ListSound, ToSet
    <3>3. a <= K
      BY <1>2, <2>1 DEF TypeOK
    <3>. QED  BY <1>1, <3>1, <3>2, <3>3 DEF Behind
  <2>3. Cardinality(Missed') <= Cardinality(Behind' \cup Skipped') /\ Cardinality(Missed') \in Nat
    <3>1. Missed' \subseteq Behind' \cup Skipped'
      BY <2>2
    <3>. QED  BY <1>13, <3>1, FS_Subset, FS_CardinalityType
  <2>. QED  BY <1>13, <1>14, <2>3
<1>. QED  BY <1>3, <1>6, <1>7, <1>10, <1>15, <1>16

-----------------------------------------------------------------------------
(* The provider's steps.                                                    *)

\* What a set has with one element more.
LEMMA OneMore ==
  ASSUME NEW S, IsFiniteSet(S), NEW x, NEW T, T \subseteq S \cup {x}
  PROVE  /\ IsFiniteSet(T) /\ Cardinality(T) \in Nat
         /\ Cardinality(T) <= Cardinality(S) + 1
<1>1. /\ IsFiniteSet(S \cup {x}) /\ Cardinality(S) \in Nat
      /\ Cardinality(S \cup {x}) <= Cardinality(S) + 1
  <2>1. /\ IsFiniteSet(S \cup {x}) /\ Cardinality(S) \in Nat
        /\ x \notin S => Cardinality(S \cup {x}) = Cardinality(S) + 1
    BY FS_AddElement, FS_CardinalityType
  <2>2. CASE x \in S
    <3>1. S \cup {x} = S
      BY <2>2
    <3>2. Cardinality(S \cup {x}) = Cardinality(S)
      BY <3>1, Zenon
    <3>. QED  BY <2>1, <3>2
  <2>3. CASE x \notin S
    BY <2>1, <2>3
  <2>. QED  BY <2>2, <2>3
<1>2. /\ IsFiniteSet(T) /\ Cardinality(T) <= Cardinality(S \cup {x})
      /\ Cardinality(T) \in Nat /\ Cardinality(S \cup {x}) \in Nat
  BY <1>1, FS_Subset, FS_CardinalityType
<1>. QED  BY <1>1, <1>2

\* An insertion pushes the element at the position, if it is one that was returned,
\* ahead of it.
LEMMA ArriveKeepsInv ==
  ASSUME PagingInv, Arrive
  PROVE  PagingInv'
<1>. USE DEF PagingInv
<1>. DEFINE P == Len(runs)
            new == Len(first) + Cardinality(arrivals) + 1
<1>1. /\ UNCHANGED <<pc, limit, perPage, page, runs, first, departures>>
      /\ pc = "loop" /\ arrivals' = arrivals \cup {new}
  BY DEF Arrive
<1>2. PICK i \in 1 .. Len(list) + 1 : list' = InsertAt(list, i, new)
  BY DEF Arrive
<1>3. /\ Cardinality(arrivals) \in Nat /\ Len(first) \in Nat /\ new \in Nat /\ P \in Nat
      /\ Len(list) \in Nat /\ i \in Int /\ DOMAIN list = 1 .. Len(list)
      /\ list \in Seq(Nat)
  BY Counted DEF TypeOK
<1>4. new \notin Known
  BY <1>3 DEF Known
<1>. HIDE DEF new, P
<1>5. /\ list' \in Seq(Nat) /\ Len(list') = Len(list) + 1
      /\ \A b \in 1 .. Len(list') :
           list'[b] = IF b < i THEN list[b] ELSE IF b = i THEN new ELSE list[b - 1]
  BY SMTT(30), <1>2, <1>3, InsertAtShifts
<1>. DEFINE was(b) == IF b < i THEN b ELSE b - 1
<1>6. \A b \in DOMAIN list' : b # i => was(b) \in DOMAIN list /\ list'[b] = list[was(b)]
  <2>. SUFFICES ASSUME NEW b \in 1 .. Len(list) + 1, b # i
                PROVE  was(b) \in DOMAIN list /\ list'[b] = list[was(b)]
    BY SMTT(30), <1>3, <1>5
  <2>1. CASE b < i
    BY <1>3, <1>5, <2>1
  <2>2. CASE ~ (b < i)
    BY <1>3, <1>5, <2>2
  <2>. QED  BY <2>1, <2>2
<1>7. list'[i] = new /\ i \in DOMAIN list' /\ DOMAIN list' = 1 .. Len(list) + 1
  BY <1>3, <1>5
<1>8. \A b \in DOMAIN list : \E a \in DOMAIN list' : list'[a] = list[b]
  <2>. SUFFICES ASSUME NEW b \in DOMAIN list
                PROVE  \E a \in DOMAIN list' : list'[a] = list[b]
    OBVIOUS
  <2>1. CASE b < i
    <3>1. b \in DOMAIN list' /\ b # i
      BY <1>3, <1>7, <2>1
    <3>. QED  BY <1>6, <2>1, <3>1
  <2>2. CASE ~ (b < i)
    <3>1. b + 1 \in DOMAIN list' /\ b + 1 - 1 = b /\ ~ (b + 1 < i) /\ b + 1 # i
      BY <1>3, <1>7, <2>2
    <3>. QED  BY <1>6, <3>1
  <2>. QED  BY <2>1, <2>2
<1>9. TypeOK'
  BY <1>1, <1>3, <1>5 DEF TypeOK
<1>10. /\ IsFiniteSet(arrivals') /\ Cardinality(arrivals') = Cardinality(arrivals) + 1
       /\ Known' = Known \cup {new}
  <2>1. new \notin arrivals /\ IsFiniteSet(arrivals)
    BY <1>4 DEF ListSound
  <2>2. IsFiniteSet(arrivals') /\ Cardinality(arrivals') = Cardinality(arrivals) + 1
    BY <1>1, <2>1, FS_AddElement
  <2>3. Known' = 1 .. Len(first) + Cardinality(arrivals) + 1
    BY <1>1, <1>3, <2>2 DEF Known
  <2>. QED  BY <1>3, <2>2, <2>3 DEF Known, new
<1>11. ToSet(list') = ToSet(list) \cup {new}
  BY <1>6, <1>7, <1>8 DEF ToSet
<1>12. \A a \in DOMAIN list' : list'[a] \in Known => a # i
  BY <1>4, <1>7
<1>13. ListSound'
  <2>1. IsInjective(list')
    <3>. SUFFICES ASSUME NEW a \in DOMAIN list', NEW b \in DOMAIN list', list'[a] = list'[b]
                  PROVE  a = b
      BY DEF IsInjective
    <3>1. CASE a = i \/ b = i
      BY <1>4, <1>6, <1>7, <3>1 DEF ListSound, ToSet
    <3>2. CASE a # i /\ b # i
      <4>1. was(a) = was(b)
        BY <1>6, <3>2 DEF ListSound, IsInjective
      <4>. QED  BY <1>3, <1>7, <3>2, <4>1
    <3>. QED  BY <3>1, <3>2
  <2>2. ASSUME NEW k \in DOMAIN first, NEW j \in DOMAIN first,
               NEW a \in DOMAIN list', NEW b \in DOMAIN list',
               list'[a] = first[k], list'[b] = first[j], k < j
        PROVE  a < b
    <3>1. first[k] \in Known /\ first[j] \in Known
      <4>1. ToSet(first) \subseteq Known
        BY <1>3 DEF ListSound, Known
      <4>. QED  BY <4>1 DEF ToSet
    <3>2. a # i /\ b # i
      BY <1>12, <2>2, <3>1
    <3>3. was(a) < was(b)
      BY <1>6, <2>2, <3>2 DEF ListSound
    <3>. QED  BY <1>3, <1>7, <3>2, <3>3
  <2>3. IsInjective(first') /\ Returned' = Returned
    BY <1>1 DEF ListSound, Returned
  <2>4. ToSet(list') \cup Returned' \cup arrivals' \cup departures' \subseteq Known'
    BY <1>1, <1>10, <1>11, <2>3 DEF ListSound
  <2>5. departures' \cap ToSet(list') = {}
    BY <1>1, <1>4, <1>11 DEF ListSound
  <2>6. /\ ToSet(first') \subseteq 1 .. Len(first')
        /\ ToSet(first') \ departures' \subseteq ToSet(list')
    BY <1>1, <1>11 DEF ListSound
  <2>7. IsFiniteSet(departures')
    BY <1>1 DEF ListSound
  <2>. QED  BY <1>1, <1>10, <2>1, <2>2, <2>3, <2>4, <2>5, <2>6, <2>7 DEF ListSound
<1>14. LoopOrdered' /\ EndSeenIsComplete'
  BY <1>1 DEF LoopOrdered, EndSeenIsComplete
<1>15. Again' \subseteq Again \cup {list[P]}
  <2>. SUFFICES ASSUME NEW a \in P + 1 .. Len(list'), list'[a] \in Returned
                PROVE  list'[a] \in Again \cup {list[P]}
    BY <1>1 DEF Again, Returned, P
  <2>1. a \in DOMAIN list' /\ a # i
    BY <1>3, <1>4, <1>5, <1>7 DEF ListSound
  <2>2. was(a) \in DOMAIN list /\ list'[a] = list[was(a)] /\ was(a) \in P .. Len(list)
    BY <1>3, <1>5, <1>6, <2>1
  <2>3. CASE was(a) = P
    BY <2>2, <2>3
  <2>4. CASE was(a) # P
    <3>1. was(a) \in P + 1 .. Len(list)
      BY <1>3, <2>2, <2>4
    <3>. QED  BY <2>2, <3>1 DEF Again, P
  <2>. QED  BY <2>3, <2>4
<1>16. AgainBounded'
  <2>1. IsFiniteSet(Again) /\ Cardinality(Again) \in Nat /\ Cardinality(Returned) \in Nat
    BY Counted
  <2>2. Cardinality(Again') <= Cardinality(Again) + 1 /\ Cardinality(Again') \in Nat
    BY <1>15, <2>1, OneMore
  <2>3. P - Cardinality(Returned) + Cardinality(Again) <= Cardinality(arrivals)
    BY DEF AgainBounded, Repeats, P
  <2>4. P - Cardinality(Returned) + Cardinality(Again') <= Cardinality(arrivals')
    BY <1>3, <1>10, <2>1, <2>2, <2>3
  <2>5. Repeats' = P - Cardinality(Returned)
    BY <1>1 DEF Repeats, Returned, P
  <2>. QED  BY <2>4, <2>5 DEF AgainBounded
<1>17. Behind' \subseteq Behind
  <2>. SUFFICES ASSUME NEW k \in DOMAIN first, first[k] \notin Returned,
                       NEW a \in DOMAIN list', a <= P, list'[a] = first[k]
                PROVE  first[k] \in Behind
    BY <1>1 DEF Behind, Returned, P
  <2>1. a # i
    <3>1. first[k] \in Known
      BY <1>3 DEF ListSound, Known, ToSet
    <3>. QED  BY <1>12, <3>1
  <2>2. was(a) \in DOMAIN list /\ list[was(a)] = first[k] /\ was(a) <= P
    BY <1>3, <1>6, <1>7, <2>1
  <2>. QED  BY <2>2 DEF Behind, P
<1>18. Skipped' = Skipped
  BY <1>1 DEF Skipped, Missed, Returned
<1>19. BehindBounded'
  <2>1. IsFiniteSet(Behind \cup Skipped) /\ Cardinality(departures) \in Nat
    BY Counted
  <2>2. Cardinality(Behind' \cup Skipped') <= Cardinality(Behind \cup Skipped)
    BY <1>17, <1>18, <2>1, FS_Subset
  <2>3. Behind' \cup Skipped' \subseteq Behind \cup Skipped
    BY <1>17, <1>18
  <2>4. Cardinality(Behind' \cup Skipped') \in Nat /\ Cardinality(Behind \cup Skipped) \in Nat
    BY <2>1, <2>3, FS_Subset, FS_CardinalityType
  <2>5. Cardinality(Behind' \cup Skipped') <= Cardinality(departures)
    BY <2>1, <2>2, <2>4 DEF BehindBounded
  <2>. QED  BY <1>1, <2>5 DEF BehindBounded
<1>. QED  BY <1>9, <1>13, <1>14, <1>16, <1>19

\* A removal pulls the element at the position behind it, if it is one not gathered.
LEMMA DepartKeepsInv ==
  ASSUME PagingInv, Depart
  PROVE  PagingInv'
<1>. USE DEF PagingInv
<1>. DEFINE P == Len(runs)
<1>1. /\ UNCHANGED <<pc, limit, perPage, page, runs, first, arrivals>>
      /\ pc = "loop"
  BY DEF Depart
<1>2. PICK i \in 1 .. Len(list) :
        list' = RemoveAt(list, i) /\ departures' = departures \cup {list[i]}
  BY DEF Depart
<1>3. /\ Cardinality(departures) \in Nat /\ P \in Nat
      /\ Len(list) \in Nat /\ i \in Int /\ DOMAIN list = 1 .. Len(list) /\ i \in DOMAIN list
      /\ list \in Seq(Nat)
  BY Counted DEF TypeOK
<1>. HIDE DEF P
<1>4. /\ list' \in Seq(Nat) /\ Len(list') = Len(list) - 1
      /\ \A b \in 1 .. Len(list') : list'[b] = IF b < i THEN list[b] ELSE list[b + 1]
      /\ DOMAIN list' = 1 .. Len(list) - 1
  <2>1. /\ list' \in Seq(Nat) /\ Len(list') = Len(list) - 1
        /\ \A b \in 1 .. Len(list') : list'[b] = IF b < i THEN list[b] ELSE list[b + 1]
    BY <1>2, <1>3, RemoveAtShifts
  <2>. QED  BY <2>1
<1>. DEFINE was(b) == IF b < i THEN b ELSE b + 1
<1>5. \A b \in DOMAIN list' : was(b) \in DOMAIN list /\ was(b) # i /\ list'[b] = list[was(b)]
  <2>. SUFFICES ASSUME NEW b \in 1 .. Len(list) - 1
                PROVE  was(b) \in DOMAIN list /\ was(b) # i /\ list'[b] = list[was(b)]
    BY <1>4
  <2>. b \in Int /\ 1 <= b /\ b <= Len(list) - 1
    BY <1>3
  <2>1. CASE b < i
    <3>1. was(b) = b /\ b \in DOMAIN list /\ b # i /\ b \in 1 .. Len(list')
      BY <1>3, <1>4, <2>1
    <3>. QED  BY <1>4, <2>1, <3>1
  <2>2. CASE ~ (b < i)
    BY <1>3, <1>4, <2>2
  <2>. QED  BY <2>1, <2>2
<1>6. ASSUME NEW a \in DOMAIN list', NEW b \in DOMAIN list'
       PROVE  /\ was(a) = was(b) => a = b
              /\ was(a) < was(b) => a < b
  <2>1. a \in Int /\ b \in Int
    BY <1>4
  <2>. QED  BY <1>3, <2>1
<1>7. \A b \in DOMAIN list : b # i => \E a \in DOMAIN list' : list'[a] = list[b]
  <2>. SUFFICES ASSUME NEW b \in DOMAIN list, b # i
                PROVE  \E a \in DOMAIN list' : list'[a] = list[b]
    OBVIOUS
  <2>1. CASE b < i
    <3>1. b \in DOMAIN list'
      BY <1>3, <1>4, <2>1
    <3>. QED  BY <1>5, <2>1, <3>1
  <2>2. CASE ~ (b < i)
    <3>1. b - 1 \in DOMAIN list' /\ b - 1 + 1 = b /\ ~ (b - 1 < i)
      <4>1. b \in Int /\ i < b /\ 1 <= i /\ b <= Len(list)
        BY <1>3, <2>2
      <4>. QED  BY SMTT(30), <1>3, <1>4, <4>1
    <3>. QED  BY <1>5, <3>1
  <2>. QED  BY <2>1, <2>2
<1>8. list[i] \in Nat /\ list[i] \in ToSet(list)
  BY <1>3 DEF ToSet
<1>9. TypeOK'
  BY <1>1, <1>2, <1>4, <1>8 DEF TypeOK
<1>10. /\ IsFiniteSet(departures') /\ Cardinality(departures') = Cardinality(departures) + 1
  <2>1. list[i] \notin departures /\ IsFiniteSet(departures)
    BY <1>8 DEF ListSound
  <2>. QED  BY <1>2, <2>1, FS_AddElement
<1>11. ToSet(list') = ToSet(list) \ {list[i]}
  <2>1. ASSUME NEW b \in DOMAIN list'
        PROVE  list'[b] \in ToSet(list) /\ list'[b] # list[i]
    BY <1>3, <1>5 DEF ToSet, ListSound, IsInjective
  <2>2. ASSUME NEW b \in DOMAIN list, list[b] # list[i]
        PROVE  list[b] \in ToSet(list')
    BY <1>7, <2>2 DEF ToSet
  <2>. QED  BY <2>1, <2>2 DEF ToSet
<1>12. ListSound'
  <2>1. IsInjective(list')
    <3>. SUFFICES ASSUME NEW a \in DOMAIN list', NEW b \in DOMAIN list', list'[a] = list'[b]
                  PROVE  a = b
      BY DEF IsInjective
    <3>1. was(a) = was(b)
      BY <1>5 DEF ListSound, IsInjective
    <3>. QED  BY <1>6, <3>1
  <2>2. ASSUME NEW k \in DOMAIN first, NEW j \in DOMAIN first,
               NEW a \in DOMAIN list', NEW b \in DOMAIN list',
               list'[a] = first[k], list'[b] = first[j], k < j
        PROVE  a < b
    <3>1. was(a) < was(b)
      BY <1>5, <2>2 DEF ListSound
    <3>. QED  BY <1>6, <3>1
  <2>3. IsInjective(first') /\ Returned' = Returned /\ Known' = Known
    BY <1>1 DEF ListSound, Returned, Known
  <2>4. ToSet(list') \cup Returned' \cup arrivals' \cup departures' \subseteq Known'
    BY <1>1, <1>2, <1>8, <1>11, <2>3 DEF ListSound
  <2>5. departures' \cap ToSet(list') = {}
    BY <1>2, <1>11 DEF ListSound
  <2>6. /\ ToSet(first') \subseteq 1 .. Len(first')
        /\ ToSet(first') \ departures' \subseteq ToSet(list')
    BY <1>1, <1>2, <1>11 DEF ListSound
  <2>7. IsFiniteSet(arrivals')
    BY <1>1 DEF ListSound
  <2>. QED  BY <1>1, <1>10, <2>1, <2>2, <2>3, <2>4, <2>5, <2>6, <2>7 DEF ListSound
<1>13. LoopOrdered' /\ EndSeenIsComplete'
  BY <1>1 DEF LoopOrdered, EndSeenIsComplete
<1>14. Again' \subseteq Again
  <2>. SUFFICES ASSUME NEW a \in P + 1 .. Len(list'), list'[a] \in Returned
                PROVE  list'[a] \in Again
    BY <1>1 DEF Again, Returned, P
  <2>1. a \in DOMAIN list'
    BY <1>3, <1>4
  <2>2. list'[a] = list[was(a)] /\ was(a) \in P + 1 .. Len(list)
    BY SMTT(30), <1>3, <1>4, <1>5, <2>1
  <2>. QED  BY <2>2 DEF Again, P
<1>15. AgainBounded'
  <2>1. /\ IsFiniteSet(Again) /\ Cardinality(Again) \in Nat /\ Cardinality(Returned) \in Nat
        /\ Cardinality(arrivals) \in Nat
    BY Counted
  <2>2. Cardinality(Again') <= Cardinality(Again) /\ Cardinality(Again') \in Nat
    BY <1>14, <2>1, FS_Subset, FS_CardinalityType
  <2>3. P - Cardinality(Returned) + Cardinality(Again) <= Cardinality(arrivals)
    BY DEF AgainBounded, Repeats, P
  <2>4. P - Cardinality(Returned) + Cardinality(Again') <= Cardinality(arrivals)
    BY <1>3, <2>1, <2>2, <2>3
  <2>5. Repeats' = P - Cardinality(Returned)
    BY <1>1 DEF Repeats, Returned, P
  <2>. QED  BY <1>1, <2>4, <2>5 DEF AgainBounded
<1>16. Behind' \subseteq Behind \cup {list[P + 1]}
  <2>. SUFFICES ASSUME NEW k \in DOMAIN first, first[k] \notin Returned,
                       NEW a \in DOMAIN list', a <= P, list'[a] = first[k]
                PROVE  first[k] \in Behind \cup {list[P + 1]}
    BY <1>1 DEF Behind, Returned, P
  <2>1. was(a) \in DOMAIN list /\ list[was(a)] = first[k] /\ (was(a) <= P \/ was(a) = P + 1)
    BY SMTT(30), <1>3, <1>4, <1>5
  <2>. QED  BY <2>1 DEF Behind, P
<1>17. Skipped' \subseteq Skipped
  <2>1. Missed' \subseteq Missed
    BY <1>1, <1>2 DEF Missed, Returned
  <2>. QED  BY <1>1, <2>1 DEF Skipped, Returned
<1>18. BehindBounded'
  <2>1. IsFiniteSet(Behind \cup Skipped) /\ Cardinality(Behind \cup Skipped) \in Nat
    BY Counted
  <2>2. Behind' \cup Skipped' \subseteq (Behind \cup Skipped) \cup {list[P + 1]}
    BY <1>16, <1>17
  <2>3. /\ Cardinality(Behind' \cup Skipped') <= Cardinality(Behind \cup Skipped) + 1
        /\ Cardinality(Behind' \cup Skipped') \in Nat
    BY <2>1, <2>2, OneMore
  <2>4. Cardinality(Behind' \cup Skipped') <= Cardinality(departures')
    BY <1>3, <1>10, <2>1, <2>3 DEF BehindBounded
  <2>. QED  BY <2>4 DEF BehindBounded
<1>. QED  BY <1>9, <1>12, <1>13, <1>15, <1>18

-----------------------------------------------------------------------------
(* The other steps of the client.                                           *)

\* While nothing has been gathered nothing can be met again or lie behind.
LEMMA NothingGathered ==
  TypeOK /\ ListSound /\ runs = <<>> => AgainBounded /\ BehindBounded
<1>. SUFFICES ASSUME TypeOK, ListSound, runs = <<>>
              PROVE  AgainBounded /\ BehindBounded
  OBVIOUS
<1>1. Len(runs) = 0 /\ Returned = {}
  BY DEF Returned, ToSet
<1>2. Again = {} /\ Behind = {} /\ Skipped = {}
  BY <1>1 DEF Again, Behind, Skipped, TypeOK
<1>3. /\ Cardinality({}) = 0
      /\ Cardinality(arrivals) \in Nat /\ Cardinality(departures) \in Nat
  BY Counted, FS_EmptySet
<1>4. Cardinality(Returned) = 0 /\ Cardinality(Again) = 0 /\ Cardinality(Behind \cup Skipped) = 0
  BY <1>1, <1>2, <1>3
<1>5. Repeats = 0
  BY <1>1, <1>4 DEF Repeats
<1>. QED  BY <1>3, <1>4, <1>5 DEF AgainBounded, BehindBounded

LEMMA NothingGatheredAfter ==
  (TypeOK /\ ListSound /\ runs = <<>> => AgainBounded /\ BehindBounded)'
BY NothingGathered, PTL

LEMMA InitInv == Init => PagingInv
<1>. SUFFICES ASSUME Init
              PROVE  PagingInv
  OBVIOUS
<1>1. PICK n \in Lengths : list = CountDown(n)
  BY DEF Init
<1>2. n \in Nat
  BY PagingAssumption
<1>3. /\ list \in Seq(Nat) /\ Len(list) = n
      /\ \A a \in 1 .. n : list[a] = n + 1 - a
  BY <1>1, <1>2 DEF CountDown
<1>4. TypeOK
  BY <1>3, PagingAssumption DEF Init, TypeOK
<1>5. /\ IsFiniteSet({}) /\ Cardinality({}) = 0
  BY FS_EmptySet
<1>6. ListSound
  <2>1. IsInjective(list) /\ DOMAIN list = 1 .. n
    BY <1>2, <1>3 DEF IsInjective
  <2>2. ToSet(list) \subseteq 1 .. n
    BY <1>2, <1>3, <2>1 DEF ToSet
  <2>3. Known = 1 .. n /\ Returned = {}
    BY <1>2, <1>3, <1>5 DEF Known, Init, Returned, ToSet
  <2>4. \A i, j \in DOMAIN first, a, b \in DOMAIN list :
          list[a] = first[i] /\ list[b] = first[j] /\ i < j => a < b
    BY <2>1 DEF Init, IsInjective
  <2>. QED  BY <1>3, <1>5, <2>1, <2>2, <2>3, <2>4 DEF Init, ListSound
<1>7. LoopOrdered /\ EndSeenIsComplete
  BY DEF Init, LoopOrdered, EndSeenIsComplete
<1>8. AgainBounded /\ BehindBounded
  BY <1>4, <1>6, NothingGathered DEF Init
<1>. QED  BY <1>4, <1>6, <1>7, <1>8 DEF PagingInv

\* The steps that leave the list alone and hold nothing gathered afterwards: the call
\* begins, or a request fails.
LEMMA EmptyHandedKeepsInv ==
  ASSUME PagingInv, TypeOK', runs' = <<>>, UNCHANGED envVars,
         \/ pc' = "failed"
         \/ pc' = "loop" /\ page' = 1 /\ perPage' > 0 /\ limit' > 0
  PROVE  PagingInv'
<1>. USE DEF PagingInv, envVars
<1>1. Returned' = {}
  BY DEF Returned, ToSet
<1>2. ListSound'
  BY <1>1 DEF ListSound, Known
<1>3. LoopOrdered' /\ EndSeenIsComplete'
  <2>1. Len(runs') = 0 /\ pc' # "idle" /\ pc' # "done"
    OBVIOUS
  <2>2. pc' = "loop" => Len(runs') = (page' - 1) * perPage'
    <3>1. perPage' \in Nat
      BY PagingAssumption DEF TypeOK
    <3>2. \A n \in Nat : (1 - 1) * n = 0
      OBVIOUS
    <3>3. (1 - 1) * perPage' = 0
      BY <3>1, <3>2
    <3>4. pc' = "loop" => page' = 1
      OBVIOUS
    <3>. QED  BY <2>1, <3>3, <3>4, Zenon
  <2>. QED  BY <2>1, <2>2 DEF LoopOrdered, EndSeenIsComplete
<1>4. AgainBounded' /\ BehindBounded'
  BY <1>2, NothingGatheredAfter
<1>. QED  BY <1>2, <1>3, <1>4

LEMMA ListKeepsInv ==
  ASSUME PagingInv,
         \/ \E maxRuns \in Limits, size \in PageSizes : ListRepositoryRuns(maxRuns, size)
         \/ ListRunJobs
  PROVE  PagingInv'
<1>1. /\ pc' = "loop" /\ page' = 1 /\ runs' = <<>> /\ UNCHANGED envVars
      /\ limit' \in Nat \ {0} /\ perPage' \in 1 .. DefaultSize
  <2>1. runs = <<>> /\ page = 1
    BY DEF PagingInv, LoopOrdered, ListRepositoryRuns, ListRunJobs
  <2>2. CASE \E maxRuns \in Limits, size \in PageSizes : ListRepositoryRuns(maxRuns, size)
    <3>1. PICK maxRuns \in Limits, size \in PageSizes : ListRepositoryRuns(maxRuns, size)
      BY <2>2
    <3>2. maxRuns \in Int /\ size \in Int /\ DefaultSize \in Nat \ {0}
      BY PagingAssumption
    <3>. QED  BY <2>1, <3>1, <3>2 DEF ListRepositoryRuns, OrDefault
  <2>3. CASE ListRunJobs
    <3>1. /\ DefaultSize \in Nat \ {0} /\ MaxPages \in Nat \ {0}
          /\ DefaultSize * MaxPages \in Nat \ {0}
      BY PagingAssumption
    <3>. QED  BY <2>1, <2>3, <3>1 DEF ListRunJobs
  <2>. QED  BY <2>2, <2>3
<1>2. TypeOK'
  BY <1>1 DEF PagingInv, TypeOK, envVars
<1>. QED  BY <1>1, <1>2, EmptyHandedKeepsInv

LEMMA FetchFailsKeepsInv ==
  ASSUME PagingInv, FetchFails
  PROVE  PagingInv'
<1>1. TypeOK'
  BY DEF PagingInv, TypeOK, FetchFails, envVars
<1>. QED  BY <1>1, EmptyHandedKeepsInv DEF FetchFails

-----------------------------------------------------------------------------
(* The theorems.                                                            *)

\* The inductive invariant: the position in the list, and what drifted past it, in every
\* state of a read.
THEOREM PagingInvariant == Spec => []PagingInv
<1>1. PagingInv /\ [Next]_vars => PagingInv'
  <2>. SUFFICES ASSUME PagingInv, [Next]_vars
                PROVE  PagingInv'
    OBVIOUS
  <2>1. CASE \/ \E maxRuns \in Limits, size \in PageSizes : ListRepositoryRuns(maxRuns, size)
             \/ ListRunJobs
    BY <2>1, ListKeepsInv
  <2>2. CASE FetchPage
    BY <2>2, FetchKeepsInv
  <2>3. CASE FetchFails
    BY <2>3, FetchFailsKeepsInv
  <2>4. CASE Arrive
    BY <2>4, ArriveKeepsInv
  <2>5. CASE Depart
    BY <2>5, DepartKeepsInv
  <2>6. CASE UNCHANGED vars
    BY <2>6 DEF vars, PagingInv, TypeOK, ListSound, Known, LoopOrdered, AgainBounded,
                BehindBounded, EndSeenIsComplete, Again, Behind, Skipped, Missed, Repeats,
                Returned
  <2>. QED  BY <2>1, <2>2, <2>3, <2>4, <2>5, <2>6 DEF Next
<1>. QED  BY InitInv, <1>1, PTL DEF Spec

\* The variables of the paged reads keep to their types.
THEOREM PagingTypeCorrect == Spec => []TypeOK
<1>1. PagingInv => TypeOK
  BY DEF PagingInv
<1>. QED  BY <1>1, PagingInvariant, PTL

\* ListRepositoryRuns and ListRunJobs skip at most one element for each that left the
\* list while they read it, and return at most one twice for each that came.
THEOREM DriftIsBoundedHolds == Spec => []DriftIsBounded
<1>1. PagingInv => DriftIsBounded
  <2>. SUFFICES ASSUME PagingInv
                PROVE  DriftIsBounded
    OBVIOUS
  <2>1. /\ IsFiniteSet(Behind \cup Skipped) /\ Cardinality(Behind \cup Skipped) \in Nat
        /\ Cardinality(Again) \in Nat /\ Cardinality(Returned) \in Nat
        /\ Cardinality(arrivals) \in Nat /\ Cardinality(departures) \in Nat
        /\ Len(runs) \in Nat
    BY Counted DEF PagingInv, TypeOK
  <2>2. Cardinality(Skipped) <= Cardinality(Behind \cup Skipped) /\ Cardinality(Skipped) \in Nat
    BY <2>1, FS_Subset, FS_CardinalityType
  <2>3. Cardinality(Skipped) <= Cardinality(departures)
    BY <2>1, <2>2 DEF PagingInv, BehindBounded
  <2>4. Repeats <= Cardinality(arrivals)
    BY <2>1 DEF PagingInv, AgainBounded, Repeats
  <2>. QED  BY <2>3, <2>4 DEF DriftIsBounded
<1>. QED  BY <1>1, PagingInvariant, PTL

\* A read that saw the end of the list lacks at most one element for each that left.
THEOREM EndSeenIsCompleteHolds == Spec => []EndSeenIsComplete
<1>1. PagingInv => EndSeenIsComplete
  BY DEF PagingInv
<1>. QED  BY <1>1, PagingInvariant, PTL
=============================================================================
