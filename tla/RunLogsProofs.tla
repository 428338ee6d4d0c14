---------------------------- MODULE RunLogsProofs ---------------------------
(***************************************************************************)
(* Theorems about RunLogs for every limit and every archive.  LogsInv is   *)
(* the inductive invariant: where the loop over the entries stands, what   *)
(* it has kept, and how much of the limit that takes.                      *)
(***************************************************************************)
EXTENDS RunLogs, TLAPS

\* An entry of which the text has all of the content.
Entire(k) ==
  kept[k].bytes = files[kept[k].file].readable /\ files[kept[k].file].whole

\* What is there before the loop, and that it has a limit.
LoopOrdered ==
  /\ stage \in {"idle", "request"} =>
       files = <<>> /\ next = 1 /\ size = 0 /\ kept = <<>> /\ result = "none"
  /\ stage = "scan" => result = "none" /\ size <= limit

\* The limit is a configured one or less, but for half of a limit of one byte.
LimitAsked ==
  /\ stage # "idle" => limit <= cfgLimit \/ cfgLimit = 1
  /\ stage = "request" /\ limit = 0 => cfgLimit = 1

\* What is kept is of the files that the loop has passed.
KeptPassed == \A k \in DOMAIN kept : kept[k].file \in 1 .. next - 1 /\ kept[k].file <= Len(files)

\* Only the last file kept can lack content, and then the limit was reached.
CutAtLimit == \A k \in DOMAIN kept : Entire(k) \/ (k = Len(kept) /\ size >= limit)

\* Every file that opens is kept when the loop has passed it, unless it failed.
PassedKept ==
  stage = "scan" \/ result = "ok" =>
    \A i \in 1 .. next - 1 :
      i <= Len(files) /\ ~files[i].dir /\ files[i].opens => \E k \in DOMAIN kept : kept[k].file = i

\* Text is returned when no file is left, or there is no room for one.
DoneOrFull == result = "ok" => next > Len(files) \/ size >= limit

LogsInv ==
  /\ TypeOK
  /\ LoopOrdered
  /\ LimitAsked
  /\ KeptPassed
  /\ CutAtLimit
  /\ PassedKept
  /\ DoneOrFull
  /\ PassesLimitByHeader

-----------------------------------------------------------------------------
(* Before the loop.                                                         *)

LEMMA InitKeeps == Init => LogsInv
<1>. SUFFICES ASSUME Init  PROVE LogsInv
  OBVIOUS
<1>1. TypeOK
  BY DEF Init, TypeOK
<1>2. LoopOrdered /\ KeptPassed /\ CutAtLimit
  BY DEF Init, LoopOrdered, KeptPassed, CutAtLimit
<1>3. PassedKept /\ DoneOrFull /\ PassesLimitByHeader /\ LimitAsked
  BY DEF Init, PassedKept, DoneOrFull, PassesLimitByHeader, LimitAsked
<1>. QED  BY <1>1, <1>2, <1>3 DEF LogsInv

\* A limit is asked for.
LEMMA AskKeeps ==
  ASSUME LogsInv, NEW n \in Nat, n <= cfgLimit, n = 0 => cfgLimit = 1, Ask(n)
  PROVE  LogsInv'
<1>. USE DEF Ask, LogsInv
<1>1. TypeOK'
  BY DEF TypeOK
<1>2. LoopOrdered' /\ KeptPassed' /\ CutAtLimit'
  BY DEF LoopOrdered, KeptPassed, CutAtLimit
<1>3. PassedKept' /\ DoneOrFull' /\ PassesLimitByHeader' /\ LimitAsked'
  BY DEF LoopOrdered, PassedKept, DoneOrFull, PassesLimitByHeader, LimitAsked
<1>. QED  BY <1>1, <1>2, <1>3

LEMMA AskForDiagnosisKeeps ==
  ASSUME LogsInv, AskForDiagnosis
  PROVE  LogsInv'
<1>1. cfgLimit \in Nat \ {0} /\ AskedLimits \subseteq Int
  BY LogsAssumption DEF LogsAssumption, LogsInv, TypeOK
<1>2. PICK asked \in AskedLimits : Ask(IF asked <= 0 THEN cfgLimit ELSE Lesser(asked, cfgLimit))
  BY DEF AskForDiagnosis
<1>. DEFINE n == IF asked <= 0 THEN cfgLimit ELSE Lesser(asked, cfgLimit)
<1>3. n \in Nat \ {0} /\ n <= cfgLimit
  BY <1>1 DEF Lesser
<1>. QED  BY <1>2, <1>3, AskKeeps

LEMMA AskForFlakyTestsKeeps ==
  ASSUME LogsInv, AskForFlakyTests
  PROVE  LogsInv'
<1>1. cfgLimit \in Nat \ {0}
  BY LogsAssumption DEF LogsAssumption, LogsInv, TypeOK
<1>2. /\ cfgLimit \div 2 \in Nat /\ cfgLimit \div 2 <= cfgLimit
      /\ cfgLimit \div 2 = 0 => cfgLimit = 1
  BY <1>1
<1>. QED  BY <1>2, AskKeeps DEF AskForFlakyTests

LEMMA RequestFailsKeeps ==
  ASSUME LogsInv, RequestFails
  PROVE  LogsInv'
<1>. USE DEF RequestFails, Finish, LogsInv
<1>1. result' # "ok" /\ stage' = "done"
  BY DEF Errors, Sentinels, Unwrapped
<1>2. TypeOK'
  BY DEF TypeOK
<1>3. LoopOrdered' /\ KeptPassed' /\ CutAtLimit'
  BY <1>1 DEF LoopOrdered, KeptPassed, CutAtLimit
<1>4. PassedKept' /\ DoneOrFull' /\ PassesLimitByHeader' /\ LimitAsked'
  BY <1>1 DEF PassedKept, DoneOrFull, PassesLimitByHeader, LimitAsked
<1>. QED  BY <1>2, <1>3, <1>4

LEMMA TakeTextKeeps ==
  ASSUME LogsInv, NEW body \in Bodies, TakeText(body)
  PROVE  LogsInv'
<1>. USE DEF TakeText, Finish, LogsInv
<1>1. body.length \in Nat
  BY BodiesAssumption DEF BodiesAssumption, BodySpace
<1>2. limit' \in Nat \ {0} /\ size' \in Nat /\ size' <= limit'
  BY <1>1, LogsAssumption DEF LogsAssumption, TypeOK, Lesser
<1>3. files' = <<>> /\ kept' = <<>> /\ next' = 1 /\ stage' = "done"
  BY DEF LoopOrdered
<1>4. TypeOK'
  BY <1>2 DEF TypeOK
<1>5. LoopOrdered' /\ KeptPassed' /\ CutAtLimit'
  BY <1>3 DEF LoopOrdered, KeptPassed, CutAtLimit
<1>6. LimitAsked'
  BY LogsAssumption DEF TypeOK, LimitAsked
<1>7. PassedKept' /\ DoneOrFull' /\ PassesLimitByHeader'
  BY <1>2, <1>3, <1>6 DEF PassedKept, DoneOrFull, PassesLimitByHeader, LimitAsked
<1>. QED  BY <1>4, <1>5, <1>6, <1>7

LEMMA OpenArchiveKeeps ==
  ASSUME LogsInv, NEW body \in Bodies, OpenArchive(body)
  PROVE  LogsInv'
<1>. USE DEF OpenArchive, LogsInv
<1>1. body.files \in Seq(Entries)
  BY BodiesAssumption DEF BodiesAssumption, BodySpace
<1>2. limit' \in Nat \ {0}
  BY LogsAssumption DEF LogsAssumption, TypeOK
<1>3. kept' = <<>> /\ next' = 1 /\ size' = 0 /\ result' = "none" /\ stage' = "scan"
  BY DEF LoopOrdered
<1>4. TypeOK'
  BY <1>1, <1>2 DEF TypeOK
<1>5. LoopOrdered' /\ KeptPassed' /\ CutAtLimit'
  BY <1>2, <1>3 DEF LoopOrdered, KeptPassed, CutAtLimit
<1>6. LimitAsked'
  BY LogsAssumption DEF TypeOK, LimitAsked
<1>7. PassedKept' /\ DoneOrFull' /\ PassesLimitByHeader'
  BY <1>3 DEF PassedKept, DoneOrFull, PassesLimitByHeader
<1>. QED  BY <1>4, <1>5, <1>6, <1>7

-----------------------------------------------------------------------------
(* The loop.                                                                *)

\* A file is written, whole or to the limit.
LEMMA WriteKeeps ==
  ASSUME LogsInv, WriteHeader, NEW b \in Nat, UNCHANGED <<cfgLimit, limit, files>>,
         kept' = Append(kept, [file |-> next, bytes |-> b]), size' \in Nat,
         (b = Entry.readable /\ Entry.whole) \/ size' >= limit
  PROVE  KeptPassed' /\ CutAtLimit' /\ PassedKept'
<1>. USE DEF WriteHeader, InLoop, Entry
<1>. DEFINE last == [file |-> next, bytes |-> b]
<1>1. /\ files \in Seq(Entries) /\ next \in 1 .. Len(files) /\ next' = next + 1
      /\ kept \in Seq([file : Nat \ {0}, bytes : Nat]) /\ size < limit
      /\ limit \in Nat /\ size \in Nat
  BY DEF LogsInv, TypeOK
<1>2. /\ Len(kept') = Len(kept) + 1
      /\ kept'[Len(kept) + 1] = last
      /\ \A k \in 1 .. Len(kept) : kept'[k] = kept[k]
      /\ DOMAIN kept' = 1 .. Len(kept) + 1
      /\ DOMAIN kept = 1 .. Len(kept)
      /\ Len(kept) \in Nat
  BY <1>1
<1>. HIDE DEF last
<1>3. last.file = next /\ last.bytes = b
  BY DEF last
<1>4. \A k \in DOMAIN kept' : k \in DOMAIN kept \/ k = Len(kept) + 1
  BY <1>2
<1>5. KeptPassed'
  <2>1. \A k \in DOMAIN kept : kept[k].file \in 1 .. next - 1 /\ kept[k].file <= Len(files)
    BY DEF LogsInv, KeptPassed
  <2>. QED  BY <1>1, <1>2, <1>3, <1>4, <2>1 DEF KeptPassed
<1>6. CutAtLimit'
  <2>1. \A k \in DOMAIN kept : Entire(k)
    BY <1>1 DEF LogsInv, CutAtLimit
  <2>2. \A k \in DOMAIN kept : Entire(k)'
    BY <1>2, <2>1 DEF Entire
  <2>3. ASSUME NEW k, k = Len(kept) + 1
        PROVE  Entire(k)' \/ (k = Len(kept') /\ size' >= limit')
    BY <1>2, <1>3, <2>3 DEF Entire
  <2>. QED  BY <1>4, <2>2, <2>3 DEF CutAtLimit
<1>7. PassedKept'
  <2>1. \A i \in 1 .. next - 1 :
          i <= Len(files) /\ ~files[i].dir /\ files[i].opens =>
            \E k \in DOMAIN kept : kept[k].file = i
    BY DEF LogsInv, PassedKept
  <2>2. ASSUME NEW i \in 1 .. next, i <= Len(files), ~files[i].dir, files[i].opens
        PROVE  \E k \in DOMAIN kept' : kept'[k].file = i
    <3>1. CASE i = next
      BY <1>2, <1>3, <3>1
    <3>2. CASE i # next
      BY <1>1, <1>2, <2>1, <2>2, <3>2
    <3>. QED  BY <3>1, <3>2
  <2>. QED  BY <1>1, <2>2 DEF PassedKept
<1>. QED  BY <1>5, <1>6, <1>7

LEMMA SkipEntryKeeps ==
  ASSUME LogsInv, SkipEntry
  PROVE  LogsInv'
<1>. USE DEF SkipEntry, InLoop, LogsInv
<1>1. TypeOK'
  BY DEF TypeOK
<1>2. LoopOrdered'
  BY DEF LoopOrdered
<1>3. next' = next + 1 /\ next \in Nat \ {0} /\ \A i \in 1 .. next' - 1 : i \in 1 .. next - 1 \/ i = next
  BY DEF TypeOK
<1>4. KeptPassed'
  BY <1>3 DEF KeptPassed
<1>5. CutAtLimit'
  BY DEF CutAtLimit, Entire
<1>6. PassedKept'
  BY <1>3 DEF PassedKept, Entry
<1>7. DoneOrFull' /\ PassesLimitByHeader' /\ LimitAsked'
  BY DEF DoneOrFull, PassesLimitByHeader, LoopOrdered, LimitAsked
<1>. QED  BY <1>1, <1>2, <1>4, <1>5, <1>6, <1>7

LEMMA WriteEntryKeeps ==
  ASSUME LogsInv, WriteEntry
  PROVE  LogsInv'
<1>. USE DEF WriteEntry
<1>1. /\ Entry \in Entries /\ size \in Nat /\ limit \in Nat /\ next \in Nat \ {0}
      /\ kept \in Seq([file : Nat \ {0}, bytes : Nat]) /\ Room > 0 /\ stage = "scan"
  BY DEF LogsInv, TypeOK, Entry, WriteHeader, InLoop
<1>2. Entry.header \in Nat \ {0} /\ Entry.readable \in Nat
  BY <1>1 DEF Entries
<1>3. PICK b \in Nat : b = Lesser(Entry.readable, Room)
  BY <1>1, <1>2 DEF Lesser, Room
<1>4. b <= Room /\ (b = Entry.readable \/ b = Room)
  BY <1>1, <1>2, <1>3 DEF Lesser, Room
<1>5. (b = Entry.readable /\ Entry.whole) \/ b = Room
  BY <1>1, <1>2, <1>3 DEF Lesser, Room
<1>6. size' \in Nat /\ size' <= limit /\ (b = Room => size' >= limit)
  BY <1>1, <1>2, <1>3, <1>4 DEF Room
<1>7. KeptPassed' /\ CutAtLimit' /\ PassedKept'
  BY <1>3, <1>5, <1>6, WriteKeeps
<1>8. TypeOK'
  BY <1>1, <1>3, <1>6 DEF LogsInv, TypeOK, WriteHeader, InLoop
<1>9. LoopOrdered' /\ DoneOrFull' /\ PassesLimitByHeader' /\ LimitAsked'
  BY <1>1, <1>6
  DEF LogsInv, LoopOrdered, DoneOrFull, PassesLimitByHeader, LimitAsked, WriteHeader, InLoop
<1>. QED  BY <1>7, <1>8, <1>9 DEF LogsInv

LEMMA HeaderFillsKeeps ==
  ASSUME LogsInv, HeaderFills
  PROVE  LogsInv'
<1>. USE DEF HeaderFills, Finish
<1>1. /\ Entry \in Entries /\ size \in Nat /\ limit \in Nat /\ next \in Nat \ {0}
      /\ kept \in Seq([file : Nat \ {0}, bytes : Nat]) /\ Room <= 0 /\ size < limit
  BY DEF LogsInv, TypeOK, Entry, WriteHeader, InLoop
<1>2. Entry.header \in Nat \ {0}
  BY <1>1 DEF Entries
<1>3. size' \in Nat /\ size' >= limit /\ size' < limit + Entry.header
  BY <1>1, <1>2 DEF Room
<1>4. KeptPassed' /\ CutAtLimit' /\ PassedKept'
  BY <1>3, WriteKeeps
<1>5. TypeOK'
  BY <1>1, <1>3 DEF LogsInv, TypeOK, WriteHeader, InLoop
<1>6. LoopOrdered' /\ DoneOrFull' /\ LimitAsked'
  BY <1>3 DEF LogsInv, LoopOrdered, DoneOrFull, LimitAsked, WriteHeader, InLoop
<1>7. PassesLimitByHeader'
  <2>1. kept' # <<>> /\ kept'[Len(kept')].file = next
    BY <1>1
  <2>2. limit' <= cfgLimit' \/ cfgLimit' = 1
    BY DEF LogsInv, LimitAsked, WriteHeader, InLoop
  <2>. QED  BY <1>3, <2>1, <2>2 DEF PassesLimitByHeader, Entry
<1>. QED  BY <1>4, <1>5, <1>6, <1>7 DEF LogsInv

LEMMA EntryDamagedKeeps ==
  ASSUME LogsInv, EntryDamaged
  PROVE  LogsInv'
<1>. USE DEF EntryDamaged, WriteHeader, InLoop, Finish, LogsInv
<1>1. TypeOK'
  BY DEF TypeOK
<1>2. next' = next + 1 /\ next \in Nat \ {0} /\ \A i \in 1 .. next - 1 : i \in 1 .. next' - 1
  BY DEF TypeOK
<1>3. LoopOrdered' /\ CutAtLimit' /\ LimitAsked'
  BY DEF LoopOrdered, CutAtLimit, Entire, LimitAsked
<1>4. KeptPassed'
  BY <1>2 DEF KeptPassed
<1>5. PassedKept' /\ DoneOrFull' /\ PassesLimitByHeader'
  BY DEF PassedKept, DoneOrFull, PassesLimitByHeader
<1>. QED  BY <1>1, <1>3, <1>4, <1>5

LEMMA EndLoopKeeps ==
  ASSUME LogsInv, EndLoop
  PROVE  LogsInv'
<1>. USE DEF EndLoop, Finish, LogsInv
<1>1. TypeOK'
  BY DEF TypeOK
<1>2. LoopOrdered' /\ KeptPassed' /\ CutAtLimit'
  BY DEF LoopOrdered, KeptPassed, CutAtLimit, Entire
<1>3. PassedKept' /\ DoneOrFull' /\ PassesLimitByHeader' /\ LimitAsked'
  BY DEF PassedKept, DoneOrFull, PassesLimitByHeader, LoopOrdered, LimitAsked, TypeOK
<1>. QED  BY <1>1, <1>2, <1>3

\* A step that changes nothing.
LEMMA StutterKeeps ==
  ASSUME LogsInv, UNCHANGED vars
  PROVE  LogsInv'
<1>. USE DEF vars, LogsInv
<1>1. TypeOK' /\ LoopOrdered' /\ KeptPassed' /\ CutAtLimit'
  BY DEF TypeOK, LoopOrdered, KeptPassed, CutAtLimit, Entire
<1>2. PassedKept' /\ DoneOrFull' /\ PassesLimitByHeader' /\ LimitAsked'
  BY DEF PassedKept, DoneOrFull, PassesLimitByHeader, LimitAsked
<1>. QED  BY <1>1, <1>2

-----------------------------------------------------------------------------
(* The theorems.                                                            *)

\* Where the loop stands tells what it has kept, and that takes up what it may, in
\* every reachable state.
THEOREM LogsInvariant == Spec => []LogsInv
<1>1. Init => LogsInv
  BY InitKeeps
<1>2. LogsInv /\ [Next]_vars => LogsInv'
  BY AskForDiagnosisKeeps, AskForFlakyTestsKeeps, RequestFailsKeeps, TakeTextKeeps,
     OpenArchiveKeeps, SkipEntryKeeps, WriteEntryKeeps, HeaderFillsKeeps,
     EntryDamagedKeeps, EndLoopKeeps, StutterKeeps
     DEF Next
<1>3. QED
  BY <1>1, <1>2, PTL DEF Spec

\* The variables of a download keep to their types.
THEOREM LogsTypeCorrect == Spec => []TypeOK
<1>1. LogsInv => TypeOK
  BY DEF LogsInv
<1>2. QED
  BY <1>1, LogsInvariant, PTL

\* The text passes any limit by less than one header line, and the limit is a
\* configured one or less, unless that is one byte.
THEOREM PassesLimitByHeaderHolds == Spec => []PassesLimitByHeader
<1>1. LogsInv => PassesLimitByHeader
  BY DEF LogsInv
<1>2. QED
  BY <1>1, LogsInvariant, PTL

\* Whatever the archive and the limit, no file but the last is cut.
THEOREM OnlyLastIsCutHolds == Spec => []OnlyLastIsCut
<1>1. LogsInv => OnlyLastIsCut
  <2>. SUFFICES ASSUME LogsInv, NEW k \in 1 .. Len(kept) - 1  PROVE Entire(k)
    BY DEF OnlyLastIsCut, Entire
  <2>1. k \in DOMAIN kept /\ k # Len(kept)
    BY DEF LogsInv, TypeOK
  <2>. QED  BY <2>1 DEF LogsInv, CutAtLimit
<1>2. QED
  BY <1>1, LogsInvariant, PTL

\* Whatever the archive, text below the limit lacks nothing of a file that opens.
THEOREM BelowLimitIsCompleteHolds == Spec => []BelowLimitIsComplete
<1>1. LogsInv => BelowLimitIsComplete
  <2>. SUFFICES ASSUME LogsInv, result = "ok", size < limit, NEW i \in DOMAIN files,
                       ~files[i].dir, files[i].opens
                PROVE  \E k \in DOMAIN kept :
                         /\ kept[k].file = i
                         /\ kept[k].bytes = files[i].readable
                         /\ files[i].whole
    BY DEF BelowLimitIsComplete
  <2>1. size \in Nat /\ limit \in Nat /\ next \in Nat /\ DOMAIN files = 1 .. Len(files)
    BY DEF LogsInv, TypeOK
  <2>2. i \in 1 .. next - 1 /\ i <= Len(files)
    BY <2>1 DEF LogsInv, DoneOrFull
  <2>3. PICK k \in DOMAIN kept : kept[k].file = i
    BY <2>2 DEF LogsInv, PassedKept
  <2>4. Entire(k)
    BY <2>1 DEF LogsInv, CutAtLimit
  <2>. QED  BY <2>3, <2>4 DEF Entire
<1>2. QED
  BY <1>1, LogsInvariant, PTL
=============================================================================
