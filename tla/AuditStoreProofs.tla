-------------------------- MODULE AuditStoreProofs --------------------------
(***************************************************************************)
(* Theorems about AuditStore for every set of calls and processes: the     *)
(* safety properties, and that the store implements AuditLog.  AuditInv is *)
(* the inductive invariant: it tells from where a call stands which        *)
(* fragments of its line are in the file, and what came between them.      *)
(***************************************************************************)
EXTENDS AuditStore, SequenceTheorems, TLAPS

Unwritten == {"idle", "waiting", "locked", "loose", "checked", "open", "ready"}

\* A call inside Append holds its process's mutex.
MutexHeld == \A c \in Calls : pc[c] \in Inside => holder[Home[c]] = c

\* What a call has written, from where it stands; a call that crashed may have
\* written anything up to then.
WrittenSoFar ==
  \A c \in Calls :
    /\ pc[c] \in Unwritten => ~Log!Has(c, "line") /\ ~Log!Has(c, "head") /\ ~Log!Has(c, "tail")
    /\ pc[c] = "partial" => ~Log!Has(c, "line") /\ Log!Has(c, "head") /\ ~Log!Has(c, "tail")
    /\ pc[c] \in {"written", "ok"} => Log!StoredWhole(c)
    /\ pc[c] = "err" => ~Log!Has(c, "line") /\ ~Log!Has(c, "tail")

HeadThenTail ==
  \A c \in Calls : \A i, j \in 1 .. Len(log) : At(i, c, "head") /\ At(j, c, "tail") => i < j

\* Nothing of a call's own process follows its head until its tail.
NothingOfOwnBetween ==
  \A c \in Calls : \A i, l \in 1 .. Len(log) :
    At(i, c, "head") /\ i < l =>
      /\ pc[c] = "partial" => Home[log[l].ev] # Home[c]
      /\ \A j \in 1 .. Len(log) : l < j /\ At(j, c, "tail") => Home[log[l].ev] # Home[c]

EarlierReturned == \A c \in Calls : \A d \in earlier[c] : pc[d] = "ok"

AuditInv ==
  /\ TypeOK
  /\ MutexHeld
  /\ WrittenSoFar
  /\ HeadThenTail
  /\ NothingOfOwnBetween
  /\ EarlierReturned
  /\ ReturnOrderKept
  /\ WritesUnder0600

-----------------------------------------------------------------------------
(* Lemmas about the file.                                                   *)

\* Extend adds one fragment at the end.
LEMMA ExtendFacts ==
  ASSUME TypeOK, NEW c \in Calls, NEW form \in {"line", "head", "tail"}, Extend(c, form)
  PROVE  /\ log' \in Seq([ev : Calls, form : {"line", "head", "tail"}])
         /\ Len(log) \in Nat /\ Len(log') = Len(log) + 1
         /\ \A i \in 1 .. Len(log) : log'[i] = log[i]
         /\ log'[Len(log) + 1] = [ev |-> c, form |-> form]
         /\ \A d \in Calls, f \in {"line", "head", "tail"} :
              Log!Has(d, f)' <=> Log!Has(d, f) \/ (d = c /\ f = form)
<1>1. /\ log' \in Seq([ev : Calls, form : {"line", "head", "tail"}])
      /\ Len(log) \in Nat /\ Len(log') = Len(log) + 1
      /\ \A i \in 1 .. Len(log) : log'[i] = log[i]
      /\ log'[Len(log) + 1] = [ev |-> c, form |-> form]
  BY DEF TypeOK, Extend
<1>2. ASSUME NEW d \in Calls, NEW f \in {"line", "head", "tail"}
      PROVE  Log!Has(d, f)' <=> Log!Has(d, f) \/ (d = c /\ f = form)
  BY <1>1 DEF Log!Has
<1>3. QED
  BY <1>1, <1>2

\* Every fragment is of one of the three forms.
LEMMA PositionHas ==
  ASSUME TypeOK, NEW c \in Calls, NEW i \in Position(c)
  PROVE  /\ i \in 1 .. Len(log)
         /\ \E f \in {"line", "head", "tail"} : At(i, c, f) /\ Log!Has(c, f)
<1>1. i \in 1 .. Len(log) /\ log[i].ev = c
  BY DEF Position
<1>2. log[i] \in [ev : Calls, form : {"line", "head", "tail"}]
  BY <1>1, ElementOfSeq DEF TypeOK
<1>3. log[i] = [ev |-> c, form |-> log[i].form] /\ log[i].form \in {"line", "head", "tail"}
  BY <1>1, <1>2
<1>4. QED
  BY <1>1, <1>3 DEF At, Log!Has

-----------------------------------------------------------------------------
(* Each action keeps the invariant.                                         *)

\* A call that moves on without a write, and not to a stage that promises one,
\* leaves what is said of the file true.
LEMMA QuietStep ==
  ASSUME AuditInv, NEW c \in Calls, log' = log,
         \A d \in Calls \ {c} : pc'[d] = pc[d],
         \/ pc[c] \in Unwritten /\ pc'[c] \in Unwritten
         \/ pc[c] \in Unwritten \cup {"partial"} /\ pc'[c] = "err"
         \/ pc[c] = "written" /\ pc'[c] = "ok"
  PROVE  WrittenSoFar' /\ HeadThenTail' /\ NothingOfOwnBetween'
<1>1. \A d \in Calls, f \in {"line", "head", "tail"} : Log!Has(d, f)' <=> Log!Has(d, f)
  BY DEF Log!Has
<1>2. WrittenSoFar'
  <2> SUFFICES ASSUME NEW d \in Calls
               PROVE  /\ pc'[d] \in Unwritten =>
                           ~Log!Has(d, "line")' /\ ~Log!Has(d, "head")' /\ ~Log!Has(d, "tail")'
                      /\ pc'[d] = "partial" =>
                           ~Log!Has(d, "line")' /\ Log!Has(d, "head")' /\ ~Log!Has(d, "tail")'
                      /\ pc'[d] \in {"written", "ok"} => Log!StoredWhole(d)'
                      /\ pc'[d] = "err" => ~Log!Has(d, "line")' /\ ~Log!Has(d, "tail")'
    BY DEF WrittenSoFar
  <2>1. CASE d = c
    BY <1>1, <2>1 DEF AuditInv, WrittenSoFar, Unwritten, Log!StoredWhole
  <2>2. CASE d # c
    BY <1>1, <2>2 DEF AuditInv, WrittenSoFar, Log!StoredWhole
  <2>3. QED
    BY <2>1, <2>2
<1>3. HeadThenTail'
  BY DEF AuditInv, HeadThenTail, At
<1>4. NothingOfOwnBetween'
  BY DEF AuditInv, NothingOfOwnBetween, At, Unwritten
<1>5. QED
  BY <1>2, <1>3, <1>4

\* The history keeps its meaning while nothing is written and calls that have
\* returned stay so.
LEMMA HistoryKept ==
  ASSUME AuditInv, log' = log, earlier' = earlier,
         \A d \in Calls : pc[d] = "ok" => pc'[d] = "ok"
  PROVE  EarlierReturned' /\ ReturnOrderKept'
<1>1. \A d \in Calls : Position(d)' = Position(d)
  BY DEF Position
<1>2. \A d \in Calls : earlier[d] \subseteq Calls
  BY DEF AuditInv, TypeOK
<1>3. EarlierReturned'
  BY <1>2 DEF AuditInv, EarlierReturned
<1>4. ReturnOrderKept'
  BY <1>1, <1>2 DEF AuditInv, ReturnOrderKept
<1>5. QED
  BY <1>3, <1>4

\* A call about to wait has written nothing.
LEMMA InvokeStep ==
  ASSUME AuditInv, NEW c \in Calls, Invoke(c)
  PROVE  AuditInv'
<1>1. TypeOK'
  BY DEF AuditInv, TypeOK, Invoke, Goto, fsVars, histVars
<1>2. MutexHeld'
  BY DEF AuditInv, TypeOK, MutexHeld, Inside, Invoke, Goto
<1>3. WrittenSoFar' /\ HeadThenTail' /\ NothingOfOwnBetween'
  BY QuietStep DEF AuditInv, TypeOK, Unwritten, Invoke, Goto, fsVars
<1>4. EarlierReturned' /\ ReturnOrderKept'
  BY HistoryKept DEF AuditInv, TypeOK, Invoke, Goto, fsVars, histVars
<1>5. WritesUnder0600'
  BY DEF AuditInv, TypeOK, WritesUnder0600, Invoke, Goto, fsVars, histVars
<1>6. QED
  BY <1>1, <1>2, <1>3, <1>4, <1>5 DEF AuditInv

\* The mutex is free, so no call of the process is inside Append; the calls that
\* have returned are before this one, which has written nothing.
LEMMA LockStep ==
  ASSUME AuditInv, NEW c \in Calls, Lock(c)
  PROVE  AuditInv'
<1>1. TypeOK'
  BY AuditAssumption DEF AuditInv, TypeOK, Inside, Acked, Lock, Goto, fsVars
<1>2. MutexHeld'
  BY AuditAssumption DEF AuditInv, TypeOK, MutexHeld, Lock, Goto
<1>3. WrittenSoFar' /\ HeadThenTail' /\ NothingOfOwnBetween'
  BY QuietStep DEF AuditInv, TypeOK, Unwritten, Lock, Goto, fsVars
<1>4. /\ \A d \in Calls : earlier'[d] = IF d = c THEN Acked ELSE earlier[d]
      /\ \A d \in Calls : pc[d] = "ok" => pc'[d] = "ok"
  BY DEF AuditInv, TypeOK, Lock, Goto
<1>5. EarlierReturned'
  BY <1>4 DEF AuditInv, TypeOK, EarlierReturned, Acked
<1>6. ReturnOrderKept'
  <2>1. Position(c) = {}
    BY PositionHas DEF AuditInv, WrittenSoFar, Unwritten, Lock, Goto
  <2>2. \A d \in Calls : Position(d)' = Position(d)
    BY DEF Position, Lock, fsVars
  <2>3. \A d \in Calls : earlier[d] \subseteq Calls
    BY DEF AuditInv, TypeOK
  <2>4. QED
    BY <1>4, <2>1, <2>2, <2>3 DEF AuditInv, ReturnOrderKept, Acked
<1>7. WritesUnder0600'
  BY DEF AuditInv, TypeOK, WritesUnder0600, Lock, Goto, fsVars
<1>8. QED
  BY <1>1, <1>2, <1>3, <1>5, <1>6, <1>7 DEF AuditInv

\* A return releases the mutex of the call's own process, where no other call is
\* inside Append.
LEMMA UnlockKeepsMutex ==
  ASSUME AuditInv, NEW c \in Calls, NEW from \in Inside, NEW to \in {"ok", "err"},
         Unlock(c, from, to)
  PROVE  MutexHeld'
BY AuditAssumption DEF AuditInv, TypeOK, MutexHeld, Inside, Unlock, Goto

\* A directory at the path ends the call with an error; otherwise it goes on.
LEMMA StatPathStep ==
  ASSUME AuditInv, NEW c \in Calls, StatPath(c)
  PROVE  AuditInv'
<1>1. TypeOK'
  BY AuditAssumption
  DEF AuditInv, TypeOK, Inside, Returned, StatPath, Unlock, Goto, fsVars, histVars
<1>2. MutexHeld'
  <2>1. CASE Unlock(c, "locked", "err")
    BY <2>1, UnlockKeepsMutex DEF Inside
  <2>2. CASE holder' = holder /\ (Goto(c, "locked", "loose") \/ Goto(c, "locked", "checked"))
    BY <2>2 DEF AuditInv, TypeOK, MutexHeld, Inside, Goto
  <2>3. QED
    BY <2>1, <2>2 DEF StatPath
<1>3. WrittenSoFar' /\ HeadThenTail' /\ NothingOfOwnBetween'
  BY QuietStep DEF AuditInv, TypeOK, Unwritten, StatPath, Unlock, Goto, fsVars
<1>4. EarlierReturned' /\ ReturnOrderKept'
  BY HistoryKept DEF AuditInv, TypeOK, StatPath, Unlock, Goto, fsVars, histVars
<1>5. WritesUnder0600'
  BY DEF AuditInv, TypeOK, WritesUnder0600, StatPath, Unlock, Goto, fsVars, histVars
<1>6. QED
  BY <1>1, <1>2, <1>3, <1>4, <1>5 DEF AuditInv

\* The mode is tightened for every call.
LEMMA ChmodPathStep ==
  ASSUME AuditInv, NEW c \in Calls, ChmodPath(c)
  PROVE  AuditInv'
<1>1. TypeOK'
  BY DEF AuditInv, TypeOK, Inside, ChmodPath, Goto, histVars
<1>2. MutexHeld'
  BY DEF AuditInv, TypeOK, MutexHeld, Inside, ChmodPath, Goto
<1>3. WrittenSoFar' /\ HeadThenTail' /\ NothingOfOwnBetween'
  BY QuietStep DEF AuditInv, TypeOK, Unwritten, ChmodPath, Goto
<1>4. EarlierReturned' /\ ReturnOrderKept'
  BY HistoryKept DEF AuditInv, TypeOK, ChmodPath, Goto, histVars
<1>5. WritesUnder0600'
  BY DEF AuditInv, TypeOK, WritesUnder0600, ChmodPath, Goto, histVars
<1>6. QED
  BY <1>1, <1>2, <1>3, <1>4, <1>5 DEF AuditInv

\* A new file has the mode asked for, and no call has one that is not there.
LEMMA OpenLogStep ==
  ASSUME AuditInv, NEW c \in Calls, OpenLog(c)
  PROVE  AuditInv'
<1>1. TypeOK'
  BY DEF AuditInv, TypeOK, Inside, OpenLog, Goto, histVars
<1>2. MutexHeld'
  BY DEF AuditInv, TypeOK, MutexHeld, Inside, OpenLog, Goto
<1>3. WrittenSoFar' /\ HeadThenTail' /\ NothingOfOwnBetween'
  BY QuietStep DEF AuditInv, TypeOK, Unwritten, OpenLog, Goto
<1>4. EarlierReturned' /\ ReturnOrderKept'
  BY HistoryKept DEF AuditInv, TypeOK, OpenLog, Goto, histVars
<1>5. WritesUnder0600'
  BY DEF AuditInv, TypeOK, WritesUnder0600, OpenLog, Goto, histVars
<1>6. QED
  BY <1>1, <1>2, <1>3, <1>4, <1>5 DEF AuditInv

\* From here on the mode is the one that this call set.
LEMMA ChmodLogStep ==
  ASSUME AuditInv, NEW c \in Calls, ChmodLog(c)
  PROVE  AuditInv'
<1>1. TypeOK'
  BY DEF AuditInv, TypeOK, Inside, ChmodLog, Goto, histVars
<1>2. MutexHeld'
  BY DEF AuditInv, TypeOK, MutexHeld, Inside, ChmodLog, Goto
<1>3. WrittenSoFar' /\ HeadThenTail' /\ NothingOfOwnBetween'
  BY QuietStep DEF AuditInv, TypeOK, Unwritten, ChmodLog, Goto
<1>4. EarlierReturned' /\ ReturnOrderKept'
  BY HistoryKept DEF AuditInv, TypeOK, ChmodLog, Goto, histVars
<1>5. WritesUnder0600'
  BY DEF AuditInv, TypeOK, WritesUnder0600, ChmodLog, Goto, histVars
<1>6. QED
  BY <1>1, <1>2, <1>3, <1>4, <1>5 DEF AuditInv

\* A call returns nil with its line stored.
LEMMA ReturnStep ==
  ASSUME AuditInv, NEW c \in Calls, Return(c)
  PROVE  AuditInv'
<1>1. TypeOK'
  BY AuditAssumption
  DEF AuditInv, TypeOK, Returned, Return, Unlock, Goto, fsVars, histVars
<1>2. MutexHeld'
  BY UnlockKeepsMutex DEF Inside, Return
<1>3. WrittenSoFar' /\ HeadThenTail' /\ NothingOfOwnBetween'
  BY QuietStep DEF AuditInv, TypeOK, Unwritten, Return, Unlock, Goto, fsVars
<1>4. EarlierReturned' /\ ReturnOrderKept'
  BY HistoryKept DEF AuditInv, TypeOK, Return, Unlock, Goto, fsVars, histVars
<1>5. WritesUnder0600'
  BY DEF AuditInv, TypeOK, WritesUnder0600, Return, Unlock, Goto, fsVars, histVars
<1>6. QED
  BY <1>1, <1>2, <1>3, <1>4, <1>5 DEF AuditInv

\* A call that fails has stored a head at most.
LEMMA FailStep ==
  ASSUME AuditInv, NEW c \in Calls, Fail(c)
  PROVE  AuditInv'
<1>1. TypeOK'
  BY ZenonT(30), AuditAssumption
  DEF AuditInv, TypeOK, Returned, Fail, Unlock, Goto, fsVars, histVars
<1>2. MutexHeld'
  BY UnlockKeepsMutex DEF Inside, Fail
<1>3. WrittenSoFar' /\ HeadThenTail' /\ NothingOfOwnBetween'
  BY QuietStep DEF AuditInv, TypeOK, Unwritten, Fail, Unlock, Goto, fsVars
<1>4. EarlierReturned' /\ ReturnOrderKept'
  BY HistoryKept DEF AuditInv, TypeOK, Fail, Unlock, Goto, fsVars, histVars
<1>5. WritesUnder0600'
  BY DEF AuditInv, TypeOK, WritesUnder0600, Fail, Unlock, Goto, fsVars, histVars
<1>6. QED
  BY <1>1, <1>2, <1>3, <1>4, <1>5 DEF AuditInv

\* A call inside Append is the only one of its process.
LEMMA OthersOfProcess ==
  ASSUME AuditInv, NEW c \in Calls, pc[c] \in Inside,
         NEW d \in Calls \ {c}, pc[d] \in Inside
  PROVE  Home[d] # Home[c]
BY DEF AuditInv, MutexHeld

\* What a write has in common: one fragment more of one call, which holds its
\* process's mutex and is before no call that has got a mutex.
LEMMA WriteEffect ==
  ASSUME AuditInv, NEW c \in Calls, NEW form \in {"line", "head", "tail"},
         NEW from \in {"ready", "partial"}, NEW to \in {"partial", "written"},
         Goto(c, from, to), Extend(c, form),
         UNCHANGED <<holder, path, mode, histVars>>
  PROVE  TypeOK' /\ MutexHeld' /\ EarlierReturned' /\ ReturnOrderKept' /\ WritesUnder0600'
<1>0. TypeOK
  BY DEF AuditInv
<1>a. /\ log' \in Seq([ev : Calls, form : {"line", "head", "tail"}])
      /\ Len(log) \in Nat /\ Len(log') = Len(log) + 1
      /\ \A i \in 1 .. Len(log) : log'[i] = log[i]
      /\ log'[Len(log) + 1] = [ev |-> c, form |-> form]
  BY <1>0, ExtendFacts
<1>1. TypeOK'
  BY <1>0, <1>a DEF TypeOK, Inside, Goto, histVars
<1>2. MutexHeld'
  BY <1>0 DEF AuditInv, TypeOK, MutexHeld, Inside, Goto
<1>3. EarlierReturned'
  BY <1>0 DEF AuditInv, TypeOK, EarlierReturned, Goto, histVars
<1>4. ReturnOrderKept'
  <2> SUFFICES ASSUME NEW e \in Calls, NEW d \in earlier[e],
                      NEW i \in Position(e)', NEW j \in Position(d)'
               PROVE  j < i
    BY DEF ReturnOrderKept, histVars
  <2>1. d \in Calls /\ d # c
    BY <1>0 DEF AuditInv, TypeOK, EarlierReturned, Goto
  <2>2. j \in Position(d)
    <3>1. j \in 1 .. Len(log') /\ log'[j].ev = d
      BY DEF Position
    <3>2. j # Len(log) + 1
      BY <1>a, <2>1, <3>1
    <3>3. j \in 1 .. Len(log)
      BY <1>a, <3>1, <3>2
    <3>4. QED
      BY <1>a, <3>1, <3>3 DEF Position
  <2>3. i \in 1 .. Len(log') /\ log'[i].ev = e
    BY DEF Position
  <2>4. CASE i = Len(log) + 1
    <3>1. j \in 1 .. Len(log)
      BY <2>2 DEF Position
    <3>2. QED
      BY <1>a, <2>4, <3>1
  <2>5. CASE i # Len(log) + 1
    <3>1. i \in 1 .. Len(log)
      BY <1>a, <2>3, <2>5
    <3>2. i \in Position(e)
      BY <1>a, <2>3, <3>1 DEF Position
    <3>3. QED
      BY <2>2, <3>2 DEF AuditInv, ReturnOrderKept
  <2>6. QED
    BY <2>4, <2>5
<1>5. WritesUnder0600'
  BY <1>0 DEF AuditInv, TypeOK, WritesUnder0600, Goto, histVars
<1>6. QED
  BY <1>1, <1>2, <1>3, <1>4, <1>5

\* A write keeps calls of one process apart in the file: the new fragment is of a
\* call whose process has no other call inside Append, and a tail follows a head
\* since when the process has written nothing.
LEMMA WriteOrder ==
  ASSUME AuditInv, NEW c \in Calls, NEW form \in {"line", "head", "tail"},
         NEW from \in {"ready", "partial"}, NEW to \in {"partial", "written"},
         Goto(c, from, to), Extend(c, form),
         form # "tail" => from = "ready",
         form = "tail" => from = "partial",
         to = "partial" => form = "head"
  PROVE  HeadThenTail' /\ NothingOfOwnBetween'
<1>0. TypeOK
  BY DEF AuditInv
<1>a. /\ Len(log) \in Nat /\ Len(log') = Len(log) + 1
      /\ \A i \in 1 .. Len(log) : log'[i] = log[i]
      /\ log'[Len(log) + 1] = [ev |-> c, form |-> form]
  BY <1>0, ExtendFacts
<1>b. /\ pc[c] = from /\ pc'[c] = to
      /\ \A d \in Calls \ {c} : pc'[d] = pc[d]
  BY <1>0 DEF TypeOK, Goto
<1>c. \A d \in Calls, f \in {"line", "head", "tail"}, i \in 1 .. Len(log) :
        At(i, d, f)' <=> At(i, d, f)
  BY <1>a DEF At
<1>d. \A d \in Calls, f \in {"line", "head", "tail"}, i \in 1 .. Len(log') :
        i = Len(log) + 1 => (At(i, d, f)' <=> d = c /\ f = form)
  BY <1>a DEF At
<1>e. \A i \in 1 .. Len(log') : i \in 1 .. Len(log) \/ i = Len(log) + 1
  BY <1>a
<1>f. \A i \in 1 .. Len(log) : form = "head" => ~At(i, c, "head") /\ ~At(i, c, "tail")
  BY <1>b DEF AuditInv, WrittenSoFar, Unwritten, Log!Has, At
<1>1. HeadThenTail'
  <2> SUFFICES ASSUME NEW d \in Calls, NEW i \in 1 .. Len(log'), NEW j \in 1 .. Len(log'),
                      At(i, d, "head")', At(j, d, "tail")'
               PROVE  i < j
    BY DEF HeadThenTail
  <2>1. CASE i \in 1 .. Len(log) /\ j \in 1 .. Len(log)
    BY <1>c, <2>1 DEF AuditInv, HeadThenTail
  <2>2. CASE i \in 1 .. Len(log) /\ j = Len(log) + 1
    BY <1>a, <2>2
  <2>3. CASE i = Len(log) + 1 /\ j \in 1 .. Len(log)
    BY <1>c, <1>d, <1>f, <2>3
  <2>4. CASE i = Len(log) + 1 /\ j = Len(log) + 1
    BY <1>d, <2>4
  <2>5. QED
    BY <1>e, <2>1, <2>2, <2>3, <2>4
<1>2. NothingOfOwnBetween'
  <2> SUFFICES ASSUME NEW d \in Calls, NEW i \in 1 .. Len(log'), NEW l \in 1 .. Len(log'),
                      At(i, d, "head")', i < l
               PROVE  /\ pc'[d] = "partial" => Home[log'[l].ev] # Home[d]
                      /\ \A j \in 1 .. Len(log') :
                           l < j /\ At(j, d, "tail")' => Home[log'[l].ev] # Home[d]
    BY DEF NothingOfOwnBetween
  <2>1. i \in 1 .. Len(log) /\ At(i, d, "head")
    BY <1>a, <1>c, <1>e
  <2>2. CASE l \in 1 .. Len(log)
    <3>1. log'[l] = log[l]
      BY <1>a, <2>2
    <3>2. ASSUME pc'[d] = "partial"
          PROVE  Home[log[l].ev] # Home[d]
      BY <1>b, <1>f, <2>1, <2>2, <3>2 DEF AuditInv, NothingOfOwnBetween
    <3>3. ASSUME NEW j \in 1 .. Len(log'), l < j, At(j, d, "tail")'
          PROVE  Home[log[l].ev] # Home[d]
      <4>1. CASE j \in 1 .. Len(log)
        BY <1>c, <2>1, <2>2, <3>3, <4>1 DEF AuditInv, NothingOfOwnBetween
      <4>2. CASE j = Len(log) + 1
        <5>1. d = c /\ pc[d] = "partial"
          BY <1>b, <1>d, <3>3, <4>2
        <5>2. QED
          BY <2>1, <2>2, <5>1 DEF AuditInv, NothingOfOwnBetween
      <4>3. QED
        BY <1>e, <4>1, <4>2
    <3>4. QED
      BY <3>1, <3>2, <3>3
  <2>3. CASE l = Len(log) + 1
    <3>1. log'[l].ev = c
      BY <1>a, <2>3
    <3>2. ASSUME pc'[d] = "partial"
          PROVE  Home[c] # Home[d]
      <4>1. d # c
        BY <1>b, <1>f, <2>1, <3>2
      <4>2. pc[c] \in Inside /\ pc[d] \in Inside
        BY <1>b, <3>2, <4>1 DEF Inside
      <4>3. QED
        BY <4>1, <4>2, OthersOfProcess
    <3>3. \A j \in 1 .. Len(log') : ~(l < j)
      BY <1>a, <2>3
    <3>4. QED
      BY <3>1, <3>2, <3>3
  <2>4. QED
    BY <1>e, <2>2, <2>3
<1>3. QED
  BY <1>1, <1>2

\* A whole line at once.
LEMMA WriteLineStep ==
  ASSUME AuditInv, NEW c \in Calls, WriteLine(c)
  PROVE  AuditInv'
<1>1. TypeOK' /\ MutexHeld' /\ EarlierReturned' /\ ReturnOrderKept' /\ WritesUnder0600'
  BY WriteEffect DEF WriteLine
<1>2. HeadThenTail' /\ NothingOfOwnBetween'
  BY WriteOrder DEF WriteLine
<1>3. WrittenSoFar'
  <2>1. \A d \in Calls, f \in {"line", "head", "tail"} :
          Log!Has(d, f)' <=> Log!Has(d, f) \/ (d = c /\ f = "line")
    BY ExtendFacts DEF AuditInv, WriteLine
  <2>2. QED
    BY <2>1 DEF AuditInv, TypeOK, WrittenSoFar, Unwritten, Log!StoredWhole, WriteLine, Goto
<1>4. QED
  BY <1>1, <1>2, <1>3 DEF AuditInv

\* The head of a line, the rest to follow.
LEMMA WriteHeadStep ==
  ASSUME AuditInv, NEW c \in Calls, WriteHead(c)
  PROVE  AuditInv'
<1>1. TypeOK' /\ MutexHeld' /\ EarlierReturned' /\ ReturnOrderKept' /\ WritesUnder0600'
  BY WriteEffect DEF WriteHead
<1>2. HeadThenTail' /\ NothingOfOwnBetween'
  BY WriteOrder DEF WriteHead
<1>3. WrittenSoFar'
  <2>1. \A d \in Calls, f \in {"line", "head", "tail"} :
          Log!Has(d, f)' <=> Log!Has(d, f) \/ (d = c /\ f = "head")
    BY ExtendFacts DEF AuditInv, WriteHead
  <2>2. QED
    BY <2>1 DEF AuditInv, TypeOK, WrittenSoFar, Unwritten, Log!StoredWhole, WriteHead, Goto
<1>4. QED
  BY <1>1, <1>2, <1>3 DEF AuditInv

\* The rest of a line whose head is in the file.
LEMMA WriteTailStep ==
  ASSUME AuditInv, NEW c \in Calls, WriteTail(c)
  PROVE  AuditInv'
<1>1. TypeOK' /\ MutexHeld' /\ EarlierReturned' /\ ReturnOrderKept' /\ WritesUnder0600'
  BY WriteEffect DEF WriteTail
<1>2. HeadThenTail' /\ NothingOfOwnBetween'
  BY WriteOrder DEF WriteTail
<1>3. WrittenSoFar'
  <2>1. \A d \in Calls, f \in {"line", "head", "tail"} :
          Log!Has(d, f)' <=> Log!Has(d, f) \/ (d = c /\ f = "tail")
    BY ExtendFacts DEF AuditInv, WriteTail
  <2>2. QED
    BY <2>1 DEF AuditInv, TypeOK, WrittenSoFar, Unwritten, Log!StoredWhole, WriteTail, Goto
<1>4. QED
  BY <1>1, <1>2, <1>3 DEF AuditInv

\* The calls of a process that ends stop where they stand, and nothing more is
\* said of them than of what they had written.
LEMMA CrashStep ==
  ASSUME AuditInv, NEW p \in Procs, Crash(p)
  PROVE  AuditInv'
<1>1. /\ log' = log /\ mode' = mode /\ exposed' = exposed
      /\ \A d \in Calls : pc'[d] = pc[d] \/ pc'[d] = "crashed"
      /\ \A d \in Calls : pc'[d] = pc[d] /\ pc[d] \in Inside => Home[d] # p
      /\ \A d \in Calls : pc[d] = "ok" => pc'[d] = "ok"
  BY DEF AuditInv, TypeOK, Inside, Crash, fsVars, histVars
<1>2. TypeOK'
  BY DEF AuditInv, TypeOK, Returned, Crash, fsVars, histVars
<1>3. MutexHeld'
  <2>1. \A q \in Procs \ {p} : holder'[q] = holder[q]
    BY DEF AuditInv, TypeOK, Crash
  <2>2. \A d \in Calls : Home[d] \in Procs
    BY AuditAssumption
  <2>3. QED
    BY <1>1, <2>1, <2>2 DEF AuditInv, MutexHeld, Inside
<1>4. WrittenSoFar'
  <2>1. \A d \in Calls, f \in {"line", "head", "tail"} : Log!Has(d, f)' <=> Log!Has(d, f)
    BY <1>1 DEF Log!Has
  <2>2. QED
    BY <1>1, <2>1 DEF AuditInv, WrittenSoFar, Unwritten, Log!StoredWhole
<1>5. HeadThenTail' /\ NothingOfOwnBetween'
  BY <1>1 DEF AuditInv, HeadThenTail, NothingOfOwnBetween, At
<1>6. EarlierReturned' /\ ReturnOrderKept'
  BY <1>1, HistoryKept DEF Crash, histVars
<1>7. WritesUnder0600'
  BY <1>1 DEF AuditInv, WritesUnder0600
<1>8. QED
  BY <1>2, <1>3, <1>4, <1>5, <1>6, <1>7 DEF AuditInv

\* The calls past their own Chmod are exposed by a change from outside.
LEMMA LoosenStep ==
  ASSUME AuditInv, Loosen
  PROVE  AuditInv'
<1>1. TypeOK'
  BY DEF AuditInv, TypeOK, Loosen
<1>2. MutexHeld'
  BY DEF AuditInv, MutexHeld, Loosen
<1>3. WrittenSoFar'
  BY DEF AuditInv, WrittenSoFar, Log!StoredWhole, Log!Has, Loosen
<1>4. HeadThenTail' /\ NothingOfOwnBetween'
  BY DEF AuditInv, HeadThenTail, NothingOfOwnBetween, At, Loosen
<1>5. EarlierReturned' /\ ReturnOrderKept'
  BY HistoryKept DEF Loosen
<1>6. WritesUnder0600'
  BY DEF AuditInv, WritesUnder0600, Loosen
<1>7. QED
  BY <1>1, <1>2, <1>3, <1>4, <1>5, <1>6 DEF AuditInv

-----------------------------------------------------------------------------
(* The theorems.                                                            *)

\* The log is empty at first and no call has begun.
LEMMA AuditInvInit ==
  ASSUME Init
  PROVE  AuditInv
<1>1. TypeOK
  BY DEF Init, TypeOK
<1>2. MutexHeld
  BY DEF Init, MutexHeld, Inside
<1>3. Len(log) = 0
  BY DEF Init
<1>4. WrittenSoFar
  BY <1>3 DEF Init, WrittenSoFar, Unwritten, Log!Has
<1>5. HeadThenTail /\ NothingOfOwnBetween
  BY <1>3 DEF HeadThenTail, NothingOfOwnBetween
<1>6. EarlierReturned /\ ReturnOrderKept /\ WritesUnder0600
  BY DEF Init, EarlierReturned, ReturnOrderKept, WritesUnder0600
<1>7. QED
  BY <1>1, <1>2, <1>4, <1>5, <1>6 DEF AuditInv

\* Each step of the specification keeps the invariant.
LEMMA AuditInvStep ==
  ASSUME AuditInv, [Next]_vars
  PROVE  AuditInv'
<1>1. ASSUME NEW c \in Calls, Invoke(c) \/ Lock(c)
      PROVE  AuditInv'
  BY <1>1, InvokeStep, LockStep
<1>2. ASSUME NEW c \in Calls, AppendStep(c)
      PROVE  AuditInv'
  BY <1>2, StatPathStep, ChmodPathStep, OpenLogStep, ChmodLogStep, WriteLineStep,
     WriteHeadStep, WriteTailStep, ReturnStep, FailStep DEF AppendStep
<1>3. ASSUME NEW p \in Procs, Crash(p)
      PROVE  AuditInv'
  BY <1>3, CrashStep
<1>4. CASE Loosen
  BY <1>4, LoosenStep
<1>5. CASE UNCHANGED vars
  <2>1. TypeOK' /\ MutexHeld' /\ WritesUnder0600'
    BY <1>5 DEF vars, AuditInv, TypeOK, MutexHeld, WritesUnder0600
  <2>2. WrittenSoFar'
    BY <1>5 DEF vars, AuditInv, WrittenSoFar, Log!StoredWhole, Log!Has
  <2>3. HeadThenTail' /\ NothingOfOwnBetween'
    BY <1>5 DEF vars, AuditInv, HeadThenTail, NothingOfOwnBetween, At
  <2>4. EarlierReturned' /\ ReturnOrderKept'
    BY <1>5, HistoryKept DEF vars
  <2>5. QED
    BY <2>1, <2>2, <2>3, <2>4 DEF AuditInv
<1>6. QED
  BY <1>1, <1>2, <1>3, <1>4, <1>5 DEF Next

\* What a call has written follows from where it stands in Append, in every
\* reachable state.
THEOREM AuditInvariant == Spec => []AuditInv
<1>1. Init => AuditInv
  BY AuditInvInit
<1>2. AuditInv /\ [Next]_vars => AuditInv'
  BY AuditInvStep
<1>3. QED
  BY <1>1, <1>2, PTL DEF Spec

\* The variables of the audit store keep to their types.
THEOREM AuditTypeCorrect == Spec => []TypeOK
<1>1. AuditInv => TypeOK
  BY DEF AuditInv
<1>2. QED
  BY <1>1, AuditInvariant, PTL

\* Append never writes to a file that others may read, unless they changed its
\* mode after Append's own Chmod.
THEOREM WritesUnder0600Holds == Spec => []WritesUnder0600
<1>1. AuditInv => WritesUnder0600
  BY DEF AuditInv
<1>2. QED
  BY <1>1, AuditInvariant, PTL

\* The file has the events in the order in which their calls returned, for any
\* number of processes.
THEOREM ReturnOrderKeptHolds == Spec => []ReturnOrderKept
<1>1. AuditInv => ReturnOrderKept
  BY DEF AuditInv
<1>2. QED
  BY <1>1, AuditInvariant, PTL

\* An error from Append means that part of the line at least is missing from the
\* file, and success that all of it is there.
THEOREM OutcomeMatchesLogHolds == Spec => []OutcomeMatchesLog
<1>1. ASSUME AuditInv, NEW c \in Calls, pc[c] = "ok"
      PROVE  Whole(c)
  <2>1. Log!StoredWhole(c)
    BY <1>1 DEF AuditInv, WrittenSoFar
  <2>2. CASE Log!Has(c, "line")
    BY <2>2 DEF Log!Has, Whole, Position, At
  <2>3. CASE Log!Has(c, "head") /\ Log!Has(c, "tail")
    <3>1. PICK i, j \in 1 .. Len(log) : At(i, c, "head") /\ At(j, c, "tail")
      BY <2>3 DEF Log!Has, At
    <3>2. i < j
      BY <1>1, <3>1 DEF AuditInv, HeadThenTail
    <3>3. i \in Position(c) /\ j \in Position(c)
      BY <3>1 DEF Position, At
    <3>4. QED
      BY <3>1, <3>2, <3>3 DEF Whole
  <2>4. QED
    BY <2>1, <2>2, <2>3 DEF Log!StoredWhole
<1>2. ASSUME AuditInv, NEW c \in Calls, pc[c] = "err"
      PROVE  ~Whole(c)
  <2>1. ~Log!Has(c, "line") /\ ~Log!Has(c, "tail")
    BY <1>2 DEF AuditInv, WrittenSoFar
  <2>2. QED
    BY <2>1 DEF Whole, At, Log!Has
<1>3. AuditInv => OutcomeMatchesLog
  BY <1>1, <1>2 DEF OutcomeMatchesLog
<1>4. QED
  BY <1>3, AuditInvariant, PTL

\* An acknowledged event that a reader of lines misses was glued to a head left
\* before it, or split by writes of other processes, never of its own.
THEOREM LossExplainedHolds == Spec => []LossExplained
<1>1. ASSUME AuditInv, NEW c \in Acked, ~Readable(c)
      PROVE  \/ \E i \in Position(c) : log[i].form # "tail" /\ ~StartsLine(i)
             \/ \E i, j \in Position(c) : \E k \in i + 1 .. j - 1 :
                  /\ At(i, c, "head") /\ At(j, c, "tail")
                  /\ \A l \in i + 1 .. j - 1 : Home[log[l].ev] # Home[c]
  <2>1. c \in Calls /\ Log!StoredWhole(c) /\ Len(log) \in Nat
    BY <1>1 DEF AuditInv, TypeOK, WrittenSoFar, Acked
  <2>2. CASE Log!Has(c, "line")
    <3>1. PICK i \in 1 .. Len(log) : At(i, c, "line")
      BY <2>2 DEF Log!Has, At
    <3>2. i \in Position(c) /\ log[i].form # "tail"
      BY <3>1 DEF Position, At
    <3>3. ~StartsLine(i)
      BY <1>1, <3>1, <3>2 DEF Readable
    <3>4. QED
      BY <3>2, <3>3
  <2>3. CASE Log!Has(c, "head") /\ Log!Has(c, "tail")
    <3>1. PICK i, j \in 1 .. Len(log) : At(i, c, "head") /\ At(j, c, "tail")
      BY <2>3 DEF Log!Has, At
    <3>2. i \in Position(c) /\ j \in Position(c) /\ log[i].form # "tail"
      BY <3>1 DEF Position, At
    <3>3. i < j
      BY <1>1, <2>1, <3>1 DEF AuditInv, HeadThenTail
    <3>4. CASE ~StartsLine(i)
      BY <3>2, <3>4
    <3>5. CASE StartsLine(i)
      <4>1. j # i + 1
        BY <1>1, <3>1, <3>2, <3>5 DEF Readable
      <4>2. i + 1 \in i + 1 .. j - 1
        BY <3>3, <4>1
      <4>3. \A l \in i + 1 .. j - 1 : l \in 1 .. Len(log) /\ i < l /\ l < j
        BY <2>1
      <4>4. \A l \in i + 1 .. j - 1 : Home[log[l].ev] # Home[c]
        BY <1>1, <2>1, <3>1, <4>3 DEF AuditInv, NothingOfOwnBetween
      <4>5. QED
        BY <3>1, <3>2, <4>2, <4>4
    <3>6. QED
      BY <3>4, <3>5
  <2>4. QED
    BY <2>1, <2>2, <2>3 DEF Log!StoredWhole
<1>2. AuditInv => LossExplained
  BY <1>1 DEF LossExplained
<1>3. QED
  BY <1>2, AuditInvariant, PTL

\* A step that writes nothing and by which no call returns nil is a stutter of
\* the log.
LEMMA QuietIsStutter ==
  ASSUME log' = log, \A c \in Calls : pc'[c] = "ok" <=> pc[c] = "ok"
  PROVE  UNCHANGED Log!logVars
BY DEF Log!logVars, Acked

\* Each step of the store is a step of the log that only grows, or a stutter: the
\* first write of a call stores its line or a head, the second completes it, and
\* a return of nil acknowledges it.
LEMMA AuditStepImplements ==
  ASSUME AuditInv, [Next]_vars
  PROVE  [Log!LogNext]_Log!logVars
<1>0. pc \in [Calls -> {"idle", "waiting"} \cup Inside \cup Returned]
  BY DEF AuditInv, TypeOK
<1>1. ASSUME NEW c \in Calls, WriteLine(c) \/ WriteHead(c)
      PROVE  Log!LogNext
  <2>1. ~Log!Has(c, "line") /\ ~Log!Has(c, "head")
    BY <1>1 DEF AuditInv, WrittenSoFar, Unwritten, WriteLine, WriteHead, Goto
  <2>2. \E form \in {"line", "head"} : log' = Append(log, [ev |-> c, form |-> form])
    BY <1>1 DEF WriteLine, WriteHead, Extend
  <2>3. Acked' = Acked
    BY <1>0, <1>1 DEF WriteLine, WriteHead, Goto, Acked
  <2>4. QED
    BY <2>1, <2>2, <2>3 DEF Log!LogNext, Log!Store
<1>2. ASSUME NEW c \in Calls, WriteTail(c)
      PROVE  Log!LogNext
  <2>1. Log!Has(c, "head") /\ ~Log!Has(c, "tail")
    BY <1>2 DEF AuditInv, WrittenSoFar, WriteTail, Goto
  <2>2. Acked' = Acked
    BY <1>0, <1>2 DEF WriteTail, Goto, Acked
  <2>3. QED
    BY <1>2, <2>1, <2>2 DEF WriteTail, Extend, Log!LogNext, Log!Complete
<1>3. ASSUME NEW c \in Calls, Return(c)
      PROVE  Log!LogNext
  <2>1. Log!StoredWhole(c)
    BY <1>3 DEF AuditInv, WrittenSoFar, Return, Unlock, Goto
  <2>2. Acked' = Acked \cup {c}
    BY <1>0, <1>3 DEF Return, Unlock, Goto, Acked
  <2>3. QED
    BY <1>3, <2>1, <2>2 DEF Return, fsVars, Log!LogNext, Log!Acknowledge
<1>4. ASSUME NEW c \in Calls,
             \/ Invoke(c) \/ Lock(c) \/ StatPath(c) \/ ChmodPath(c)
             \/ OpenLog(c) \/ ChmodLog(c) \/ Fail(c)
      PROVE  UNCHANGED Log!logVars
  BY <1>0, <1>4, QuietIsStutter
  DEF Invoke, Lock, StatPath, ChmodPath, OpenLog, ChmodLog, Fail, Unlock, Goto, fsVars
<1>5. ASSUME NEW p \in Procs, Crash(p)
      PROVE  UNCHANGED Log!logVars
  BY <1>5, QuietIsStutter DEF Crash, Inside, fsVars
<1>6. CASE Loosen
  BY <1>6, QuietIsStutter DEF Loosen
<1>7. CASE UNCHANGED vars
  BY <1>7, QuietIsStutter DEF vars
<1>8. QED
  BY <1>1, <1>2, <1>3, <1>4, <1>5, <1>6, <1>7 DEF Next, AppendStep

\* The store implements AuditLog.
THEOREM AuditImplementsLog == Spec => ImplementsLog
<1>1. Init => Log!LogInit
  BY DEF Init, Log!LogInit, Acked
<1>2. AuditInv /\ [Next]_vars => [Log!LogNext]_Log!logVars
  BY AuditStepImplements
<1>3. QED
  BY <1>1, <1>2, AuditInvariant, PTL DEF Spec, ImplementsLog, Log!LogSpec
=============================================================================
