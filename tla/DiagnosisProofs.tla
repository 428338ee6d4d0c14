--------------------------- MODULE DiagnosisProofs --------------------------
(***************************************************************************)
(* Theorems about Diagnosis for every list of jobs, whatever requests fail *)
(* and in whatever order, and for every text of the logs.  DiagnosisInv is *)
(* the inductive invariant of the requests: what the loop over the jobs    *)
(* has passed by, at each of them, and that a call that goes on has lost   *)
(* nothing that it needs.  AnswerInv is that of the answer; that the       *)
(* answer is the best there is follows from what the ranking is.           *)
(***************************************************************************)
EXTENDS Diagnosis, FiniteSetTheorems, TLAPS

Stages == {"idle", "latest", "run", "jobs", "scan", "checkRun", "policies", "logs", "answered"}

\* A gate among the first n jobs was passed by only if its annotations were unread.
Passed(n) == \A i \in 1 .. n : Gated(jobs[i]) => Unread(i)

\* What the position in the loop means.
ScanOrdered ==
  /\ pc \in {"idle", "latest", "run", "jobs"} => next = 1
  /\ pc \in {"scan", "checkRun", "policies"} => next <= Len(jobs) + 1 /\ Passed(next - 1)
  /\ pc \in {"checkRun", "policies"} => next <= Len(jobs) /\ Candidate(Job)
  /\ pc = "policies" => Job.says \in {"branch", "rejected"}
  /\ pc = "logs" => Passed(Len(jobs))

\* A call that goes on has no answer yet, and has lost no request that it needs.
NothingNeededLost ==
  pc # "answered" => answer = "none" /\ \A f \in failures : ~Needed(f)

ControlOK ==
  /\ tool \in Tools
  /\ pc \in Stages
  /\ jobs \in Seq(JobSpace)
  /\ next \in Nat \ {0}

DiagnosisInv ==
  /\ ControlOK
  /\ ScanOrdered
  /\ NothingNeededLost
  /\ NoGateMissed
  /\ ErrorsExplained

-----------------------------------------------------------------------------
(* Lemmas about the operators.                                              *)

\* The error of a request is told by a code, and never as an invalid argument.
LEMMA MapErrorIsCode ==
  ASSUME NEW err \in LogErrors
  PROVE  MapError(err) \in Codes \ {"INVALID_INPUT"}
BY SMT DEF MapError, LogErrors, Errors, Sentinels, Unwrapped, Codes

\* A gate that was passed by stays accounted for while failures are only added.
LEMMA PassedKept ==
  ASSUME NEW n \in Nat, Passed(n), jobs' = jobs, failures \subseteq failures'
  PROVE  Passed(n)'
BY DEF Passed, Gated, Candidate, Unread

\* The next job is passed by if it is held back by no gate or its annotations are
\* unread.
LEMMA PassedNext ==
  ASSUME NEW n \in Nat \ {0}, Passed(n - 1), jobs' = jobs, failures \subseteq failures',
         Gated(jobs[n]) => Unread(n)'
  PROVE  Passed(n)'
<1>1. Passed(n - 1)'
  BY PassedKept
<1>2. \A i \in 1 .. n : i \in 1 .. n - 1 \/ i = n
  OBVIOUS
<1>. QED  BY <1>1, <1>2 DEF Passed, Gated, Candidate

\* The failure of a request that is not needed leaves a call that goes on as it was.
LEMMA FailureNotNeeded ==
  ASSUME NEW kind \in {"jobs", "annotations", "checkRun", "policies"}, NEW err,
         kind = "jobs" => tool = "get_run", tool \in Tools, tool' = tool,
         \A f \in failures : ~Needed(f), Fails(kind, err)
  PROVE  \A f \in failures' : ~Needed(f)'
BY DEF Fails, Needed, Tools

\* The failure of a request that is needed, and the answer that tells of it.
LEMMA FailureTold ==
  ASSUME NEW kind \in {"latest", "run", "jobs", "logs"}, NEW err \in LogErrors,
         kind = "jobs" => tool = "diagnose", tool' = tool,
         Fails(kind, err), Return(MapError(err))
  PROVE  NothingNeededLost' /\ NoGateMissed' /\ ErrorsExplained'
<1>1. /\ pc' = "answered"
      /\ answer' = MapError(err)
      /\ answer' \in Codes \ {"INVALID_INPUT"}
  BY MapErrorIsCode DEF Return
<1>2. answer' \notin {"run", "metadata", "logs", "INVALID_INPUT"}
  BY <1>1 DEF Codes
<1>3. \E f \in failures' : Needed(f)' /\ answer' = MapError(f.err)
  <2>1. PICK f \in failures' : f.kind = kind /\ f.err = err
    <3>1. [kind |-> kind, err |-> err, job |-> next] \in failures'
      BY DEF Fails
    <3>. QED  BY <3>1
  <2>2. Needed(f)'
    BY <2>1 DEF Needed
  <2>. QED  BY <1>1, <2>1, <2>2
<1>. QED  BY <1>1, <1>2, <1>3 DEF NothingNeededLost, NoGateMissed, ErrorsExplained

\* An answer that needs no failure to explain it.
LEMMA AnsweredWell ==
  ASSUME NEW result \in {"run", "logs", "metadata", "INVALID_INPUT"}, Return(result),
         \A f \in failures' : ~Needed(f)',
         result = "metadata" => Gated(Job)' /\ Passed(next - 1)'
  PROVE  NothingNeededLost' /\ NoGateMissed' /\ ErrorsExplained'
<1>1. pc' = "answered" /\ answer' = result
  BY DEF Return
<1>2. answer' \notin Codes \ {"INVALID_INPUT"}
  BY <1>1 DEF Codes
<1>. QED  BY <1>1, <1>2 DEF NothingNeededLost, NoGateMissed, ErrorsExplained, Passed

\* A step after which the call goes on.
LEMMA GoesOn ==
  ASSUME NEW stage \in Stages \ {"answered"}, pc' = stage, answer' = "none",
         \A f \in failures' : ~Needed(f)',
         stage = "logs" => Passed(Len(jobs))', (jobs \in Seq(JobSpace))'
  PROVE  NothingNeededLost' /\ NoGateMissed' /\ ErrorsExplained'
<1>1. answer' \notin Codes \cup {"run", "metadata", "logs"}
  BY DEF Codes
<1>2. DOMAIN jobs' = 1 .. Len(jobs')
  OBVIOUS
<1>. QED  BY <1>1, <1>2 DEF NothingNeededLost, NoGateMissed, ErrorsExplained, Passed, Codes

-----------------------------------------------------------------------------
(* Each action keeps the invariant.                                         *)

LEMMA InitInv == Init => DiagnosisInv
<1>. SUFFICES ASSUME Init  PROVE DiagnosisInv
  OBVIOUS
<1>1. ControlOK
  BY DEF Init, ControlOK, Stages
<1>2. ScanOrdered /\ NothingNeededLost
  BY DEF Init, ScanOrdered, NothingNeededLost
<1>3. NoGateMissed /\ ErrorsExplained
  BY DEF Init, NoGateMissed, ErrorsExplained, Codes
<1>. QED  BY <1>1, <1>2, <1>3 DEF DiagnosisInv

LEMMA ResolveKeeps ==
  ASSUME DiagnosisInv, NEW ref \in References, Resolve(ref)
  PROVE  DiagnosisInv'
<1>1. ResolveRunReference(ref) \in {"invalid", "run", "latest"}
  BY DEF ResolveRunReference
<1>2. \A f \in failures' : ~Needed(f)'
  BY DEF DiagnosisInv, NothingNeededLost, Resolve, Needed
<1>3. pc' \in {"run", "latest", "answered"}
  BY <1>1 DEF Resolve, Return
<1>4. ControlOK' /\ ScanOrdered'
  BY <1>3 DEF DiagnosisInv, ControlOK, ScanOrdered, Resolve, Stages
<1>5. NothingNeededLost' /\ NoGateMissed' /\ ErrorsExplained'
  <2>1. CASE ResolveRunReference(ref) = "invalid"
    BY <1>2, <2>1, AnsweredWell DEF Resolve
  <2>2. CASE ResolveRunReference(ref) # "invalid"
    <3>1. pc' \in Stages \ {"answered"} /\ pc' # "logs" /\ answer' = "none"
      BY <1>1, <2>2 DEF Resolve, Stages, DiagnosisInv, NothingNeededLost
    <3>. QED  BY <1>1, <1>2, <1>4, <2>2, <3>1, GoesOn DEF Resolve, ControlOK, Stages
  <2>. QED  BY <2>1, <2>2
<1>. QED  BY <1>4, <1>5 DEF DiagnosisInv

LEMMA FindLatestKeeps ==
  ASSUME DiagnosisInv, FindLatest
  PROVE  DiagnosisInv'
<1>. USE DEF FindLatest
<1>1. pc = "latest" /\ next = 1 /\ tool' = tool /\ jobs' = jobs /\ next' = next
  BY DEF DiagnosisInv, ScanOrdered
<1>2. answer = "none" /\ \A f \in failures : ~Needed(f)
  BY <1>1 DEF DiagnosisInv, NothingNeededLost
<1>3. pc' \in {"run", "answered"}
  BY DEF Return
<1>4. ControlOK' /\ ScanOrdered'
  BY <1>1, <1>3 DEF DiagnosisInv, ControlOK, ScanOrdered, Stages
<1>5. NothingNeededLost' /\ NoGateMissed' /\ ErrorsExplained'
  <2>1. Succeeds => \A f \in failures' : ~Needed(f)'
    BY <1>1, <1>2 DEF Succeeds, Needed
  <2>2. CASE Succeeds /\ pc' = "run" /\ UNCHANGED answer
    BY <1>2, <1>4, <2>1, <2>2, GoesOn DEF ControlOK, Stages
  <2>3. CASE Succeeds /\ Return("INVALID_INPUT")
    BY <2>1, <2>3, AnsweredWell
  <2>4. CASE \E err \in Errors : Fails("latest", err) /\ Return(MapError(err))
    BY <1>1, <2>4, FailureTold DEF LogErrors
  <2>. QED  BY <2>2, <2>3, <2>4
<1>. QED  BY <1>4, <1>5 DEF DiagnosisInv

LEMMA ReadRunKeeps ==
  ASSUME DiagnosisInv, ReadRun
  PROVE  DiagnosisInv'
<1>. USE DEF ReadRun
<1>1. pc = "run" /\ next = 1 /\ tool' = tool /\ jobs' = jobs /\ next' = next
  BY DEF DiagnosisInv, ScanOrdered
<1>2. answer = "none" /\ \A f \in failures : ~Needed(f)
  BY <1>1 DEF DiagnosisInv, NothingNeededLost
<1>3. pc' \in {"jobs", "answered"}
  BY DEF Return
<1>4. ControlOK' /\ ScanOrdered'
  BY <1>1, <1>3 DEF DiagnosisInv, ControlOK, ScanOrdered, Stages
<1>5. NothingNeededLost' /\ NoGateMissed' /\ ErrorsExplained'
  <2>1. CASE Succeeds /\ pc' = "jobs" /\ UNCHANGED answer
    <3>1. \A f \in failures' : ~Needed(f)'
      BY <1>1, <1>2, <2>1 DEF Succeeds, Needed
    <3>. QED  BY <1>2, <1>4, <2>1, <3>1, GoesOn DEF ControlOK, Stages
  <2>2. CASE \E err \in Errors : Fails("run", err) /\ Return(MapError(err))
    BY <1>1, <2>2, FailureTold DEF LogErrors
  <2>. QED  BY <2>1, <2>2
<1>. QED  BY <1>4, <1>5 DEF DiagnosisInv

LEMMA ReadJobsKeeps ==
  ASSUME DiagnosisInv, ReadJobs
  PROVE  DiagnosisInv'
<1>. USE DEF ReadJobs
<1>1. pc = "jobs" /\ next = 1 /\ tool' = tool /\ tool \in Tools /\ next' = next
  BY DEF DiagnosisInv, ScanOrdered, ControlOK
<1>2. answer = "none" /\ \A f \in failures : ~Needed(f)
  BY <1>1 DEF DiagnosisInv, NothingNeededLost
<1>3. jobs' \in Seq(JobSpace)
  BY DiagnosisAssumption DEF DiagnosisAssumption, DiagnosisInv, ControlOK
<1>4. pc' \in {"scan", "answered"}
  BY DEF Return
<1>5. ControlOK'
  BY <1>1, <1>3, <1>4 DEF ControlOK, Stages
<1>6. ScanOrdered'
  BY <1>1, <1>3, <1>4 DEF ScanOrdered, Passed
<1>7. NothingNeededLost' /\ NoGateMissed' /\ ErrorsExplained'
  <2>1. ASSUME Succeeds,
               IF tool = "get_run" THEN Return("run") ELSE pc' = "scan" /\ UNCHANGED answer
        PROVE  NothingNeededLost' /\ NoGateMissed' /\ ErrorsExplained'
    <3>1. \A f \in failures' : ~Needed(f)'
      BY <1>1, <1>2, <2>1 DEF Succeeds, Needed
    <3>2. CASE Return("run")
      BY <3>1, <3>2, AnsweredWell
    <3>3. CASE pc' = "scan" /\ UNCHANGED answer
      BY <1>2, <1>3, <3>1, <3>3, GoesOn DEF Stages
    <3>. QED  BY <2>1, <3>2, <3>3
  <2>2. ASSUME NEW err \in Errors, Fails("jobs", err),
               Return(IF tool = "get_run" THEN "run" ELSE MapError(err))
        PROVE  NothingNeededLost' /\ NoGateMissed' /\ ErrorsExplained'
    <3>1. CASE tool = "get_run"
      <4>1. \A f \in failures' : ~Needed(f)'
        BY <1>1, <1>2, <2>2, <3>1, FailureNotNeeded
      <4>. QED  BY <2>2, <3>1, <4>1, AnsweredWell
    <3>2. CASE tool = "diagnose"
      BY <1>1, <2>2, <3>2, FailureTold DEF LogErrors
    <3>. QED  BY <1>1, <3>1, <3>2 DEF Tools
  <2>. QED  BY <2>1, <2>2
<1>. QED  BY <1>5, <1>6, <1>7 DEF DiagnosisInv

\* The loop goes on to the next job, which leaves no gate behind that was read.
LEMMA NextJobKeeps ==
  ASSUME DiagnosisInv, NEW n, n = next, pc \in {"scan", "checkRun"}, n <= Len(jobs),
         NextJob, tool' = tool, jobs' = jobs, answer' = answer, failures \subseteq failures',
         \A f \in failures' : ~Needed(f)', Gated(Job) => Unread(n)'
  PROVE  DiagnosisInv'
<1>1. /\ n \in Nat \ {0} /\ jobs \in Seq(JobSpace)
      /\ pc' = "scan" /\ next' = n + 1 /\ answer' = "none"
  BY DEF DiagnosisInv, ControlOK, NothingNeededLost, NextJob
<1>2. Passed(n - 1) /\ (Gated(jobs[n]) => Unread(n)')
  BY DEF DiagnosisInv, ScanOrdered, Job
<1>3. Passed(n)'
  BY <1>1, <1>2, PassedNext
<1>4. ControlOK'
  BY <1>1 DEF DiagnosisInv, ControlOK, Stages
<1>5. ScanOrdered'
  <2>1. next' <= Len(jobs') + 1
    BY <1>1
  <2>2. Passed(next - 1)'
    BY <1>1, <1>3 DEF Passed
  <2>. QED  BY <1>1, <2>1, <2>2 DEF ScanOrdered
<1>6. NothingNeededLost' /\ NoGateMissed' /\ ErrorsExplained'
  BY <1>1, GoesOn DEF Stages
<1>. QED  BY <1>4, <1>5, <1>6 DEF DiagnosisInv

\* A gate is found: the call ends with a diagnosis of the job that it holds back.
LEMMA BlockedKeeps ==
  ASSUME DiagnosisInv, NEW confidence, Blocked(confidence), pc \in {"checkRun", "policies"},
         Job.says \in {"review", "branch", "rejected"}, UNCHANGED <<tool, jobs, next>>,
         failures \subseteq failures', \A f \in failures' : ~Needed(f)'
  PROVE  DiagnosisInv'
<1>1. next \in Nat \ {0} /\ Passed(next - 1) /\ Candidate(Job)
  BY DEF DiagnosisInv, ControlOK, ScanOrdered
<1>2. Gated(Job)'
  BY <1>1 DEF Gated, Candidate, Job
<1>3. Passed(next - 1)'
  <2>. SUFFICES ASSUME NEW n \in Nat, n = next - 1, Passed(n)  PROVE Passed(n)'
    BY <1>1 DEF Passed
  <2>. QED  BY PassedKept
<1>4. Return("metadata")
  BY DEF Blocked
<1>5. ControlOK' /\ ScanOrdered'
  BY <1>4 DEF DiagnosisInv, ControlOK, ScanOrdered, Stages, Return
<1>6. NothingNeededLost' /\ NoGateMissed' /\ ErrorsExplained'
  BY <1>2, <1>3, <1>4, AnsweredWell
<1>. QED  BY <1>5, <1>6 DEF DiagnosisInv

LEMMA SkipJobKeeps ==
  ASSUME DiagnosisInv, SkipJob
  PROVE  DiagnosisInv'
<1>1. /\ pc = "scan" /\ next <= Len(jobs) /\ ~Gated(Job) /\ NextJob
      /\ UNCHANGED <<tool, jobs, answer, failures>>
  BY DEF SkipJob, InScan, Gated
<1>2. \A f \in failures' : ~Needed(f)'
  BY <1>1 DEF DiagnosisInv, NothingNeededLost, Needed
<1>. QED  BY <1>1, <1>2, NextJobKeeps

LEMMA ReadAnnotationsKeeps ==
  ASSUME DiagnosisInv, ReadAnnotations
  PROVE  DiagnosisInv'
<1>. USE DEF ReadAnnotations
<1>1. /\ pc = "scan" /\ next <= Len(jobs) /\ Candidate(Job) /\ tool \in Tools
      /\ UNCHANGED <<tool, jobs, answer>>
  BY DEF InScan, DiagnosisInv, ControlOK
<1>2. answer = "none" /\ \A f \in failures : ~Needed(f)
  BY <1>1 DEF DiagnosisInv, NothingNeededLost
<1>3. Succeeds => \A f \in failures' : ~Needed(f)'
  BY <1>1, <1>2 DEF Succeeds, Needed
<1>4. CASE Succeeds /\ Job.says = "nothing" /\ NextJob
  <2>1. ~Gated(Job) /\ failures \subseteq failures'
    BY <1>4 DEF Gated, Succeeds
  <2>. QED  BY <1>1, <1>3, <1>4, <2>1, NextJobKeeps
<1>5. CASE Succeeds /\ Job.says # "nothing" /\ pc' = "checkRun" /\ UNCHANGED next
  <2>1. ControlOK'
    BY <1>1, <1>5 DEF DiagnosisInv, ControlOK, Stages
  <2>2. ScanOrdered'
    BY <1>1, <1>5 DEF DiagnosisInv, ScanOrdered, Passed, Unread, Succeeds, Job
  <2>3. NothingNeededLost' /\ NoGateMissed' /\ ErrorsExplained'
    BY <1>1, <1>2, <1>3, <1>5, <2>1, GoesOn DEF Stages, ControlOK
  <2>. QED  BY <2>1, <2>2, <2>3 DEF DiagnosisInv
<1>6. ASSUME NEW err \in Errors, Fails("annotations", err), NextJob
      PROVE  DiagnosisInv'
  <2>. SUFFICES ASSUME NEW n, n = next  PROVE DiagnosisInv'
    OBVIOUS
  <2>1. \A f \in failures' : ~Needed(f)'
    BY <1>1, <1>2, <1>6, FailureNotNeeded
  <2>2. [kind |-> "annotations", err |-> err, job |-> n] \in failures'
    BY <1>6 DEF Fails
  <2>3. Unread(n)' /\ failures \subseteq failures'
    BY <1>6, <2>2 DEF Unread, Fails
  <2>. QED  BY <1>1, <1>6, <2>1, <2>3, NextJobKeeps
<1>. QED  BY <1>4, <1>5, <1>6

\* What the annotations say is decided on, whether or not the check run was read.
LEMMA DecideKeeps ==
  ASSUME DiagnosisInv, pc = "checkRun", NEW named, Decide(named), UNCHANGED <<tool, jobs>>,
         failures \subseteq failures', \A f \in failures' : ~Needed(f)'
  PROVE  DiagnosisInv'
<1>1. next <= Len(jobs) /\ answer = "none"
  BY DEF DiagnosisInv, ScanOrdered, NothingNeededLost
<1>2. CASE Job.says = "other" /\ NextJob /\ UNCHANGED <<answer, diagnostic>>
  <2>1. ~Gated(Job)
    BY <1>2 DEF Gated
  <2>. QED  BY <1>1, <1>2, <2>1, NextJobKeeps
<1>3. CASE Job.says = "review" /\ Blocked(92) /\ UNCHANGED next
  BY <1>3, BlockedKeeps
<1>4. CASE Job.says \in {"branch", "rejected"} /\ Blocked(94) /\ UNCHANGED next
  BY <1>4, BlockedKeeps
<1>5. CASE /\ Job.says \in {"branch", "rejected"} /\ pc' = "policies"
           /\ UNCHANGED <<answer, diagnostic>> /\ UNCHANGED next
  <2>1. ControlOK'
    BY <1>5 DEF DiagnosisInv, ControlOK, Stages
  <2>2. ScanOrdered'
    <3>1. next <= Len(jobs) + 1 /\ Passed(next - 1) /\ Candidate(Job) /\ next \in Nat \ {0}
      BY DEF DiagnosisInv, ScanOrdered, ControlOK
    <3>2. Passed(next - 1)'
      <4>. SUFFICES ASSUME NEW n \in Nat, n = next - 1, Passed(n)  PROVE Passed(n)'
        BY <1>5, <3>1 DEF Passed
      <4>. QED  BY PassedKept
    <3>3. Job' = Job
      BY <1>5 DEF Job
    <3>. QED  BY <1>1, <1>5, <3>1, <3>2, <3>3 DEF ScanOrdered, Candidate
  <2>3. NothingNeededLost' /\ NoGateMissed' /\ ErrorsExplained'
    BY <1>1, <1>5, <2>1, GoesOn DEF Stages, ControlOK
  <2>. QED  BY <2>1, <2>2, <2>3 DEF DiagnosisInv
<1>. QED  BY <1>2, <1>3, <1>4, <1>5 DEF Decide

LEMMA ReadCheckRunKeeps ==
  ASSUME DiagnosisInv, ReadCheckRun
  PROVE  DiagnosisInv'
<1>. USE DEF ReadCheckRun
<1>1. pc = "checkRun" /\ tool \in Tools /\ UNCHANGED <<tool, jobs>>
  BY DEF DiagnosisInv, ControlOK
<1>2. \A f \in failures : ~Needed(f)
  BY <1>1 DEF DiagnosisInv, NothingNeededLost
<1>3. CASE Succeeds /\ Decide(Job.says = "branch" \/ Job.deployment)
  <2>1. failures \subseteq failures' /\ \A f \in failures' : ~Needed(f)'
    BY <1>1, <1>2, <1>3 DEF Succeeds, Needed
  <2>. QED  BY <1>1, <1>3, <2>1, DecideKeeps
<1>4. ASSUME NEW err \in Errors, Fails("checkRun", err), Decide(Job.says = "branch")
      PROVE  DiagnosisInv'
  <2>1. \A f \in failures' : ~Needed(f)'
    BY <1>1, <1>2, <1>4, FailureNotNeeded
  <2>2. failures \subseteq failures'
    BY <1>4 DEF Fails
  <2>. QED  BY <1>1, <1>4, <2>1, <2>2, DecideKeeps
<1>. QED  BY <1>3, <1>4

LEMMA ReadPoliciesKeeps ==
  ASSUME DiagnosisInv, ReadPolicies
  PROVE  DiagnosisInv'
<1>. USE DEF ReadPolicies
<1>1. /\ pc = "policies" /\ tool \in Tools /\ UNCHANGED <<tool, jobs, next>>
      /\ Job.says \in {"branch", "rejected"} /\ Blocked(94)
  BY DEF DiagnosisInv, ControlOK, ScanOrdered
<1>2. \A f \in failures : ~Needed(f)
  BY <1>1 DEF DiagnosisInv, NothingNeededLost
<1>3. failures \subseteq failures'
  BY DEF Succeeds, Fails
<1>4. \A f \in failures' : ~Needed(f)'
  <2>1. CASE Succeeds
    BY <1>1, <1>2, <2>1 DEF Succeeds, Needed
  <2>2. CASE \E err \in Errors : Fails("policies", err)
    BY <1>1, <1>2, <2>2, FailureNotNeeded
  <2>. QED  BY <2>1, <2>2
<1>. QED  BY <1>1, <1>3, <1>4, BlockedKeeps

LEMMA EndScanKeeps ==
  ASSUME DiagnosisInv, EndScan
  PROVE  DiagnosisInv'
<1>. USE DEF EndScan
<1>1. /\ pc = "scan" /\ next > Len(jobs) /\ pc' = "logs"
      /\ next \in Nat \ {0} /\ jobs \in Seq(JobSpace)
      /\ UNCHANGED <<tool, jobs, next, answer, failures>>
  BY DEF DiagnosisInv, ControlOK
<1>2. answer = "none" /\ \A f \in failures : ~Needed(f)
  BY <1>1 DEF DiagnosisInv, NothingNeededLost
<1>3. Passed(Len(jobs))
  BY <1>1 DEF DiagnosisInv, ScanOrdered, Passed
<1>4. Passed(Len(jobs))'
  BY <1>1, <1>3 DEF Passed, Unread
<1>5. ControlOK'
  BY <1>1 DEF DiagnosisInv, ControlOK, Stages
<1>6. ScanOrdered'
  BY <1>1, <1>4 DEF ScanOrdered
<1>7. \A f \in failures' : ~Needed(f)'
  BY <1>1, <1>2 DEF Needed
<1>8. NothingNeededLost' /\ NoGateMissed' /\ ErrorsExplained'
  BY <1>1, <1>2, <1>4, <1>5, <1>7, GoesOn DEF Stages, ControlOK
<1>. QED  BY <1>5, <1>6, <1>8 DEF DiagnosisInv

LEMMA ReadLogsKeeps ==
  ASSUME DiagnosisInv, ReadLogs
  PROVE  DiagnosisInv'
<1>. USE DEF ReadLogs
<1>1. pc = "logs" /\ UNCHANGED <<tool, jobs, next>>
  OBVIOUS
<1>2. \A f \in failures : ~Needed(f)
  BY <1>1 DEF DiagnosisInv, NothingNeededLost
<1>3. pc' = "answered"
  BY DEF DiagnoseLogs, Return
<1>4. ControlOK' /\ ScanOrdered'
  BY <1>1, <1>3 DEF DiagnosisInv, ControlOK, ScanOrdered, Stages
<1>5. CASE Succeeds /\ DiagnoseLogs
  <2>1. Return("logs") /\ \A f \in failures' : ~Needed(f)'
    BY <1>1, <1>2, <1>5 DEF Succeeds, DiagnoseLogs, Needed
  <2>2. NothingNeededLost' /\ NoGateMissed' /\ ErrorsExplained'
    BY <2>1, AnsweredWell
  <2>. QED  BY <1>4, <2>2 DEF DiagnosisInv
<1>6. CASE \E err \in LogErrors : Fails("logs", err) /\ Return(MapError(err))
  <2>1. NothingNeededLost' /\ NoGateMissed' /\ ErrorsExplained'
    BY <1>1, <1>6, FailureTold
  <2>. QED  BY <1>4, <2>1 DEF DiagnosisInv
<1>. QED  BY <1>5, <1>6

\* A step that changes nothing.
LEMMA StutterKeeps ==
  ASSUME DiagnosisInv, UNCHANGED vars
  PROVE  DiagnosisInv'
<1>. USE DEF vars
<1>1. ControlOK' /\ ScanOrdered' /\ NothingNeededLost'
  BY DEF DiagnosisInv, ControlOK, ScanOrdered, NothingNeededLost, Passed, Unread, Needed,
         Job
<1>2. NoGateMissed' /\ ErrorsExplained'
  BY DEF DiagnosisInv, NoGateMissed, ErrorsExplained, Unread, Needed, Job
<1>. QED  BY <1>1, <1>2 DEF DiagnosisInv

-----------------------------------------------------------------------------
(* The theorems.                                                            *)

\* In every state that a call can be in, the loop has passed by no gate whose
\* annotations it has read, and no request that the call needs was lost unless the call
\* has ended.
THEOREM DiagnosisInvariant == Spec => []DiagnosisInv
<1>1. Init => DiagnosisInv
  BY InitInv
<1>2. DiagnosisInv /\ [Next]_vars => DiagnosisInv'
  BY ResolveKeeps, FindLatestKeeps, ReadRunKeeps, ReadJobsKeeps, SkipJobKeeps,
     ReadAnnotationsKeeps, ReadCheckRunKeeps, ReadPoliciesKeeps, EndScanKeeps,
     ReadLogsKeeps, StutterKeeps
     DEF Next
<1>3. QED
  BY <1>1, <1>2, PTL DEF Spec

\* No gate is missed, however many jobs the run has and whichever requests about other
\* jobs fail.
THEOREM NoGateMissedHolds == Spec => []NoGateMissed
<1>1. DiagnosisInv => NoGateMissed
  BY DEF DiagnosisInv
<1>2. QED
  BY <1>1, DiagnosisInvariant, PTL

\* An error is told exactly when a request that the call needs has failed, and told with
\* that error's code.
THEOREM ErrorsExplainedHolds == Spec => []ErrorsExplained
<1>1. DiagnosisInv => ErrorsExplained
  BY DEF DiagnosisInv
<1>2. QED
  BY <1>1, DiagnosisInvariant, PTL

-----------------------------------------------------------------------------
(* The elements of a finite set in order.                                   *)

\* R, a set of pairs, is a strict order of S that leaves no two elements unordered.
StrictOrder(S, R) ==
  /\ \A x \in S : <<x, x>> \notin R
  /\ \A x, y, z \in S : <<x, y>> \in R /\ <<y, z>> \in R => <<x, z>> \in R
  /\ \A x, y \in S : x # y => <<x, y>> \in R \/ <<y, x>> \in R

\* What is before x.
Before(S, R, x) == {y \in S : <<y, x>> \in R}

\* For every number below the size of S there is an element with so many before it:
\* no two have as many, and there are as many elements as numbers.
LEMMA Places ==
  ASSUME NEW S, IsFiniteSet(S), NEW R, StrictOrder(S, R), NEW n \in 1 .. Cardinality(S)
  PROVE  \E x \in S : Cardinality(Before(S, R, x)) = n - 1
<1>. DEFINE size == Cardinality(S)
            T    == 0 .. size - 1
            f    == [x \in S |-> Cardinality(Before(S, R, x))]
<1>1. size \in Nat
  BY FS_CardinalityType
<1>. HIDE DEF size
<1>2. IsFiniteSet(T) /\ Cardinality(T) = size
  <2>1. size - 1 \in Int /\ 0 \in Int
    BY <1>1
  <2>. QED  BY <1>1, <2>1, FS_Interval
<1>3. ASSUME NEW x \in S
      PROVE  /\ IsFiniteSet(Before(S, R, x))
             /\ Cardinality(Before(S, R, x)) \in T
  <2>1. Before(S, R, x) \in SUBSET (S \ {x})
    BY DEF Before, StrictOrder
  <2>2. IsFiniteSet(S \ {x}) /\ Cardinality(S \ {x}) = size - 1
    BY FS_RemoveElement DEF size
  <2>3. /\ IsFiniteSet(Before(S, R, x))
        /\ Cardinality(Before(S, R, x)) <= size - 1
    BY <2>1, <2>2, FS_Subset
  <2>4. Cardinality(Before(S, R, x)) \in Nat
    BY <2>3, FS_CardinalityType
  <2>. QED  BY <1>1, <2>3, <2>4
<1>4. ASSUME NEW x \in S, NEW y \in S, <<x, y>> \in R
      PROVE  Cardinality(Before(S, R, x)) # Cardinality(Before(S, R, y))
  <2>1. Before(S, R, x) \in SUBSET Before(S, R, y)
    BY <1>4 DEF Before, StrictOrder
  <2>2. x \in Before(S, R, y) /\ x \notin Before(S, R, x)
    BY <1>4 DEF Before, StrictOrder
  <2>. QED  BY <1>3, <2>1, <2>2, FS_Subset
<1>5. f \in Injection(S, T)
  <2>1. f \in [S -> T]
    BY <1>3
  <2>2. ASSUME NEW x \in S, NEW y \in S, f[x] = f[y]
        PROVE  x = y
    BY <1>4, <2>2 DEF StrictOrder
  <2>. QED  BY <2>1, <2>2 DEF Injection, IsInjective
<1>6. f \in Surjection(S, T)
  <2>. HIDE DEF f
  <2>1. Cardinality(S) = Cardinality(T)
    BY <1>2 DEF size
  <2>. QED  BY <1>2, <1>5, <2>1, FS_Injection
<1>7. n - 1 \in T
  BY <1>1 DEF size
<1>8. PICK x \in S : f[x] = n - 1
  BY <1>6, <1>7 DEF Surjection
<1>. QED  BY <1>8

-----------------------------------------------------------------------------
(* The matches of a text.                                                   *)

LEMMA MatchesAre ==
  ASSUME NEW text, NEW category, NEW x
  PROVE  x \in MatchesOf(text, category) <=>
           \E i \in DOMAIN text : \E m \in text[i] : m.category = category /\ x = <<i, m>>
BY DEF MatchesOf

LEMMA MatchesFinite ==
  ASSUME NEW text \in Seq(LineSpace), NEW category
  PROVE  /\ IsFiniteSet(MatchesOf(text, category))
         /\ Score(text, category) \in Nat
<1>. DEFINE lines == {text[i] : i \in DOMAIN text}
<1>1. DOMAIN text = 1 .. Len(text) /\ Len(text) \in Nat
  OBVIOUS
<1>2. IsFiniteSet(DOMAIN text)
  BY <1>1, FS_Interval
<1>3. IsFiniteSet(lines)
  <2>1. text \in Surjection(DOMAIN text, lines)
    BY <1>1 DEF Surjection
  <2>. HIDE DEF lines
  <2>. QED  BY <1>2, <2>1, FS_Surjection
<1>4. \A line \in lines : IsFiniteSet(line)
  BY DEF LineSpace
<1>5. IsFiniteSet((DOMAIN text) \X UNION lines)
  <2>. HIDE DEF lines
  <2>1. IsFiniteSet(UNION lines)
    BY <1>3, <1>4, FS_UNION
  <2>. QED  BY <1>2, <2>1, FS_Product
<1>6. MatchesOf(text, category) \in SUBSET ((DOMAIN text) \X UNION lines)
  BY MatchesAre
<1>7. IsFiniteSet(MatchesOf(text, category))
  <2>. HIDE DEF lines
  <2>. QED  BY <1>5, <1>6, FS_Subset
<1>. QED  BY <1>7, FS_CardinalityType DEF Score

\* An element of FoundBy is a pattern and the line of a match of it.
LEMMA FoundAre ==
  ASSUME NEW text \in Seq(LineSpace), NEW category, NEW f \in FoundBy(text, category)
  PROVE  /\ f = <<f[1], f[2]>> /\ f[1] \in Patterns /\ f[2] \in DOMAIN text
         /\ \E m \in text[f[2]] : m.category = category
<1>1. PICK x \in MatchesOf(text, category) : f = <<x[2].pattern, x[1]>>
  BY DEF FoundBy
<1>2. PICK i \in DOMAIN text : \E m \in text[i] : m.category = category /\ x = <<i, m>>
  BY MatchesAre
<1>3. PICK m \in text[i] : m.category = category /\ x = <<i, m>>
  BY <1>2
<1>4. m \in MatchSpace
  BY DEF LineSpace
<1>5. x[1] = i /\ x[2] = m /\ m.pattern \in Patterns
  BY <1>3, <1>4 DEF MatchSpace
<1>. QED  BY <1>1, <1>3, <1>5

LEMMA FoundFinite ==
  ASSUME NEW text \in Seq(LineSpace), NEW category
  PROVE  /\ IsFiniteSet(FoundBy(text, category))
         /\ Cardinality(FoundBy(text, category)) \in Nat
         /\ FoundBy(text, category) = {} <=> Score(text, category) = 0
<1>. DEFINE M == MatchesOf(text, category)
            F == FoundBy(text, category)
            g == [match \in M |-> <<match[2].pattern, match[1]>>]
<1>1. IsFiniteSet(M)
  BY MatchesFinite
<1>2. g \in Surjection(M, F)
  <2>1. g \in [M -> F]
    BY DEF FoundBy
  <2>2. \A f \in F : \E match \in M : g[match] = f
    BY DEF FoundBy
  <2>. QED  BY <2>1, <2>2 DEF Surjection
<1>3. IsFiniteSet(F)
  <2>. HIDE DEF M, F, g
  <2>. QED  BY <1>1, <1>2, FS_Surjection
<1>4. F = {} <=> M = {}
  BY DEF FoundBy
<1>5. M = {} <=> Score(text, category) = 0
  BY <1>1, FS_EmptySet DEF Score
<1>. QED  BY <1>3, <1>4, <1>5, FS_CardinalityType

\* The pairs of a finite set of pairs of numbers are in a strict order.
Pairs(text, category) ==
  {p \in FoundBy(text, category) \X FoundBy(text, category) : FoundBefore(p[1], p[2])}

LEMMA FoundOrdered ==
  ASSUME NEW text \in Seq(LineSpace), NEW category
  PROVE  StrictOrder(FoundBy(text, category), Pairs(text, category))
<1>. DEFINE F == FoundBy(text, category)
            R == Pairs(text, category)
<1>1. ASSUME NEW f \in F
      PROVE  f = <<f[1], f[2]>> /\ f[1] \in Int /\ f[2] \in Int
  BY FoundAre DEF Patterns
<1>2. ASSUME NEW f \in F, NEW g \in F
      PROVE  <<f, g>> \in R <=> FoundBefore(f, g)
  BY DEF Pairs
<1>. HIDE DEF F, R
<1>3. ASSUME NEW f \in F
      PROVE  <<f, f>> \notin R
  <2>1. ~FoundBefore(f, f)
    BY <1>1 DEF FoundBefore
  <2>. QED  BY <1>2, <2>1
<1>4. ASSUME NEW f \in F, NEW g \in F, NEW h \in F, <<f, g>> \in R, <<g, h>> \in R
      PROVE  <<f, h>> \in R
  <2>1. FoundBefore(f, g) /\ FoundBefore(g, h)
    BY <1>2, <1>4
  <2>2. FoundBefore(f, h)
    BY <1>1, <2>1 DEF FoundBefore
  <2>. QED  BY <1>2, <2>2
<1>5. ASSUME NEW f \in F, NEW g \in F, f # g
      PROVE  <<f, g>> \in R \/ <<g, f>> \in R
  <2>1. f[1] # g[1] \/ f[2] # g[2]
    BY <1>1, <1>5
  <2>2. FoundBefore(f, g) \/ FoundBefore(g, f)
    BY <1>1, <2>1 DEF FoundBefore
  <2>. QED  BY <1>2, <2>2
<1>. QED  BY <1>3, <1>4, <1>5 DEF StrictOrder, F, R

\* The evidence of a rule is lines in which it is found: as many of them as there are,
\* up to three.
LEMMA EvidenceIs ==
  ASSUME NEW text \in Seq(LineSpace), NEW category
  PROVE  LET size == Cardinality(FoundBy(text, category))
         IN  /\ Evidence(text, category) \in Seq(Nat)
             /\ Len(Evidence(text, category)) = IF size < 3 THEN size ELSE 3
             /\ \A n \in DOMAIN Evidence(text, category) :
                  /\ Evidence(text, category)[n] \in DOMAIN text
                  /\ \E m \in text[Evidence(text, category)[n]] : m.category = category
<1>. DEFINE F     == FoundBy(text, category)
            size  == Cardinality(F)
            least == IF size < 3 THEN size ELSE 3
            prior == [a \in F |-> {b \in F : FoundBefore(b, a)}]
            found == InOrder(prior)
            nth(n) == CHOOSE y \in F : Cardinality(prior[y]) = n - 1
            e     == Evidence(text, category)
<1>1. IsFiniteSet(F) /\ size \in Nat /\ StrictOrder(F, Pairs(text, category))
  BY FoundFinite, FoundOrdered
<1>2. ASSUME NEW n \in 1 .. size
      PROVE  nth(n) \in F
  <2>1. PICK x \in F : Cardinality(Before(F, Pairs(text, category), x)) = n - 1
    BY <1>1, Places
  <2>2. Before(F, Pairs(text, category), x) = prior[x]
    BY DEF Before, Pairs
  <2>3. \E y \in F : Cardinality(prior[y]) = n - 1
    BY <2>1, <2>2
  <2>. QED  BY <2>3
<1>3. found = [n \in 1 .. size |-> nth(n)]
  BY DEF InOrder
<1>. HIDE DEF found, nth, prior
<1>4. found \in Seq(F) /\ Len(found) = size /\ \A n \in 1 .. size : found[n] \in F
  <2>. HIDE DEF F, size
  <2>. QED  BY <1>1, <1>2, <1>3
<1>5. e = [n \in DOMAIN AtMost(3, found) |-> AtMost(3, found)[n][2]]
  BY DEF Evidence, found, prior
<1>. HIDE DEF F, size, found, e
<1>6. least \in Nat /\ least <= size
  BY <1>1
<1>7. AtMost(3, found) = SubSeq(found, 1, least)
  BY <1>4 DEF AtMost
<1>8. /\ DOMAIN AtMost(3, found) = 1 .. least
      /\ \A n \in 1 .. least : AtMost(3, found)[n] = found[n]
  BY <1>4, <1>6, <1>7
<1>. HIDE DEF least
<1>9. e = [n \in 1 .. least |-> found[n][2]]
  BY <1>5, <1>8
<1>10. ASSUME NEW n \in 1 .. least
      PROVE  /\ e[n] \in DOMAIN text /\ e[n] \in Nat
             /\ \E m \in text[e[n]] : m.category = category
  <2>1. found[n] \in F
    BY <1>1, <1>4, <1>6
  <2>2. e[n] = found[n][2]
    BY <1>9
  <2>3. e[n] \in DOMAIN text /\ \E m \in text[e[n]] : m.category = category
    BY <2>1, <2>2, FoundAre DEF F
  <2>4. DOMAIN text \subseteq Nat
    OBVIOUS
  <2>. QED  BY <2>3, <2>4
<1>11. e \in Seq(Nat) /\ Len(e) = least /\ DOMAIN e = 1 .. least
  BY <1>6, <1>9, <1>10
<1>. QED  BY <1>10, <1>11 DEF e, F, size, least

-----------------------------------------------------------------------------
(* The order of the ranking is an order by confidence.                      *)

\* The weights: one match more makes up for all the evidence that another diagnosis
\* can have more, two lines, because each diagnosis has one line at least and three at
\* most.
LEMMA ConfidenceFollowsScore ==
  ASSUME NEW m \in Nat, NEW n \in Nat, NEW d \in 1 .. 3, NEW e \in 1 .. 3, NEW impacted,
         m > n \/ (m = n /\ d >= e)
  PROVE  ScoreToConfidence(m, d, impacted) >= ScoreToConfidence(n, e, impacted)
BY DEF ScoreToConfidence

\* A diagnosis as rankFailureDiagnoses makes it of a rule that matched.
IsDiagnosis(a, impacted) ==
  /\ a.score \in Nat
  /\ Len(a.evidence) \in 1 .. 3
  /\ a.confidence = ScoreToConfidence(a.score, Len(a.evidence), impacted)

\* A diagnosis that comes before another in the ranking is told with no less
\* confidence, whatever the scores and the evidence of the two: the third key of the
\* sort decides nothing, and the first of the ranking is the most confident.
THEOREM RankedByConfidence ==
  ASSUME NEW impacted, NEW a, NEW b, IsDiagnosis(a, impacted), IsDiagnosis(b, impacted),
         RankedBefore(a, b)
  PROVE  a.confidence >= b.confidence /\ ~RankedBefore(b, a)
<1>. DEFINE m == a.score  n == b.score  d == Len(a.evidence)  e == Len(b.evidence)
<1>1. m \in Nat /\ n \in Nat /\ d \in 1 .. 3 /\ e \in 1 .. 3
  BY DEF IsDiagnosis
<1>2. a.confidence = ScoreToConfidence(m, d, impacted)
  BY DEF IsDiagnosis
<1>3. b.confidence = ScoreToConfidence(n, e, impacted)
  BY DEF IsDiagnosis
<1>4. ~(m = n /\ d = e)
  <2>. SUFFICES ASSUME m = n, d = e  PROVE FALSE
    OBVIOUS
  <2>1. a.confidence = b.confidence
    BY <1>2, <1>3
  <2>2. a.confidence \in Int
    BY <1>1, <1>2 DEF ScoreToConfidence
  <2>. QED  BY <1>1, <2>1, <2>2 DEF RankedBefore
<1>5. m > n \/ (m = n /\ d > e)
  BY <1>1, <1>4 DEF RankedBefore
<1>6. ScoreToConfidence(m, d, impacted) >= ScoreToConfidence(n, e, impacted)
  <2>. HIDE DEF m, n, d, e
  <2>1. m > n \/ (m = n /\ d >= e)
    BY <1>1, <1>5
  <2>. QED  BY <1>1, <2>1, ConfidenceFollowsScore
<1>7. ~RankedBefore(b, a)
  BY <1>1, <1>5 DEF RankedBefore
<1>8. a.confidence >= b.confidence
  BY <1>2, <1>3, <1>6
<1>. QED  BY <1>7, <1>8
LEMMA ConfidenceRange ==
  ASSUME NEW m \in Nat, m > 0, NEW d \in 1 .. 3, NEW impacted
  PROVE  ScoreToConfidence(m, d, impacted) \in 57 .. 97
BY DEF ScoreToConfidence

\* A rule that is found at all has a diagnosis, told with more confidence than that of
\* no rule.
LEMMA DiagnosedIs ==
  ASSUME NEW text \in Seq(LineSpace), NEW category, NEW impacted, Score(text, category) > 0
  PROVE  /\ IsDiagnosis(Diagnosed(text, category, impacted), impacted)
         /\ Diagnosed(text, category, impacted).confidence \in 57 .. 97
<1>. DEFINE size == Cardinality(FoundBy(text, category))
            e    == Evidence(text, category)
            a    == Diagnosed(text, category, impacted)
<1>1. Score(text, category) \in Nat
  BY MatchesFinite
<1>2. size \in Nat /\ size # 0
  BY FoundFinite, FS_EmptySet
<1>3. Len(e) = IF size < 3 THEN size ELSE 3
  BY EvidenceIs
<1>4. Len(e) \in 1 .. 3
  BY <1>2, <1>3
<1>5. /\ a.score = Score(text, category) /\ a.evidence = e
      /\ a.confidence = ScoreToConfidence(Score(text, category), Len(e), impacted)
  BY DEF Diagnosed
<1>. HIDE DEF a, e
<1>6. a.confidence \in 57 .. 97
  BY <1>1, <1>4, <1>5, ConfidenceRange
<1>7. IsDiagnosis(a, impacted)
  BY <1>1, <1>4, <1>5 DEF IsDiagnosis
<1>. QED  BY <1>6, <1>7 DEF a

\* What the keys of the sort are.
Keyed(a) == a.score \in Int /\ Len(a.evidence) \in Int /\ a.confidence \in Int

\* Diagnosis a, of the rule r, comes before b, of the rule s.
Ahead(a, r, b, s) == RankedBefore(a, b) \/ (~RankedBefore(b, a) /\ r < s)

LEMMA AheadTransitive ==
  ASSUME NEW a, NEW b, NEW c, Keyed(a), Keyed(b), Keyed(c),
         NEW r \in Int, NEW s \in Int, NEW t \in Int, Ahead(a, r, b, s), Ahead(b, s, c, t)
  PROVE  Ahead(a, r, c, t)
<1>. DEFINE a1 == a.score  a2 == Len(a.evidence)  a3 == a.confidence
            b1 == b.score  b2 == Len(b.evidence)  b3 == b.confidence
            c1 == c.score  c2 == Len(c.evidence)  c3 == c.confidence
<1>1. {a1, a2, a3, b1, b2, b3, c1, c2, c3} \subseteq Int
  BY DEF Keyed
<1>. DEFINE Less(x1, x2, x3, y1, y2, y3) ==
              \/ x1 > y1
              \/ x1 = y1 /\ x2 > y2
              \/ x1 = y1 /\ x2 = y2 /\ x3 > y3
<1>2. /\ Less(a1, a2, a3, b1, b2, b3) \/ (~Less(b1, b2, b3, a1, a2, a3) /\ r < s)
      /\ Less(b1, b2, b3, c1, c2, c3) \/ (~Less(c1, c2, c3, b1, b2, b3) /\ s < t)
  BY DEF Ahead, RankedBefore
<1>3. Less(a1, a2, a3, c1, c2, c3) \/ (~Less(c1, c2, c3, a1, a2, a3) /\ r < t)
  <2>. HIDE DEF a1, a2, a3, b1, b2, b3, c1, c2, c3
  <2>. QED  BY <1>1, <1>2
<1>. QED  BY <1>3 DEF Ahead, RankedBefore

LEMMA AheadOrders ==
  ASSUME NEW a, NEW b, Keyed(a), Keyed(b), NEW r \in Int, NEW s \in Int
  PROVE  /\ ~Ahead(a, r, a, r)
         /\ r # s => Ahead(a, r, b, s) \/ Ahead(b, s, a, r)
BY DEF Ahead, RankedBefore, Keyed

LEMMA IntervalFinite ==
  ASSUME NEW a \in Int, NEW b \in Int
  PROVE  IsFiniteSet(a .. b)
BY FS_Interval

\* The first of the ranking is the diagnosis of a rule that is found, if there is one,
\* and none comes before it.
LEMMA FirstOfRanking ==
  ASSUME NEW text \in Seq(LineSpace), NEW impacted
  PROVE  LET first == RankFailureDiagnoses(text, impacted)[1]
         IN  \/ /\ \A r \in DOMAIN Rules : Score(text, Rules[r]) = 0
                /\ first = Unknown(text, impacted)
             \/ \E r \in DOMAIN Rules :
                  /\ Score(text, Rules[r]) > 0
                  /\ first = Diagnosed(text, Rules[r], impacted)
                  /\ \A s \in DOMAIN Rules :
                       Score(text, Rules[s]) > 0 =>
                         ~RankedBefore(Diagnosed(text, Rules[s], impacted), first)
<1>. DEFINE matched   == {r \in DOMAIN Rules : Score(text, Rules[r]) > 0}
            ranked(r) == Diagnosed(text, Rules[r], impacted)
            ahead(r, s) == Ahead(ranked(r), r, ranked(s), s)
            R         == {p \in matched \X matched : ahead(p[1], p[2])}
            prior     == [r \in matched |-> {s \in matched : ahead(s, r)}]
            order     == InOrder(prior)
            first     == RankFailureDiagnoses(text, impacted)[1]
<1>1. \A r \in DOMAIN Rules : Score(text, Rules[r]) \in Nat
  BY MatchesFinite
<1>2. RankFailureDiagnoses(text, impacted) =
        IF matched = {} THEN <<Unknown(text, impacted)>>
        ELSE [n \in DOMAIN order |-> ranked(order[n])]
  BY DEF RankFailureDiagnoses, Ahead
<1>3. CASE matched = {}
  <2>1. \A r \in DOMAIN Rules : Score(text, Rules[r]) = 0
    BY <1>1, <1>3
  <2>2. RankFailureDiagnoses(text, impacted) = <<Unknown(text, impacted)>>
    BY <1>2, <1>3
  <2>3. first = Unknown(text, impacted)
    BY <2>2
  <2>. QED  BY <2>1, <2>3
<1>4. CASE matched # {}
  <2>1. DOMAIN Rules = 1 .. 5
    BY DEF Rules
  <2>2. IsFiniteSet(matched) /\ Cardinality(matched) \in Nat /\ Cardinality(matched) # 0
    <3>1. 1 \in Int /\ 5 \in Int
      OBVIOUS
    <3>2. IsFiniteSet(1 .. 5)
      BY <3>1, IntervalFinite
    <3>3. matched \in SUBSET (1 .. 5)
      BY <2>1
    <3>. HIDE DEF matched
    <3>. QED  BY <1>4, <3>2, <3>3, FS_Subset, FS_CardinalityType, FS_EmptySet
  <2>3. ASSUME NEW r \in matched
        PROVE  r \in Int /\ Keyed(ranked(r))
    <3>1. IsDiagnosis(ranked(r), impacted) /\ ranked(r).confidence \in 57 .. 97
      BY DiagnosedIs
    <3>. HIDE DEF ranked
    <3>. QED  BY <2>1, <3>1 DEF IsDiagnosis, Keyed
  <2>4. StrictOrder(matched, R)
    <3>. HIDE DEF matched, ranked
    <3>1. \A r \in matched : ~ahead(r, r)
      BY <2>3, AheadOrders
    <3>2. \A r, s \in matched : r # s => ahead(r, s) \/ ahead(s, r)
      BY <2>3, AheadOrders
    <3>3. \A r, s, t \in matched : ahead(r, s) /\ ahead(s, t) => ahead(r, t)
      BY <2>3, AheadTransitive
    <3>. HIDE DEF ahead
    <3>. QED  BY <3>1, <3>2, <3>3 DEF StrictOrder
  <2>. DEFINE At(n, r) == Cardinality(prior[r]) = n - 1
              nth(n)   == CHOOSE r \in matched : At(n, r)
  <2>5. \E r \in matched : At(1, r)
    <3>1. 1 \in 1 .. Cardinality(matched)
      BY <2>2
    <3>2. PICK r \in matched : Cardinality(Before(matched, R, r)) = 1 - 1
      <4>. HIDE DEF matched, R
      <4>. QED  BY <2>2, <2>4, <3>1, Places
    <3>3. Before(matched, R, r) = {s \in matched : ahead(s, r)}
      <4>. HIDE DEF matched, ahead
      <4>. QED  BY DEF Before
    <3>. QED  BY <3>2, <3>3
  <2>6. nth(1) \in matched /\ At(1, nth(1))
    <3>. HIDE DEF At, matched
    <3>. QED  BY <2>5
  <2>7. {s \in matched : ahead(s, nth(1))} = {}
    <3>1. IsFiniteSet({s \in matched : ahead(s, nth(1))})
      <4>. HIDE DEF matched, ahead, nth
      <4>. QED  BY <2>2, FS_Subset
    <3>2. Cardinality({s \in matched : ahead(s, nth(1))}) = 0
      BY <2>6
    <3>. HIDE DEF nth, matched, ahead
    <3>. QED  BY <3>1, <3>2, FS_EmptySet
  <2>8. order = [n \in 1 .. Cardinality(matched) |-> nth(n)]
    BY DEF InOrder
  <2>9. first = ranked(nth(1))
    <3>. HIDE DEF nth, matched, ranked, order
    <3>1. 1 \in 1 .. Cardinality(matched)
      BY <2>2
    <3>2. DOMAIN order = 1 .. Cardinality(matched) /\ order[1] = nth(1)
      BY <2>8, <3>1
    <3>. QED  BY <1>2, <1>4, <3>1, <3>2
  <2>. HIDE DEF nth
  <2>10. ASSUME NEW s \in matched
         PROVE  ~RankedBefore(ranked(s), ranked(nth(1)))
    BY <2>7 DEF Ahead
  <2>. QED  BY <2>6, <2>9, <2>10
<1>. QED  BY <1>3, <1>4

\* The first of the ranking is the best: no rule has more matches, and none would be told
\* with more confidence.
LEMMA FirstIsBest ==
  ASSUME NEW text \in Seq(LineSpace), NEW impacted
  PROVE  LET first == RankFailureDiagnoses(text, impacted)[1]
         IN  \A r \in DOMAIN Rules :
               Score(text, Rules[r]) > 0 =>
                 /\ first.category # "unknown"
                 /\ first.score >= Score(text, Rules[r])
                 /\ first.confidence >= Diagnosed(text, Rules[r], impacted).confidence
<1>. DEFINE first == RankFailureDiagnoses(text, impacted)[1]
<1>. SUFFICES ASSUME NEW s \in DOMAIN Rules, Score(text, Rules[s]) > 0
              PROVE  /\ first.category # "unknown"
                     /\ first.score >= Score(text, Rules[s])
                     /\ first.confidence >= Diagnosed(text, Rules[s], impacted).confidence
  OBVIOUS
<1>1. PICK r \in DOMAIN Rules :
        /\ Score(text, Rules[r]) > 0
        /\ first = Diagnosed(text, Rules[r], impacted)
        /\ ~RankedBefore(Diagnosed(text, Rules[s], impacted), first)
  BY FirstOfRanking
<1>. DEFINE a == Diagnosed(text, Rules[s], impacted)
<1>2. first.category = Rules[r] /\ a.score = Score(text, Rules[s])
  BY <1>1 DEF Diagnosed
<1>3. \A n \in DOMAIN Rules : Rules[n] # "unknown"
  BY DEF Rules
<1>4. /\ IsDiagnosis(a, impacted) /\ IsDiagnosis(first, impacted)
      /\ a.confidence \in 57 .. 97 /\ first.confidence \in 57 .. 97
  BY <1>1, DiagnosedIs
<1>. HIDE DEF a, first
<1>5. first.score >= a.score
  BY <1>1, <1>4 DEF RankedBefore, IsDiagnosis, a
<1>6. first.confidence >= a.confidence
  <2>1. CASE RankedBefore(first, a)
    BY <1>4, <2>1, RankedByConfidence
  <2>2. CASE ~RankedBefore(first, a)
    <3>1. ~RankedBefore(a, first)
      BY <1>1 DEF a
    <3>2. a.score = first.score /\ Len(a.evidence) = Len(first.evidence)
      BY <1>4, <2>2, <3>1 DEF RankedBefore, IsDiagnosis
    <3>. DEFINE x == a.confidence  y == first.confidence
    <3>3. x = y /\ x \in 57 .. 97
      BY <1>4, <3>2 DEF IsDiagnosis
    <3>. HIDE DEF x, y
    <3>4. y >= x
      BY <3>3
    <3>. QED  BY <3>4 DEF x, y
  <2>. QED  BY <2>1, <2>2
<1>. QED  BY <1>1, <1>2, <1>3, <1>5, <1>6 DEF a

LEMMA NotEmpty ==
  ASSUME NEW s \in Seq(Nat), Len(s) \in 1 .. 3
  PROVE  s # <<>>
OBVIOUS

DiagnosisSpace ==
  [category : Categories, score : Nat, evidence : Seq(Nat), confidence : 25 .. 97]

\* The first of the ranking is a diagnosis, its evidence is lines in which the rule of its
\* category is found, and it has none exactly if its category is unknown.
LEMMA FirstIsDiagnosis ==
  ASSUME NEW text \in Seq(LineSpace), NEW impacted
  PROVE  LET first == RankFailureDiagnoses(text, impacted)[1]
         IN  /\ first \in DiagnosisSpace
             /\ first.evidence = <<>> <=> first.category = "unknown"
             /\ \A n \in DOMAIN first.evidence :
                  /\ first.evidence[n] \in DOMAIN text
                  /\ \E m \in text[first.evidence[n]] : m.category = first.category
<1>. DEFINE first == RankFailureDiagnoses(text, impacted)[1]
<1>1. CASE first = Unknown(text, impacted)
  BY <1>1 DEF Unknown, DiagnosisSpace, Categories
<1>2. ASSUME NEW r \in DOMAIN Rules, Score(text, Rules[r]) > 0,
             first = Diagnosed(text, Rules[r], impacted)
      PROVE  /\ first \in DiagnosisSpace
             /\ first.evidence = <<>> <=> first.category = "unknown"
             /\ \A n \in DOMAIN first.evidence :
                  /\ first.evidence[n] \in DOMAIN text
                  /\ \E m \in text[first.evidence[n]] : m.category = first.category
  <2>. DEFINE e == Evidence(text, Rules[r])
              c == ScoreToConfidence(Score(text, Rules[r]), Len(e), impacted)
  <2>1. first = [category |-> Rules[r], score |-> Score(text, Rules[r]), evidence |-> e,
                 confidence |-> c]
    BY <1>2 DEF Diagnosed
  <2>2. Rules[r] \in Categories /\ Rules[r] # "unknown"
    BY DEF Categories, ToSet, Rules
  <2>3. Score(text, Rules[r]) \in Nat /\ e \in Seq(Nat)
    BY MatchesFinite, EvidenceIs
  <2>4. Len(first.evidence) \in 1 .. 3 /\ first.confidence \in 57 .. 97
    BY <1>2, DiagnosedIs DEF IsDiagnosis
  <2>5. \A n \in DOMAIN e : e[n] \in DOMAIN text /\ \E m \in text[e[n]] : m.category = Rules[r]
    BY EvidenceIs
  <2>. HIDE DEF e, c, first
  <2>6. first.evidence # <<>>
    <3>1. first.evidence \in Seq(Nat)
      BY <2>1, <2>3
    <3>. QED  BY <2>4, <3>1, NotEmpty
  <2>7. c \in 25 .. 97
    BY <2>1, <2>4
  <2>8. first \in DiagnosisSpace
    BY <2>1, <2>2, <2>3, <2>7 DEF DiagnosisSpace
  <2>. QED  BY <2>1, <2>2, <2>5, <2>6, <2>8
<1>. QED  BY <1>1, <1>2, FirstOfRanking

-----------------------------------------------------------------------------
(* The beginning of a text.                                                 *)

LEMMA Beginning ==
  ASSUME NEW whole \in Seq(LineSpace), NEW n \in 0 .. Len(whole)
  PROVE  /\ AtMost(n, whole) \in Seq(LineSpace)
         /\ Len(AtMost(n, whole)) = n /\ DOMAIN AtMost(n, whole) = 1 .. n
         /\ \A i \in 1 .. n : AtMost(n, whole)[i] = whole[i]
<1>1. AtMost(n, whole) = SubSeq(whole, 1, n)
  BY DEF AtMost
<1>. QED  BY <1>1

\* part has no more lines than text, and nothing is found in a line of it that is not found
\* in the same line of text: a beginning of it, or one that has lost some of its matches.
PartOf(part, text) ==
  Len(part) <= Len(text) /\ \A i \in DOMAIN part : part[i] \subseteq text[i]

\* No rule is found more often in a part of a text, or in more lines.
LEMMA LessIsFound ==
  ASSUME NEW text \in Seq(LineSpace), NEW part \in Seq(LineSpace), PartOf(part, text),
         NEW category
  PROVE  /\ Score(part, category) <= Score(text, category)
         /\ Cardinality(FoundBy(part, category)) <= Cardinality(FoundBy(text, category))
<1>1. DOMAIN part \subseteq DOMAIN text
  <2>1. Len(part) \in Nat /\ Len(text) \in Nat /\ Len(part) <= Len(text)
    BY DEF PartOf
  <2>. QED  BY <2>1
<1>2. MatchesOf(part, category) \in SUBSET MatchesOf(text, category)
  BY <1>1, MatchesAre DEF PartOf
<1>3. FoundBy(part, category) \in SUBSET FoundBy(text, category)
  BY <1>2 DEF FoundBy
<1>4. IsFiniteSet(MatchesOf(text, category)) /\ IsFiniteSet(FoundBy(text, category))
  BY MatchesFinite, FoundFinite
<1>. QED  BY <1>2, <1>3, <1>4, FS_Subset DEF Score

\* Reading less of a text gives a diagnosis with no more confidence, as long as what is
\* found is found in all of it: for any rules found and any jobs impacted.
THEOREM LessIsNotMore ==
  ASSUME NEW text \in Seq(LineSpace), NEW part \in Seq(LineSpace), PartOf(part, text),
         NEW impacted
  PROVE  RankFailureDiagnoses(text, impacted)[1].confidence
           >= RankFailureDiagnoses(part, impacted)[1].confidence
<1>. DEFINE first == RankFailureDiagnoses(text, impacted)[1]
            other == RankFailureDiagnoses(part, impacted)[1]
<1>1. first.confidence \in 25 .. 97
  BY FirstIsDiagnosis DEF DiagnosisSpace
<1>2. CASE other = Unknown(part, impacted)
  <2>1. CASE first = Unknown(text, impacted)
    <3>1. (\A i \in DOMAIN text : text[i] = {}) => \A i \in DOMAIN part : part[i] = {}
      <4>1. DOMAIN part \subseteq DOMAIN text
        <5>1. Len(part) \in Nat /\ Len(text) \in Nat /\ Len(part) <= Len(text)
          BY DEF PartOf
        <5>. QED  BY <5>1
      <4>. QED  BY <4>1 DEF PartOf
    <3>. QED  BY <1>2, <2>1, <3>1 DEF Unknown
  <2>2. ASSUME NEW r \in DOMAIN Rules, Score(text, Rules[r]) > 0,
               first = Diagnosed(text, Rules[r], impacted)
        PROVE  first.confidence >= other.confidence
    <3>. DEFINE x == first.confidence  y == other.confidence
    <3>1. x \in 57 .. 97
      BY <2>2, DiagnosedIs
    <3>2. y = 25 \/ y = 40
      BY <1>2 DEF Unknown
    <3>. HIDE DEF x, y
    <3>3. x >= y
      BY <3>1, <3>2
    <3>. QED  BY <3>3 DEF x, y
  <2>. QED  BY <2>1, <2>2, FirstOfRanking
<1>3. ASSUME NEW r \in DOMAIN Rules, Score(part, Rules[r]) > 0,
             other = Diagnosed(part, Rules[r], impacted)
      PROVE  first.confidence >= other.confidence
  <2>. DEFINE c == Rules[r]
              a == Diagnosed(text, c, impacted)
              m == Score(text, c)  n == Score(part, c)
              d == Len(Evidence(text, c))  e == Len(Evidence(part, c))
  <2>1. m \in Nat /\ n \in Nat /\ m >= n /\ m > 0
    BY <1>3, MatchesFinite, LessIsFound
  <2>2. d >= e
    <3>1. /\ Cardinality(FoundBy(part, c)) \in Nat /\ Cardinality(FoundBy(text, c)) \in Nat
          /\ Cardinality(FoundBy(part, c)) <= Cardinality(FoundBy(text, c))
      BY FoundFinite, LessIsFound
    <3>2. /\ d = IF Cardinality(FoundBy(text, c)) < 3 THEN Cardinality(FoundBy(text, c)) ELSE 3
          /\ e = IF Cardinality(FoundBy(part, c)) < 3 THEN Cardinality(FoundBy(part, c)) ELSE 3
      BY EvidenceIs
    <3>. HIDE DEF c, d, e
    <3>. QED  BY <3>1, <3>2
  <2>3. /\ a.confidence = ScoreToConfidence(m, d, impacted) /\ Len(a.evidence) = d
        /\ other.confidence = ScoreToConfidence(n, e, impacted) /\ Len(other.evidence) = e
    BY <1>3 DEF Diagnosed
  <2>4. /\ d \in 1 .. 3 /\ e \in 1 .. 3
        /\ a.confidence \in 57 .. 97 /\ other.confidence \in 57 .. 97
    <3>1. IsDiagnosis(a, impacted) /\ a.confidence \in 57 .. 97
      BY <2>1, DiagnosedIs
    <3>2. IsDiagnosis(other, impacted) /\ other.confidence \in 57 .. 97
      BY <1>3, DiagnosedIs
    <3>. HIDE DEF a, other, d, e
    <3>. QED  BY <2>3, <3>1, <3>2 DEF IsDiagnosis
  <2>5. a.confidence >= other.confidence
    <3>. HIDE DEF a, other, m, n, d, e
    <3>1. m > n \/ (m = n /\ d >= e)
      BY <2>1, <2>2
    <3>2. ScoreToConfidence(m, d, impacted) >= ScoreToConfidence(n, e, impacted)
      BY <2>1, <2>4, <3>1, ConfidenceFollowsScore
    <3>. QED  BY <2>3, <3>2
  <2>6. first.confidence >= a.confidence
    BY <2>1, FirstIsBest
  <2>. DEFINE x == first.confidence  y == a.confidence  z == other.confidence
  <2>7. x \in 25 .. 97 /\ y \in 57 .. 97 /\ z \in 57 .. 97 /\ x >= y /\ y >= z
    BY <1>1, <2>4, <2>5, <2>6
  <2>. HIDE DEF x, y, z
  <2>8. x >= z
    BY <2>7
  <2>. QED  BY <2>8 DEF x, z
<1>. QED  BY <1>2, <1>3, FirstOfRanking

-----------------------------------------------------------------------------
(* What an answer holds.                                                    *)

\* A diagnosis from the logs is made of what was read of them and of the jobs.
ToldOfLogs ==
  answer = "logs" => diagnostic = DiagnoseFailure(log, Impacted)

AnswerInv == TypeOK /\ ToldOfLogs

FailureSpace == [kind : Kinds, err : LogErrors, job : Nat]

\* A step that does not end with a diagnosis.
LEMMA TypesKept ==
  ASSUME AnswerInv, tool' = tool, pc' \in Stages, (jobs \in JobLists \cup {<<>>})',
         (next \in 1 .. Len(jobs) + 1)', answer' \in Codes \cup {"none", "run"},
         UNCHANGED log, (failures \subseteq FailureSpace)'
  PROVE  AnswerInv'
<1>1. answer' \notin {"metadata", "logs"}
  BY DEF Codes
<1>. QED  BY <1>1 DEF AnswerInv, TypeOK, ToldOfLogs, Stages, FailureSpace

LEMMA NoJobs == <<>> \in Seq(JobSpace)
OBVIOUS

\* The failures of a step.
LEMMA FailuresKept ==
  ASSUME AnswerInv, NEW kind \in Kinds, Succeeds \/ \E err \in LogErrors : Fails(kind, err)
  PROVE  (failures \subseteq FailureSpace)'
<1>1. failures \subseteq FailureSpace /\ next \in Nat
  BY DEF AnswerInv, TypeOK, FailureSpace
<1>2. CASE Succeeds
  BY <1>1, <1>2 DEF Succeeds
<1>3. ASSUME NEW err \in LogErrors, Fails(kind, err)
      PROVE  (failures \subseteq FailureSpace)'
  <2>1. [kind |-> kind, err |-> err, job |-> next] \in FailureSpace
    BY <1>1 DEF FailureSpace
  <2>. QED  BY <1>1, <1>3, <2>1 DEF Fails
<1>. QED  BY <1>2, <1>3

LEMMA AnswerInit == Init => AnswerInv
<1>. SUFFICES ASSUME Init  PROVE AnswerInv
  OBVIOUS
<1>1. /\ tool \in Tools /\ pc = "idle" /\ jobs = <<>> /\ next = 1 /\ answer = "none"
      /\ log = <<>> /\ failures = {}
  BY DEF Init
<1>2. next \in 1 .. Len(jobs) + 1 /\ log \in Seq(LineSpace)
  BY <1>1
<1>. QED  BY <1>1, <1>2 DEF AnswerInv, TypeOK, ToldOfLogs

LEMMA BeforeJobsAnswers ==
  ASSUME AnswerInv, DiagnosisInv,
         (\E ref \in References : Resolve(ref)) \/ FindLatest \/ ReadRun \/ EndScan
  PROVE  AnswerInv'
<1>1. /\ UNCHANGED <<tool, jobs, next, log>>
  BY DEF Resolve, FindLatest, ReadRun, EndScan
<1>2. (jobs \in JobLists \cup {<<>>})' /\ (next \in 1 .. Len(jobs) + 1)'
  BY <1>1 DEF AnswerInv, TypeOK
<1>3. pc # "answered" => answer = "none"
  BY DEF DiagnosisInv, NothingNeededLost
<1>4. "INVALID_INPUT" \in Codes
  BY DEF Codes
<1>5. ASSUME NEW ref \in References, Resolve(ref)
      PROVE  AnswerInv'
  <2>1. ResolveRunReference(ref) \in {"invalid", "run", "latest"}
    BY DEF ResolveRunReference
  <2>2. pc' \in Stages /\ answer' \in Codes \cup {"none", "run"}
    BY <1>3, <1>4, <1>5, <2>1 DEF Resolve, Return, Stages
  <2>3. (failures \subseteq FailureSpace)'
    BY <1>5 DEF Resolve, AnswerInv, TypeOK, FailureSpace
  <2>. QED  BY <1>1, <1>2, <2>2, <2>3, TypesKept
<1>6. CASE FindLatest
  <2>1. pc' \in Stages /\ answer' \in Codes \cup {"none", "run"}
    BY <1>3, <1>4, <1>6, MapErrorIsCode DEF FindLatest, Return, Stages, LogErrors
  <2>2. (failures \subseteq FailureSpace)'
    BY <1>6, FailuresKept DEF FindLatest, Kinds, LogErrors
  <2>. QED  BY <1>1, <1>2, <2>1, <2>2, TypesKept
<1>7. CASE ReadRun
  <2>1. pc' \in Stages /\ answer' \in Codes \cup {"none", "run"}
    BY <1>3, <1>7, MapErrorIsCode DEF ReadRun, Return, Stages, LogErrors
  <2>2. (failures \subseteq FailureSpace)'
    BY <1>7, FailuresKept DEF ReadRun, Kinds, LogErrors
  <2>. QED  BY <1>1, <1>2, <2>1, <2>2, TypesKept
<1>8. CASE EndScan
  <2>1. pc' \in Stages /\ answer' \in Codes \cup {"none", "run"}
    BY <1>3, <1>8 DEF EndScan, Stages
  <2>2. (failures \subseteq FailureSpace)'
    BY <1>8 DEF EndScan, AnswerInv, TypeOK, FailureSpace
  <2>. QED  BY <1>1, <1>2, <2>1, <2>2, TypesKept
<1>. QED  BY <1>5, <1>6, <1>7, <1>8

LEMMA ReadJobsAnswers ==
  ASSUME AnswerInv, DiagnosisInv, ReadJobs
  PROVE  AnswerInv'
<1>1. UNCHANGED <<tool, next, log>> /\ next = 1 /\ answer = "none"
  BY DEF ReadJobs, DiagnosisInv, NothingNeededLost, ScanOrdered
<1>2. (jobs \in JobLists \cup {<<>>})'
  BY DEF ReadJobs, AnswerInv, TypeOK
<1>3. (next \in 1 .. Len(jobs) + 1)'
  <2>1. jobs' \in Seq(JobSpace)
    BY <1>2, NoJobs, DiagnosisAssumption DEF DiagnosisAssumption
  <2>2. Len(jobs') \in Nat
    BY <2>1
  <2>. QED  BY <1>1, <2>2
<1>4. pc' \in Stages /\ answer' \in Codes \cup {"none", "run"}
  BY <1>1, MapErrorIsCode DEF ReadJobs, Return, Stages, LogErrors
<1>5. (failures \subseteq FailureSpace)'
  BY FailuresKept DEF ReadJobs, Kinds, LogErrors
<1>. QED  BY <1>1, <1>2, <1>3, <1>4, <1>5, TypesKept

\* A diagnosis that a gate holds the job back.
LEMMA BlockedAnswers ==
  ASSUME AnswerInv, NEW confidence \in 25 .. 97, Blocked(confidence), next <= Len(jobs),
         UNCHANGED <<tool, jobs, next, log>>, (failures \subseteq FailureSpace)'
  PROVE  AnswerInv'
<1>1. /\ pc' = "answered" /\ answer' = "metadata"
      /\ diagnostic' = [diagnosis |-> [category |-> "config_error", score |-> 0,
                                       evidence |-> <<>>, confidence |-> confidence],
                        impacted  |-> {next}]
  BY DEF Blocked, Return
<1>2. "config_error" \in Categories
  BY DEF Categories, ToSet, Rules
<1>3. [category |-> "config_error", score |-> 0, evidence |-> <<>>,
       confidence |-> confidence] \in DiagnosisSpace
  BY <1>2 DEF DiagnosisSpace
<1>4. {next} \in SUBSET DOMAIN jobs
  <2>1. jobs \in Seq(JobSpace) /\ next \in 1 .. Len(jobs) + 1
    BY NoJobs, DiagnosisAssumption DEF DiagnosisAssumption, AnswerInv, TypeOK
  <2>. QED  BY <2>1
<1>5. diagnostic' \in [diagnosis : DiagnosisSpace, impacted : SUBSET DOMAIN jobs']
  BY <1>1, <1>3, <1>4
<1>. QED  BY <1>1, <1>5 DEF AnswerInv, TypeOK, ToldOfLogs, FailureSpace, DiagnosisSpace

LEMMA LoopAnswers ==
  ASSUME AnswerInv, DiagnosisInv,
         SkipJob \/ ReadAnnotations \/ ReadCheckRun \/ ReadPolicies
  PROVE  AnswerInv'
<1>1. /\ UNCHANGED <<tool, jobs, log>> /\ next <= Len(jobs) /\ answer = "none"
  BY DEF SkipJob, ReadAnnotations, ReadCheckRun, ReadPolicies, InScan, DiagnosisInv,
         ScanOrdered, NothingNeededLost
<1>2. next \in 1 .. Len(jobs) + 1 /\ Len(jobs) \in Nat
  <2>1. jobs \in Seq(JobSpace)
    BY NoJobs, DiagnosisAssumption DEF DiagnosisAssumption, AnswerInv, TypeOK
  <2>. QED  BY <2>1 DEF AnswerInv, TypeOK
<1>3. (jobs \in JobLists \cup {<<>>})'
  BY <1>1 DEF AnswerInv, TypeOK
<1>4. (failures \subseteq FailureSpace)'
  <2>1. CASE SkipJob
    BY <2>1 DEF SkipJob, AnswerInv, TypeOK, FailureSpace
  <2>2. CASE ReadAnnotations
    BY <2>2, FailuresKept DEF ReadAnnotations, Kinds, LogErrors
  <2>3. CASE ReadCheckRun
    BY <2>3, FailuresKept DEF ReadCheckRun, Kinds, LogErrors
  <2>4. CASE ReadPolicies
    BY <2>4, FailuresKept DEF ReadPolicies, Kinds, LogErrors
  <2>. QED  BY <2>1, <2>2, <2>3, <2>4
<1>5. ASSUME pc' \in Stages, answer' = answer, next' = next \/ next' = next + 1
      PROVE  AnswerInv'
  <2>1. (next \in 1 .. Len(jobs) + 1)'
    BY <1>1, <1>2, <1>5
  <2>. QED  BY <1>1, <1>3, <1>4, <1>5, <2>1, TypesKept
<1>6. ASSUME NEW confidence \in 25 .. 97, Blocked(confidence), UNCHANGED next
      PROVE  AnswerInv'
  BY <1>1, <1>4, <1>6, BlockedAnswers
<1>7. ASSUME NextJob, answer' = answer
      PROVE  AnswerInv'
  BY <1>5, <1>7 DEF NextJob, Stages
<1>8. ASSUME NEW named, Decide(named)
      PROVE  AnswerInv'
  BY <1>5, <1>6, <1>7, <1>8 DEF Decide, Stages
<1>9. CASE SkipJob
  BY <1>7, <1>9 DEF SkipJob
<1>10. CASE ReadAnnotations
  BY <1>5, <1>7, <1>10 DEF ReadAnnotations, Stages
<1>11. CASE ReadCheckRun
  BY <1>8, <1>11 DEF ReadCheckRun
<1>12. CASE ReadPolicies
  BY <1>6, <1>12 DEF ReadPolicies
<1>. QED  BY <1>9, <1>10, <1>11, <1>12

\* What is read of a text is a text, wherever the limit falls.
LEMMA ReadIsText ==
  ASSUME NEW whole \in Logs, NEW text \in TextsRead(whole)
  PROVE  text \in Seq(LineSpace)
<1>1. whole \in Seq(LineSpace) /\ DOMAIN whole = 1 .. Len(whole) /\ Len(whole) \in Nat
  <2>1. whole \in Seq(LineSpace)
    BY DiagnosisAssumption DEF DiagnosisAssumption
  <2>. QED  BY <2>1
<1>2. ASSUME NEW size \in 0 .. Len(whole)
      PROVE  AtMost(size, whole) \in Seq(LineSpace)
  BY <1>1, Beginning
<1>3. ASSUME NEW i \in DOMAIN whole, NEW piece \in Pieces
      PROVE  Append(AtMost(i - 1, whole), piece[2]) \in Seq(LineSpace)
  <2>1. piece[2] \in LineSpace
    BY DiagnosisAssumption DEF DiagnosisAssumption
  <2>2. i - 1 \in 0 .. Len(whole)
    BY <1>1
  <2>3. AtMost(i - 1, whole) \in Seq(LineSpace)
    BY <1>2, <2>2
  <2>. QED  BY <2>1, <2>3
<1>4. \/ \E size \in 0 .. Len(whole) : text = AtMost(size, whole)
      \/ \E i \in DOMAIN whole : \E piece \in Pieces : text = Append(AtMost(i - 1, whole), piece[2])
  BY Zenon DEF TextsRead
<1>. QED  BY <1>2, <1>3, <1>4

LEMMA ReadLogsAnswers ==
  ASSUME AnswerInv, DiagnosisInv, ReadLogs
  PROVE  AnswerInv'
<1>1. UNCHANGED <<tool, jobs, next>>
  BY DEF ReadLogs
<1>2. (jobs \in JobLists \cup {<<>>})' /\ (next \in 1 .. Len(jobs) + 1)'
  BY <1>1 DEF AnswerInv, TypeOK
<1>3. (failures \subseteq FailureSpace)'
  BY FailuresKept DEF ReadLogs, Kinds
<1>4. ASSUME NEW err \in LogErrors, Return(MapError(err)), UNCHANGED <<diagnostic, log>>
      PROVE  AnswerInv'
  <2>1. pc' \in Stages /\ answer' \in Codes \cup {"none", "run"}
    BY <1>4, MapErrorIsCode DEF Return, Stages
  <2>. QED  BY <1>1, <1>2, <1>3, <1>4, <2>1, TypesKept
<1>5. CASE DiagnoseLogs
  <2>1. PICK whole \in Logs : log' \in TextsRead(whole)
    BY <1>5 DEF DiagnoseLogs
  <2>2. log' \in Seq(LineSpace) /\ diagnostic' = DiagnoseFailure(log', Impacted)
    BY <1>5, <2>1, ReadIsText DEF DiagnoseLogs
  <2>3. pc' = "answered" /\ answer' = "logs"
    BY <1>5 DEF DiagnoseLogs, Return
  <2>4. Impacted' = Impacted /\ Impacted \in SUBSET DOMAIN jobs
    BY <1>1 DEF Impacted
  <2>5. diagnostic' \in [diagnosis : DiagnosisSpace, impacted : SUBSET DOMAIN jobs']
    <3>1. RankFailureDiagnoses(log', Impacted)[1] \in DiagnosisSpace
      BY <2>2, FirstIsDiagnosis
    <3>. QED  BY <1>1, <2>2, <2>4, <3>1 DEF DiagnoseFailure
  <2>6. ToldOfLogs'
    BY <2>2, <2>4 DEF ToldOfLogs
  <2>7. TypeOK'
    BY <1>1, <1>2, <1>3, <2>2, <2>3, <2>5
       DEF TypeOK, AnswerInv, FailureSpace, DiagnosisSpace
  <2>. QED  BY <2>6, <2>7 DEF AnswerInv
<1>. QED  BY <1>4, <1>5 DEF ReadLogs

LEMMA StutterAnswers ==
  ASSUME AnswerInv, UNCHANGED vars
  PROVE  AnswerInv'
BY DEF AnswerInv, TypeOK, ToldOfLogs, vars, Impacted

-----------------------------------------------------------------------------

\* In every state that a call can be in, its variables have their types and a diagnosis
\* from the logs is that of the text that was read.
THEOREM AnswerInvariant == Spec => []AnswerInv
<1>1. Init => AnswerInv
  BY AnswerInit
<1>2. AnswerInv /\ DiagnosisInv /\ [Next]_vars => AnswerInv'
  BY BeforeJobsAnswers, ReadJobsAnswers, LoopAnswers, ReadLogsAnswers, StutterAnswers
     DEF Next
<1>3. QED
  BY <1>1, <1>2, DiagnosisInvariant, PTL DEF Spec

\* The variables of a call keep to their types: a diagnosis is always complete, with
\* a confidence from 0.25 to 0.97 and evidence that is lines.
THEOREM DiagnosisTypeCorrect == Spec => []TypeOK
<1>1. AnswerInv => TypeOK
  BY DEF AnswerInv
<1>2. QED
  BY <1>1, AnswerInvariant, PTL

\* The diagnosis that is told is the best that the text read has to offer, whatever
\* rules are found in the logs, however often, and wherever the limit cuts them, between
\* lines or inside of one; and to stop after any whole line would not have told it with
\* more confidence.
THEOREM DiagnosisIsBestHolds == Spec => []DiagnosisIsBest
<1>1. ASSUME AnswerInv
      PROVE  DiagnosisIsBest
  <2>. SUFFICES ASSUME answer = "logs"
                PROVE  DiagnosisIsBest
    BY DEF DiagnosisIsBest
  <2>. DEFINE best     == diagnostic.diagnosis
              impacted == diagnostic.impacted
  <2>1. log \in Seq(LineSpace)
    BY <1>1 DEF AnswerInv, TypeOK
  <2>2. best = RankFailureDiagnoses(log, impacted)[1] /\ impacted = Impacted
    BY <1>1 DEF AnswerInv, ToldOfLogs, DiagnoseFailure
  <2>. HIDE DEF best, impacted
  <2>3. ASSUME NEW c, LinesOf(c) # {}
        PROVE  Score(log, c) > 0
    <3>1. PICK i \in DOMAIN log : \E m \in log[i] : m.category = c
      BY <2>3 DEF LinesOf
    <3>2. PICK m \in log[i] : m.category = c
      BY <3>1
    <3>3. <<i, m>> \in MatchesOf(log, c)
      BY <3>2, MatchesAre
    <3>4. Score(log, c) \in Nat /\ Score(log, c) # 0
      BY <2>1, <3>3, MatchesFinite, FS_EmptySet DEF Score
    <3>. QED  BY <3>4
  <2>4. \A r \in DOMAIN Rules :
          LinesOf(Rules[r]) # {} =>
            /\ best.category # "unknown"
            /\ best.score >= Score(log, Rules[r])
            /\ best.confidence >= Diagnosed(log, Rules[r], impacted).confidence
    BY <2>1, <2>2, <2>3, FirstIsBest
  <2>5. ASSUME NEW n \in 0 .. Len(log)
        PROVE  best.confidence
                 >= DiagnoseFailure(AtMost(n, log), impacted).diagnosis.confidence
    <3>1. n <= Len(log) /\ 1 .. n \subseteq 1 .. Len(log)
      BY <2>1
    <3>2. AtMost(n, log) \in Seq(LineSpace) /\ PartOf(AtMost(n, log), log)
      BY <2>1, <3>1, Beginning DEF PartOf
    <3>. QED  BY <2>1, <2>2, <3>2, LessIsNotMore DEF DiagnoseFailure
  <2>6. ToSet(best.evidence) \subseteq LinesOf(best.category)
    BY <2>1, <2>2, FirstIsDiagnosis DEF ToSet, LinesOf
  <2>7. best.evidence = <<>> <=> best.category = "unknown"
    BY <2>1, <2>2, FirstIsDiagnosis
  <2>8. impacted = {} => \A i \in DOMAIN jobs : jobs[i].conclusion = "success"
    BY <2>2 DEF Impacted
  <2>. QED  BY <2>4, <2>5, <2>6, <2>7, <2>8 DEF DiagnosisIsBest, best, impacted
<1>2. QED
  BY <1>1, AnswerInvariant, PTL
=============================================================================
