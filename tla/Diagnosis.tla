----------------------------- MODULE Diagnosis ------------------------------
(***************************************************************************)
(* The tools pipeline.get_run and pipeline.diagnose_failure, request by    *)
(* request: Service.GetRun, DiagnoseFailure, diagnoseMetadataFailure and   *)
(* resolveRunReference (internal/service/service.go).                      *)
(*                                                                         *)
(* The run goes on changing while a call reads it (it may be run again),   *)
(* so each request may answer anything; calls share nothing, and one is    *)
(* enough.  RunLogs has the steps of the last request, Ranking what is     *)
(* made of the text.  What is read is the beginning of the text: the limit *)
(* that cuts it is in bytes, and may fall inside of a line.                *)
(***************************************************************************)
EXTENDS Ranking, ErrorMapping

CONSTANTS
  References,   \* the RunReferences a call may come with
  JobLists,     \* what ListRunJobs may return
  Logs,         \* the whole text that a run may have for its logs
  Pieces        \* pairs of a line and of a beginning of it: what is found in each

Tools == {"get_run", "diagnose"}

\* The arguments that resolveRunReference tells apart.
ReferenceSpace ==
  [provider : {"known", "unknown"}, runURL : {"blank", "run", "bad"}, runID : {0, 1},
   repository : {"blank", "owner/name", "bad"}]

\* What the annotations of a job's check run say: nothing, something else, that a
\* review is required, that a branch may not deploy to the environment they name,
\* or that a deployment was rejected; and whether the check run names one.
JobSpace ==
  [conclusion : {"failure", "success", "other"}, steps : BOOLEAN,
   checkRunURL : {"blank", "foreign", "parsed"},
   says : {"nothing", "other", "review", "branch", "rejected"}, deployment : BOOLEAN]

ASSUME DiagnosisAssumption ==
  /\ References \subseteq ReferenceSpace
  /\ JobLists \subseteq Seq(JobSpace)
  /\ Logs \subseteq Seq(LineSpace)
  /\ Pieces \subseteq LineSpace \X LineSpace

VARIABLES
  tool,       \* the tool that is called
  pc,         \* the next request: "idle", "latest", "run", "jobs", "scan",
              \* "checkRun", "policies", "logs"; then "answered"
  jobs,       \* the jobs of the run
  next,       \* the loop's position in jobs
  answer,     \* where the result comes from: "run", "metadata", "logs"; or a code
  diagnostic, \* the diagnosis
  log,        \* history: the text that was read of the logs
  failures    \* history: the requests that failed, and the job some were about

vars == <<tool, pc, jobs, next, answer, diagnostic, log, failures>>

LogErrors == Errors \cup {"ErrLogsUnavailable"}
Kinds     == {"latest", "run", "jobs", "annotations", "checkRun", "policies", "logs"}

Init ==
  /\ tool \in Tools
  /\ pc       = "idle"
  /\ jobs     = <<>>
  /\ next     = 1
  /\ answer   = "none"
  /\ diagnostic = <<>>
  /\ log      = <<>>
  /\ failures = {}

Return(result) ==
  /\ pc' = "answered"
  /\ answer' = result

\* What the history keeps of a request that succeeds, and of one that fails.
Succeeds == UNCHANGED failures

Fails(kind, err) ==
  failures' = failures \cup {[kind |-> kind, err |-> err, job |-> next]}

-----------------------------------------------------------------------------
(* resolveRunReference.                                                     *)

ResolveRunReference(ref) ==
  IF ref.provider = "unknown" THEN "invalid"
  ELSE IF ref.runURL # "blank" THEN IF ref.runURL = "run" THEN "run" ELSE "invalid"
  ELSE IF ref.repository # "owner/name" THEN "invalid"
  ELSE IF ref.runID <= 0 THEN "latest" ELSE "run"

Resolve(ref) ==
  /\ pc = "idle"
  /\ IF ResolveRunReference(ref) = "invalid"
     THEN Return("INVALID_INPUT")
     ELSE pc' = ResolveRunReference(ref) /\ UNCHANGED answer
  /\ UNCHANGED <<tool, jobs, next, diagnostic, log, failures>>

\* resolveLatestFailedRun: the first of the failed runs, if there is one.
FindLatest ==
  /\ pc = "latest"
  /\ \/ Succeeds /\ pc' = "run" /\ UNCHANGED answer
     \/ Succeeds /\ Return("INVALID_INPUT")
     \/ \E err \in Errors : Fails("latest", err) /\ Return(MapError(err))
  /\ UNCHANGED <<tool, jobs, next, diagnostic, log>>

-----------------------------------------------------------------------------
(* The run and its jobs.                                                    *)

ReadRun ==
  /\ pc = "run"
  /\ \/ Succeeds /\ pc' = "jobs" /\ UNCHANGED answer
     \/ \E err \in Errors : Fails("run", err) /\ Return(MapError(err))
  /\ UNCHANGED <<tool, jobs, next, diagnostic, log>>

\* Mutant: GetRun, too, fails without the jobs.
ReadJobsStrictly ==
  /\ pc = "jobs"
  /\ \/ /\ Succeeds
        /\ jobs' \in JobLists
        /\ IF tool = "get_run" THEN Return("run") ELSE pc' = "scan" /\ UNCHANGED answer
     \/ /\ \E err \in Errors : Fails("jobs", err) /\ Return(MapError(err))
        /\ UNCHANGED jobs
  /\ UNCHANGED <<tool, next, diagnostic, log>>

\* GetRun does without the jobs; DiagnoseFailure does not.
ReadJobs ==
  /\ pc = "jobs"
  /\ \/ /\ Succeeds
        /\ jobs' \in JobLists
        /\ IF tool = "get_run" THEN Return("run") ELSE pc' = "scan" /\ UNCHANGED answer
     \/ /\ \E err \in Errors :
             Fails("jobs", err) /\ Return(IF tool = "get_run" THEN "run" ELSE MapError(err))
        /\ UNCHANGED jobs
  /\ UNCHANGED <<tool, next, diagnostic, log>>

-----------------------------------------------------------------------------
(* diagnoseMetadataFailure.                                                 *)

Job == jobs[next]

\* A failed job without steps and with a check run of this provider.
Candidate(job) == job.conclusion = "failure" /\ ~job.steps /\ job.checkRunURL = "parsed"

InScan == pc = "scan" /\ next <= Len(jobs)

NextJob == next' = next + 1 /\ pc' = "scan"

SkipJob ==
  /\ InScan
  /\ ~Candidate(Job)
  /\ NextJob
  /\ UNCHANGED <<tool, jobs, answer, diagnostic, log, failures>>

\* Mutant: an error of the request ends the loop.
ReadAnnotationsOnce ==
  /\ InScan
  /\ Candidate(Job)
  /\ \/ Succeeds /\ Job.says = "nothing" /\ NextJob
     \/ Succeeds /\ Job.says # "nothing" /\ pc' = "checkRun" /\ UNCHANGED next
     \/ (\E err \in Errors : Fails("annotations", err)) /\ pc' = "logs" /\ UNCHANGED next
  /\ UNCHANGED <<tool, jobs, answer, diagnostic, log>>

\* Without annotations the loop goes on to the next job.
ReadAnnotations ==
  /\ InScan
  /\ Candidate(Job)
  /\ \/ Succeeds /\ Job.says = "nothing" /\ NextJob
     \/ Succeeds /\ Job.says # "nothing" /\ pc' = "checkRun" /\ UNCHANGED next
     \/ (\E err \in Errors : Fails("annotations", err)) /\ NextJob
  /\ UNCHANGED <<tool, jobs, answer, diagnostic, log>>

\* The diagnosis that a gate holds the job back: its evidence is the annotations, no
\* line of the logs.
Blocked(confidence) ==
  /\ Return("metadata")
  /\ diagnostic' = [diagnosis |-> [category |-> "config_error", score |-> 0,
                                   evidence |-> <<>>, confidence |-> confidence],
                    impacted  |-> {next}]

\* What the annotations say decides; the check run can only name the environment,
\* and the policies are asked for when it has a name.
Decide(environmentNamed) ==
  \/ Job.says = "other" /\ NextJob /\ UNCHANGED <<answer, diagnostic>>
  \/ Job.says = "review" /\ Blocked(92) /\ UNCHANGED next
  \/ /\ Job.says \in {"branch", "rejected"}
     /\ IF environmentNamed THEN pc' = "policies" /\ UNCHANGED <<answer, diagnostic>>
                            ELSE Blocked(94)
     /\ UNCHANGED next

ReadCheckRun ==
  /\ pc = "checkRun"
  /\ \/ Succeeds /\ Decide(Job.says = "branch" \/ Job.deployment)
     \/ (\E err \in Errors : Fails("checkRun", err)) /\ Decide(Job.says = "branch")
  /\ UNCHANGED <<tool, jobs, log>>

\* The diagnosis does without the policies.
ReadPolicies ==
  /\ pc = "policies"
  /\ Succeeds \/ \E err \in Errors : Fails("policies", err)
  /\ Blocked(94)
  /\ UNCHANGED <<tool, jobs, next, log>>

EndScan ==
  /\ pc = "scan"
  /\ next > Len(jobs)
  /\ pc' = "logs"
  /\ UNCHANGED <<tool, jobs, next, answer, diagnostic, log, failures>>

-----------------------------------------------------------------------------
(* The logs.                                                                *)

\* failedJobs: the jobs that have failed, or else those that have not succeeded (the
\* provider has no status "failed").
Impacted ==
  LET failed == {i \in DOMAIN jobs : jobs[i].conclusion = "failure"}
  IN  IF failed # {} THEN failed ELSE {i \in DOMAIN jobs : jobs[i].conclusion # "success"}

\* What may be read of a text: the first of its lines, and of the next a beginning if
\* the limit falls inside of it.
TextsRead(whole) ==
  {AtMost(size, whole) : size \in 0 .. Len(whole)}
    \cup UNION {{Append(AtMost(i - 1, whole), piece[2]) :
                   piece \in {p \in Pieces : p[1] = whole[i]}} : i \in DOMAIN whole}

DiagnoseLogs ==
  /\ \E whole \in Logs : log' \in TextsRead(whole)
  /\ diagnostic' = DiagnoseFailure(log', Impacted)
  /\ Return("logs")

\* Mutant: the error is not mapped.
ReadLogsUnmapped ==
  /\ pc = "logs"
  /\ \/ Succeeds /\ DiagnoseLogs
     \/ /\ \E err \in LogErrors : Fails("logs", err) /\ Return(err)
        /\ UNCHANGED <<diagnostic, log>>
  /\ UNCHANGED <<tool, jobs, next>>

ReadLogs ==
  /\ pc = "logs"
  /\ \/ Succeeds /\ DiagnoseLogs
     \/ /\ \E err \in LogErrors : Fails("logs", err) /\ Return(MapError(err))
        /\ UNCHANGED <<diagnostic, log>>
  /\ UNCHANGED <<tool, jobs, next>>

-----------------------------------------------------------------------------

Next ==
  \/ \E ref \in References : Resolve(ref)
  \/ FindLatest
  \/ ReadRun
  \/ ReadJobs
  \/ SkipJob
  \/ ReadAnnotations
  \/ ReadCheckRun
  \/ ReadPolicies
  \/ EndScan
  \/ ReadLogs

Spec == Init /\ [][Next]_vars

-----------------------------------------------------------------------------
(* Properties.                                                              *)

\* The variables keep to their types.
TypeOK ==
  /\ tool \in Tools
  /\ pc \in {"idle", "latest", "run", "jobs", "scan", "checkRun", "policies", "logs", "answered"}
  /\ jobs \in JobLists \cup {<<>>}
  /\ next \in 1 .. Len(jobs) + 1
  /\ answer \in Codes \cup {"none", "run", "metadata", "logs"}
  /\ answer \in {"metadata", "logs"} =>
       diagnostic \in [diagnosis : [category : Categories, score : Nat, evidence : Seq(Nat),
                                    confidence : 25 .. 97],
                       impacted  : SUBSET DOMAIN jobs]
  /\ log \in Seq(LineSpace)
  /\ failures \subseteq [kind : Kinds, err : LogErrors, job : Nat]

\* A job that the provider's annotations say a gate holds back.
Gated(job) == Candidate(job) /\ job.says \in {"review", "branch", "rejected"}

\* A job whose annotations could not be read.
Unread(i) == \E f \in failures : f.kind = "annotations" /\ f.job = i

\* The logs are asked for only if no job is held back by a gate, and a diagnosis
\* made without them is of the first job that is: jobs before it, and failures of
\* their requests, hide a gate only if its own annotations could not be read.
NoGateMissed ==
  /\ pc = "logs" => \A i \in DOMAIN jobs : Gated(jobs[i]) => Unread(i)
  /\ answer = "metadata" =>
       Gated(Job) /\ \A i \in 1 .. next - 1 : Gated(jobs[i]) => Unread(i)

\* The requests whose failure a tool cannot do without.
Needed(f) == f.kind \in {"latest", "run", "logs"} \/ (f.kind = "jobs" /\ tool = "diagnose")

\* A call ends with an error, other than for its arguments, exactly when a request
\* that it needs has failed, and with that error's code; the failure of any other
\* request costs it no more than detail.
ErrorsExplained ==
  /\ answer \in Codes \ {"INVALID_INPUT"} =>
       \E f \in failures : Needed(f) /\ answer = MapError(f.err)
  /\ answer \in {"run", "metadata", "logs", "INVALID_INPUT"} =>
       \A f \in failures : ~Needed(f)

\* The lines of the text read in which a rule is found.
LinesOf(category) == {i \in DOMAIN log : \E m \in log[i] : m.category = category}

\* A diagnosis from the logs is the best that the text read has to offer, also if the
\* limit has cut its last line: its category is one with the most matches, no other
\* category would be told with more confidence, and to stop after any whole line of it
\* would not have given more.  (To stop inside of a line might: "AssertionErrors" does not
\* match \bAssertionError\b, and its beginning does.)  Its evidence is lines of that
\* category.  It is unknown only if no rule is found at all, and it impacts no job only
\* if every job has succeeded.
DiagnosisIsBest ==
  answer = "logs" =>
    LET best     == diagnostic.diagnosis
        impacted == diagnostic.impacted
    IN  /\ \A r \in DOMAIN Rules :
             LinesOf(Rules[r]) # {} =>
               /\ best.category # "unknown"
               /\ best.score >= Score(log, Rules[r])
               /\ best.confidence >= Diagnosed(log, Rules[r], impacted).confidence
        /\ \A n \in 0 .. Len(log) :
             best.confidence >= DiagnoseFailure(AtMost(n, log), impacted).diagnosis.confidence
        /\ ToSet(best.evidence) \subseteq LinesOf(best.category)
        /\ best.evidence = <<>> <=> best.category = "unknown"
        /\ impacted = {} => \A i \in DOMAIN jobs : jobs[i].conclusion = "success"
=============================================================================
