# Verification of pipeline-mcp

TLA+ models of pipeline-mcp, an MCP server that reads GitHub Actions runs,
diagnoses their failures and reruns them. TLC checks each model on small
instances; TLAPS proves the main results for every value of the constants.
All paths are relative to the repository; the code is under `src/`.

## 1. The system

One process (`cmd/pipeline-mcp/main.go`) serves tool calls over stdio. Each
call runs in a goroutine of its own and passes through

    tools/registry.go  ->  service  ->  providers.Provider  ->  githubapi.Client  ->  GitHub
      handler, Observe      rules       ProviderAdapter         HTTP, retries

with two side channels, `audit.JSONLStore` (rerun events) and
`telemetry.Collector` (metrics and their export).

| Component | State | Operations | Interacts with |
|---|---|---|---|
| Configuration, `config/config.go` | environment, read once | `Load`, `validate` | service, client, `main` |
| MCP handlers, `tools/registry.go` | none | one handler for each tool: call the service, `Observe` once, answer | service, telemetry |
| Service, `internal/service/service.go` | none between calls | `GetRun`, `DiagnoseFailure`, `AnalyzeFlakyTests`, `ComparePerformance`, `Rerun` | provider, analysis, audit |
| Provider registry and adapter | the registered providers | resolve a reference, forward, `MapError` | service, client |
| GitHub client, `internal/githubapi/client.go` | none between calls | `doJSON`/`doBytes`/`doOnce` with three attempts, paged lists, log archives | GitHub over HTTP |
| Audit store, `internal/audit/store.go` | a mutex; the file | `Append` | service; other processes given the same path |
| Telemetry, `internal/telemetry/collector.go` | a mutex, counters and a window of latencies for each tool; the exported file | `Observe`, snapshot export | handlers |
| Analysis, `internal/analysis/*` | none | diagnosis rules, flaky tests, performance, redaction | service |

What is hard here is not the volume of state but what can happen between two
steps of it:

* **A rerun is not idempotent and is retried.** The client sends a POST again
  when it does not know what became of the first. Copies can arrive after the
  caller was told of a failure, even after the process has ended.
* **Effects, audit and answer are three steps.** Any of them may fail, and the
  process may end between them.
* **The file of the audit store is shared** between processes that have a mutex
  each, with writes that can be cut short and permissions that others change.
* **The provider's data moves under the reader**: lists shift between pages, and
  each of the requests of a diagnosis can fail for itself.
* **Limits meet at boundaries**: the log limit against header lines and contents,
  the page limit against short pages, the latency window, two windows of time that
  share a second, a limit that is applied before a filter.
* **Answers are computed from parts**: the beginning of a log, the runs that fit, the
  logs that could be read. What they leave out must be accounted for.

What makes each component correct:

* client: a failure that is not in doubt means that nothing ran or will run; a
  retry follows only what did not settle the matter; each call ends;
* rerun tool: nothing reaches the provider without permission; the audit event,
  the answer and the provider's state agree as far as the server can know;
* audit store: acknowledged means stored whole, failed means not stored whole, in
  the order of returns, under 0600 permissions;
* telemetry: incremental metrics say what the history of calls says; the exported
  file is current unless its export failed;
* paged lists: how much an element that comes or goes can cost a reader;
* run logs: the limit holds but for a stated excess; text cut by an error is never
  returned as complete;
* diagnosis: no failure of a request hides a deployment gate, only requests that
  matter are fatal, and the diagnosis from logs is the best that was in the text read;
* trends: each run counts in its window and once, metrics agree with what `get_run`
  tells of the same runs, counts of flaky tests with the logs that were read.

`PROJECT.json` lists every component and, under `hazards`, each hard behaviour at
the line where it bites, with the properties that watch over it.

## 2. The modules

| Module | Models | Code |
|---|---|---|
| `ErrorMapping` | sentinels, errors that wrap none, `MapError` | `githubapi/errors.go`, `adapter.go` |
| `RemoteCall` | abstract: what one client call promises its caller | |
| `GithubClient` | the request path over a lossy network; implements `RemoteCall` | `client.go` |
| `RerunTool` | `pipeline.rerun` end to end; extends `GithubClient` | `registry.go`, `service.go`, `config.go`, `main.go` |
| `AuditLog` | abstract: a log that only grows and an acknowledgement | |
| `AuditStore` | `Append` one system call at a time; implements `AuditLog` | `audit/store.go` |
| `RunLogs` | limits, `DownloadRunLogs`, `unzipOrText` | `client.go`, `service.go` |
| `Paging` | `ListRepositoryRuns`, `ListRunJobs` | `client.go` |
| `Diagnosis` | `GetRun`, `DiagnoseFailure`, metadata loop; uses `Ranking` | `service.go`, `registry.go` |
| `Ranking` | score, evidence, confidence and order of the diagnosis rules | `analysis/diagnosis.go` |
| `Trends` | `ComparePerformance` and `AnalyzeFlakyTests` with what they compute | `service.go`, `analysis/performance.go`, `flaky.go` |
| `Telemetry` | `Observe`, percentile, export | `telemetry/collector.go` |
| `*Proofs` | theorems about `GithubClient`, `RerunTool`, `AuditStore`, `RunLogs`, `Paging`, `Diagnosis` with `Ranking`, `Trends`, `Telemetry` | |
| `MC*` | instances for TLC | |

A definition that starts with the comment `Mutant:` is a plausible mistake in the
code, next to the definition that it would replace. No specification uses one;
`PROJECT.json` says which property each one breaks.

### GithubClient

The Go client has no state between calls, so a call is a value of `Requests`,
with `pc`, `attempt`, `lastErr` (locals of `doBytes`) and `cancelled` (its
context). `Call` enters; `Send`/`SendCancelled` are the beginning of
`httpClient.Do`, `TransportFails` its error, `BodyFails` a failed `io.ReadAll`,
`Succeed` and `Refused` the classification of `doOnce` (`Classify`), `Retry` and
`GiveUp` the two cases of the `select`; `BuildFails` is a request that cannot be built.
`AttemptFails` is what the loop does with
an error and its `retry` flag. The provider and the wire are external: a copy of a
request may be lost, handled late, executed and then answered with a 5xx by a
gateway; an answer counts only for a client that still waits for that copy.
`verdict` is history: what the client has learned of each attempt. Statuses are
grouped by what the code tells apart (`"401"` stands for 401 and 403; `exhausted`
for `X-RateLimit-Remaining: 0`). A call can be cancelled at any step.

### RerunTool

Extends `GithubClient`: a tool call is one client call, and the tool's actions
drive the client's. `Reject` and `Admit` are the checks of `Service.Rerun` in its
order of effects, `Request` a step of `provider.Rerun`, `EmitAudit` what follows
its return (the event, `Append`'s error, the result) and `Answer` the handler's
return; its `Observe` is the subject of `Telemetry`. `Crash` ends the process at any step, `StartServer` starts
one with any configuration that `validate` accepts, and copies on the wire go on.
`Append` is one step here, with the two outcomes that `AuditStore` shows it to
have.

### AuditStore

One action for each system call of `Append`, from `Lock` to the deferred unlock;
`Fail` is every error return. A write is one fragment (`WriteLine`) or a head and
then a tail, because `os.File.Write` goes on after a short write; an error or a
crash in between leaves a head. The mutex belongs to a process (`Home`); `Crash`
ends a process; `Loosen` is someone who changes the file's mode. What a fragment
contains, the HMAC included, is data that no step looks at.

### RunLogs, Paging, Diagnosis, Telemetry

`RunLogs` represents text by its length: `HeaderFills`, `WriteEntry`,
`EntryDamaged` and `SkipEntry` are the ways through one turn of the loop of
`unzipOrText`. `Paging` numbers the provider's elements and lets them arrive
(`Arrive`) and leave (`Depart`) anywhere between two turns (`FetchPage`).
`Diagnosis` lets every request answer or fail in any way that the code tells apart
and keeps which ones failed; a job is what its annotations say. `ReadLogs` reads the
beginning of one of `Logs` and hands it to `Ranking`. The limit cuts at a byte, so the
last line that is read may be the beginning of one (`TextsRead`): `Pieces` says what is
found in a line and in a beginning of it, which may be less, or more where a pattern ends
with `\b`. `Telemetry` has
one action for each step of `Observe` that another goroutine or process can see:
taking the mutex and updating, truncating the file, writing it. The window and the
percentile are computed as in the code, in integers (the floating point index of
the code agrees with them for each length up to 2000). `Sorted` says what the sort
does and not how: a value's place is the number of values that do not come after it.

### Ranking

Operators only, because the code is a pure function of a text and a list of jobs. A
text is the sequence of its lines, a line the set of its matches (`LineSpace`), so
that regular expressions are left out and what is made of their matches is kept; other
text is a match of no rule, so that a blank line is the empty set. The
score counts every match (`Score`), the evidence is gathered pattern by pattern up to
three lines (`Evidence`), in which a line can come twice, and the ranking is a stable
sort by score, evidence and confidence (`RankedBefore`, `RankFailureDiagnoses`). Both
are orders of a finite set, and `InOrder` says which element has which place: the one
with as many elements before it.
Confidence is in hundredths; the comparison that `DiagnosisIsBest` makes also holds of
the floating point values of the code for every score up to the cap.

### Trends

The provider's runs are `history`, newest first, with times in ticks of which
`TicksPerSecond` make a second: the provider's times are whole seconds, those of a
caller are not, and `Second` is what formatting with RFC 3339 leaves of them.
`Listed` is the answer of the list endpoint (inclusive range, newest first) cut at
`Longest`, the lesser of `Limit` and the ten pages after which the client stops whatever
the limit, in one step; what can happen between its pages is the subject of `Paging`.
`Keeping` is the loop of a filter.
`ReadCurrent` and `ReadBaseline` are the two requests of `ComparePerformance`, and
`RunStarts`, `RunFinishes`, `RunsAgain` and `RunIsDeleted` what the provider may do
between them. `WindowMetrics` is `calculateWindowMetrics`, with rates as counts.
`SkipRun`, `LogsUnread` and `ReadRunLogs` are the ways through one turn of the loop
of `AnalyzeFlakyTests`; a log names any set of tests, because it may by then be of
another attempt than the one that was listed. `Report` takes the tests out of the map
in any order that the sort allows: ties are broken by nothing, although the tool's
description (`README.md:13`) names recency too.

## 3. The runs

| Run | Module, configuration | Distinct states | Shows |
|---|---|---|---|
| `client` | `MCGithubClient` | 1,759 | `CleanFailure`, `ExecutionsExplained`, `RetryIsJustified`, `RequestEnds`, refinement `RemoteSpec` |
| `rerun_pair` | `MCRerunTool`, `RerunPair.cfg` | 859,092 | `AuditIsTruthful`, `AnswerIsAudited`, `AnswerIsTruthful` |
| `rerun_one` | `MCRerunTool`, `RerunOne.cfg` | 21,313 | `MutationGate`, `AdmittedIsAnswered` |
| `audit` | `MCAuditStore` | 146,760 | `ReturnOrderKept`, `OutcomeMatchesLog`, `LossExplained`, `WritesUnder0600`, `AppendReturns`, refinement `ImplementsLog` |
| `run_logs` | `MCRunLogs`, `RunLogs.cfg` | 13,784 | `PassesLimitByHeader`, `OnlyLastIsCut`, `BelowLimitIsComplete` |
| `telemetry` | `MCTelemetry` | 76,948 | `MetricsMatchHistory`, `P95SplitsWindow`, `ExportIsCurrent`, `ObserveReturns` |
| `paging` | `MCPaging` | 197,826 | `DriftIsBounded`, `EndSeenIsComplete` |
| `diagnosis` | `MCDiagnosis` | 240,432 | `NoGateMissed`, `ErrorsExplained`, `DiagnosisIsBest` |
| `trends` | `MCTrends` | 2,768,480 | `WindowsCover`, `SnapshotMatchesRuns`, `FlakyCountsMatch` |

Each passing run checks its module's type invariant as well (`rerun_one` leaves it
to `rerun_pair`). Three more runs are expected to find a violation; they are
section 6. Deadlock is not checked: every system here stops when its finite set of
calls is over.

Bounds, and why they are enough:

* `client`: one call, because calls share nothing; three attempts, as in the code,
  against every class of answer.
* `rerun_pair`: two calls, so that one is answered, in flight or on the wire while
  the other runs under another process; two attempts, so that there is a last one
  and one that is tried again; three classes of answer, one for each kind of
  verdict that the properties tell apart. Calls are symmetric, and no liveness is
  checked there. `rerun_one` has three attempts and all classes with one call.
* `audit`: two calls in one process and one in another: a wait on the mutex, a race
  that no mutex orders, and a line after a torn one.
* `run_logs`: up to three entries: the last one that fits, one that is cut, one that
  is not reached; header lines of two bytes, so that a limit can fall inside one.
* `telemetry`: three calls and a window of twenty-two, so that the index of the
  percentile (19 of 0 to 21) is neither the first nor one of the last two. Three calls do
  not fill it: the run starts from a new process or from one that has observed twenty-one
  calls (`MCInit`, with the metrics that `Observed` makes of them), so that the window
  fills up and then slides. The theorems are about `Spec`, from a new process and with any
  number of calls.
* `paging`: at most three pages of one or two elements, lists of up to seven, two
  arrivals and two departures (`MaxArrivals`, `MaxDepartures`).
* `diagnosis`: up to two jobs of ten kinds: one hides or does not hide the other. Nine
  texts of up to four lines, each cut at every line and inside of some: many matches in
  one line against a few in several, one pattern or two, ties, blank text, and a word
  that matches only when it is cut. The weights decide already at scores of two and three.
* `trends`: four runs of four kinds, so that a window has one more than the last page
  allows (`TenPages` is three, below the limit of four), and even and odd numbers of runs;
  a default lookback above the greatest; creation times at, before and after the
  second in which the windows meet; two changes by the provider (`End`) between the
  lists; three tests for a report of two.

## 4. Fairness

Safety properties use none. Liveness is checked under

* `WF(ClientStep)`: a request ends by itself, because `http.Client` has a timeout
  and the backoff a timer. Nothing is assumed of the network or the provider.
* `WF(Request)`, `WF(EmitAudit)`, `WF(Answer)` in `RerunTool`: a handler's goroutine
  is scheduled and `Append` returns, which the run `audit` shows.
* `WF(AppendStep)`, `WF(ObserveStep)`: a goroutine that runs goes on and its system
  calls return.
* `SF(Lock)`, `SF(Update)`: weak fairness would let others take the mutex for ever;
  the starvation mode of `sync.Mutex` hands it to one that waits for a millisecond.

`Crash`, `Restart`, `Cancel`, `Loosen` and all that the provider does are unfair.

## 5. What is proved

TLAPS proves, for every set of calls, processes, arguments and answers, any number
of attempts, every list of jobs, every archive and limit, every list and page size
with any number of changes, every history of runs, and every sequence of observations:

| Module | Theorems |
|---|---|
| `GithubClientProofs` | `ClientInvariant`, `ClientTypeCorrect`, `CleanFailureHolds`, `ExecutionsExplainedHolds`, `RetryIsJustifiedHolds`, `ClientImplementsRemoteCall` |
| `RerunToolProofs` | `RerunInvariant`, `RerunTypeCorrect`, `MutationGateHolds`, `AuditIsTruthfulHolds`, `AnswerIsTruthfulHolds`, `AnswerIsAuditedHolds`, `ClientGuaranteesHold` |
| `AuditStoreProofs` | `AuditInvariant`, `AuditTypeCorrect`, `ReturnOrderKeptHolds`, `OutcomeMatchesLogHolds`, `LossExplainedHolds`, `WritesUnder0600Holds`, `AuditImplementsLog` |
| `RunLogsProofs` | `LogsInvariant`, `LogsTypeCorrect`, `PassesLimitByHeaderHolds`, `OnlyLastIsCutHolds`, `BelowLimitIsCompleteHolds` |
| `PagingProofs` | `PagingInvariant`, `PagingTypeCorrect`, `DriftIsBoundedHolds`, `EndSeenIsCompleteHolds` |
| `DiagnosisProofs` | `DiagnosisInvariant`, `NoGateMissedHolds`, `ErrorsExplainedHolds`, `RankedByConfidence`, `LessIsNotMore`, `AnswerInvariant`, `DiagnosisTypeCorrect`, `DiagnosisIsBestHolds` |
| `TrendsProofs` | `TrendsInvariant`, `TrendsTypeCorrect`, `WindowsCoverHolds`, `FlakyCountsMatchHolds`, `SnapshotMatchesRunsHolds` |
| `TelemetryProofs` | `TelemetryInvariant`, `TelemetryTypeCorrect`, `MetricsMatchHistoryHolds`, `P95SplitsWindowHolds`, `ExportIsCurrentHolds` |

The assumptions are those on the constants: `ClientAssumption` (a positive number
of attempts, well-formed answers), `RerunAssumption` (arguments are among those the
handler tells apart; `Client.Rerun` decodes nothing), `AuditAssumption` (each call
has a process), `LogsAssumption` and `BodiesAssumption` (limits are positive, bodies
well-formed), `PagingAssumption` and `TelemetryAssumption` (pages, the window and
observations are well-formed), `DiagnosisAssumption` (jobs, logs and
beginnings of lines are well-formed) and
`TrendsAssumption`: calls, runs and limits are well-formed, the tests are finitely many, and the provider's first runs have ids of
their own, come newest first, were created before the call arrived and in whole seconds,
which is how its API gives times. TLC evaluates them in the runs.

**Client.** `CleanFailure` is not inductive: it speaks of calls that are done, and
what makes it true is what every copy outside of the client could be.
`ClientInv` adds that a copy on the wire or executed is one of an attempt that was
begun (`CopiesSent`) and is explained by a verdict in doubt or accepted, or by the
attempt in flight (`CopiesExplained`); that an answer tells the truth of its copy
(`RepliesTrue`: a refusal was not preceded by an execution, and the copy is off the
wire); that verdicts before the current attempt are those that allow a retry
(`VerdictsOrdered`); and that success ran (`SuccessRan`). One lemma for each action;
`RepliesKept` is what those that end an attempt have in common. The refinement maps the
client's `pc` and `lastErr` to a status and `executed` to the copies that ran.

**Rerun tool.** Every step of the tool is a step of the client or leaves it alone
(`RerunStepIsClientStep`), so `ClientInv` comes from the client's own lemma and only
the links are new: stages against the client's `pc` and the gate (`StagesLinked`),
answers and events against the outcome (`AnswersLinked`, `EventsLinked`). The truth of events then
follows from `CleanFailure` and from `AcceptedIsOk`, which needs that nothing is
decoded: a decoding error after an accepted POST would break it.

**Audit store.** `AuditInv` says from where a call stands which fragments of its
line are in the file (`WrittenSoFar`), that calls inside `Append` hold their
process's mutex (`MutexHeld`), that a head comes before its tail, and that nothing
of a call's own process lies between them (`NothingOfOwnBetween`), which is what the
mutex gives and all that it gives. `LossExplained` and the refinement need all of
them. Order across processes needs no common mutex: a call that has returned has
written before another one locks (`EarlierReturned`).

**Run logs.** The limit is passed by what the last step wrote, so `LogsInv` bounds the
text by the limit while the loop runs (`LoopOrdered`) and lets only the last file be
cut, and only at the limit (`CutAtLimit`); every file that opens was kept when it was
passed (`PassedKept`), and the loop ends when no file or no room is left
(`DoneOrFull`). That the limit is no more than the configured one (`LimitAsked`) fails
for a configured limit of 1 only, whose half the client takes as no limit given. `WriteKeeps` is what the two steps that write have in common.

**Diagnosis.** `NoGateMissed` speaks of the end of the loop, so `DiagnosisInv` says at
each of its requests which jobs were passed by, and that their annotations could not
be read if a gate held them (`ScanOrdered`); and that a call that goes on has lost no
request that it needs (`NothingNeededLost`). `FailureTold`, `AnsweredWell` and `GoesOn`
are the three ways in which a step can end.

**Ranking.** The sort compares scores first, then the evidence, then the confidence. A
match weighs as much as two lines of evidence, and a rule that matched has between one
line and three, so the order by the first two is the order by confidence, up to its cap
(`ConfidenceFollowsScore`, `RankedByConfidence`). That every place of an order is taken
follows by counting (`Places`): elements have different numbers of others before them,
all less than the size of the set. Hence evidence is as many lines of the rule as there
are, up to three (`EvidenceIs`), and nothing ranks before the first diagnosis
(`FirstOfRanking`), which is then the best (`FirstIsBest`). A text in which
less is found, line by line, has no rule with more score or evidence (`LessIsFound`), nor
is the first of its ranking told with more confidence (`LessIsNotMore`). The first whole
lines of what was read are such a text; a beginning that ends inside of a line may not
be, because "AssertionErrors" does not match `\bAssertionError\b` and its beginning does,
and `DiagnosisIsBest` claims nothing of these. It follows from `AnswerInv`: what is told is made of the text that was read and of the run's jobs.

**Paging.** A bound on what was skipped does not survive a step: an element that left the
list has moved others, and it is a later page that misses one. `PagingInv` therefore
accounts for what is still to come. The elements gathered are as many as the client's
position in the list, so an element can drift past it in two ways: one that was returned
lies ahead, to be returned again (`Again`), or one that was not lies behind, to be missed
(`Behind`). Repeats and `Again` together are no more than the arrivals, `Behind` and what
was skipped no more than the departures (`AgainBounded`, `BehindBounded`). An insertion
moves the element at the position at most, a removal the same, and a page empties what it
passes (`ListSound` keeps the order of the list).

**Trends.** `TrendsInv` says which tool stands where, and that nothing changes but between
the lists of a comparison (`Stages`); that the provider's runs have come from those there
were at first, newest first, with ids, times of creation and names that nothing changes
(`Provider`); that each list has the runs of its seconds but for what the limit, or the
end of the tenth page, cuts off,
the first list from the runs that there were and the second from those that there are
(`Lists`); and what the map of tests means at the loop's position (`TestsFound`).
`WindowsCover` follows by arithmetic on whole seconds (`SecondOrder`, `SecondOfWhole`):
the windows cut at the same second, and the second list includes it. `FlakyCountsMatch`
follows because the failed runs seen so far include those whose logs were read, and
because a sequence with as many places as there are tests has every one of them.
`SnapshotMatchesRuns` needs that a snapshot is still that of the lists it was made of
(`SnapshotIs`), and then speaks of one list (`MetricsAgree`). The median is one of the
sorted durations or lies between two of them: fewer than n are smaller than the n-th, and n
of them are not greater (`SortedIs`, `MedianSplits`). Each run is a success or in one of
six classes that share no run (`ClassesPartition`), and each flaky commit has a run of
either outcome of its own (`CandidatesBounded`).

**Telemetry.** The mutex is held from the update through the export, so no other call
changes the metrics while a snapshot of them is written (`Exclusive` in `TelemetryInv`);
`ExportIsCurrent` needs it. `MetricsMatchHistory` is inductive once the operators are known:
what an observation adds to a sum (`SumOfAppend`), to a count (`CountAppend`) and how the
window slides (`WindowSlides`). For `P95SplitsWindow` no two positions have the same place
(`PlacesDiffer`), so every place is taken (`PlaceIsTaken`), and the value at a place has at
least as many values on each side as the place says (`PlaceSplits`).

**Recursion.** The induction theorems of the library take an operator and cannot be
instantiated here. `SumOf` and `Keeping` are recursive functions. That such a function
exists, and what it is, is proved without those theorems. In `TelemetryProofs`, if it
failed anywhere it would fail at a least position (`Least`, from the well-foundedness of
the naturals), which the position before it refutes (`SumsExist`). `TrendsProofs` states the same once, of a set of numbers (`Induction`) and
of a function whose steps are themselves a function (`Recursion`), and cites it.

Every invariant that a run checks is a theorem. Checked by TLC only: all liveness
(`RequestEnds`, `AdmittedIsAnswered`, `AppendReturns`, `ObserveReturns`: fairness and
`ENABLED` are beyond the prover). No module declares a RECURSIVE operator.

## 6. Where the code and its documents disagree

* `run_logs_missing` (bug): `client.go:147` compares `err == ErrNotFound`, but
  `doOnce` wraps the sentinel, so the branch is dead. A run whose logs are gone gets
  `UNAUTHORIZED`, not the `LOG_UNAVAILABLE` of `docs/acceptance-mapping.md:5`.
* `rerun_unaudited`: `README.md:232` says that every rerun emits an auditable event.
  When `Append` fails, the rerun has run, its caller has an answer, and there is none;
  the error is only logged or dropped (`service.go:294,298`). What does hold is
  `AnswerIsAudited`.
* `audit_torn`: `README.md:41` promises persistent JSONL events. After a write cut
  short the file ends without a newline, and the next event, acknowledged, shares
  its line. What does hold is `LossExplained`.

## 7. What is not modelled

* Regular expressions (of the diagnosis rules, test names and redaction) and the URL
  and repository parsers: pure functions of text. Their results enter as classes or
  sets (a reference is good, bad or blank; a line has matches; a log names tests).
  A match that goes on in the next line belongs to the line that it begins in; if a whole
  line is the last that is read, such a match may be lost, as in a line that is cut.
* The differences and rates of a snapshot, which are quotients and differences of
  fields that are modelled, and the confidence of a flaky test, which grows with its
  count and so never decides the order.
* Parsing of the environment, MCP registration, JSON schemas, texts of answers, the
  HMAC of an event, confidence averages and timestamps: data no property is about.
* Loss of the page cache (`Append` does not sync), rotation or deletion of the audit
  file, two processes that export metrics to one path: nothing in the repository says
  what should then hold.
* The provider's runs as versions: `Diagnosis` lets each request answer anything, so
  it claims nothing about answers that belong together.
* `cmd/benchmark` and the scripts: not part of the server.

## 8. Plan

Done: the mutation path first (client, rerun tool, audit store, with their abstract
specifications and theorems), then the readers (run logs, paging, diagnosis) and
telemetry, then the ranking of a diagnosis and the trends over many runs, then the
theorems about paging, trends and telemetry. Next, in this order:

1. `Diagnosis` with versions of a run: what a diagnosis may mix when the run is
   started again between two requests.
2. `RerunTool` over `AuditStore` in place of its one-step `Append`, if the state space
   allows.
