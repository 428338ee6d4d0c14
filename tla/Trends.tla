-------------------------------- MODULE Trends ------------------------------
(***************************************************************************)
(* The tools pipeline.compare_performance and pipeline.analyze_flaky_tests *)
(* over the runs of a repository: Service.ComparePerformance and           *)
(* AnalyzeFlakyTests (internal/service/service.go) and what they compute   *)
(* (internal/analysis/performance.go, flaky.go).                           *)
(*                                                                         *)
(* The provider's runs go on changing between the two lists of a           *)
(* comparison.  One list is read in one step here: Paging has its pages.   *)
(* Times are ticks; the provider's are whole seconds, those of a caller    *)
(* are not, and what is sent of them is cut to the second.                 *)
(***************************************************************************)
EXTENDS Integers, SequencesExt, FiniteSetsExt, ErrorMapping

CONSTANTS
  Calls,            \* the arguments a call may come with
  Histories,        \* the runs that the provider may have to begin with, newest first
  Tests,            \* the names that logs may mention
  TicksPerSecond,
  Day,              \* in ticks
  DefaultLookback,  \* cfg.DefaultLookbackDays
  MaxLookback,      \* 90 in the code
  Limit,            \* cfg.MaxHistoricalRuns
  TenPages,         \* 1000 runs in the code, which reads no more pages
  TopSize,          \* 10 in the code
  Start,            \* the time at which a call arrives
  End               \* bound: nothing changes at the provider after it

NoTime == -1

Conclusions ==
  {"", "success", "failure", "timed_out", "cancelled", "startup_failure",
   "action_required", "stale", "neutral"}

\* A run as the two tools look at it: names has its name and its display title.
RunSpace ==
  [id : Nat, created : Nat, started : Nat \cup {NoTime}, updated : Nat,
   status : {"queued", "in_progress", "completed", "failure"}, conclusion : Conclusions,
   names : SUBSET STRING, sha : STRING]

\* valid says whether provider, repository and dates can be understood.
CallSpace ==
  [tool : {"compare"}, valid : BOOLEAN, workflow : STRING, from : Nat, to : Nat]
    \cup [tool : {"flaky"}, valid : BOOLEAN, workflow : STRING, days : Int]

ASSUME TrendsAssumption ==
  /\ {TicksPerSecond, Day, DefaultLookback, MaxLookback, Limit, TenPages, TopSize}
       \subseteq Nat \ {0}
  /\ {Start, End} \subseteq Nat /\ Start <= End
  /\ Calls \subseteq CallSpace
  /\ IsFiniteSet(Tests)
  /\ Histories \subseteq Seq(RunSpace)
  /\ \A h \in Histories : \A i \in DOMAIN h :
       /\ h[i].id <= Len(h)
       /\ h[i].created <= Start /\ h[i].created % TicksPerSecond = 0
       /\ \A j \in DOMAIN h : i < j => h[i].id # h[j].id /\ h[i].created >= h[j].created

VARIABLES
  history,     \* the provider's runs, newest first
  clock,       \* the provider's
  call,        \* the arguments
  pc,          \* "idle", then the next request: "current", "baseline", "runs",
               \* "logs"; then "answered"
  current,     \* the runs listed for the window, before the filter by workflow
  baseline,    \* those listed for the window before it
  next,        \* the loop's position among the runs of the workflow
  failedRuns,
  aggregates,  \* the map from names of tests
  top,         \* the tests of the report
  snapshot,    \* the snapshot
  answer,      \* "none", "snapshot", "report" or a code
  first,       \* history: the provider's runs when the call arrived
  named        \* history: the tests named by each log that could be read

vars == <<history, clock, call, pc, current, baseline, next, failedRuns, aggregates, top,
          snapshot, answer, first, named>>

providerVars == <<history, clock>>
flakyVars    == <<next, failedRuns, aggregates, top, named>>

Init ==
  /\ history \in Histories
  /\ clock  = Start
  /\ call   \in Calls
  /\ pc     = "idle"
  /\ current    = <<>>
  /\ baseline   = <<>>
  /\ next       = 1
  /\ failedRuns = 0
  /\ aggregates = <<>>
  /\ top        = <<>>
  /\ snapshot   = <<>>
  /\ answer     = "none"
  /\ first      = history
  /\ named      = <<>>

Return(result) ==
  /\ pc' = "answered"
  /\ answer' = result

-----------------------------------------------------------------------------
(* Lists of runs.                                                           *)

Lesser(a, b) == IF a < b THEN a ELSE b

\* What is left of a time that is formatted with seconds.
Second(t) == t - (t % TicksPerSecond)

\* The elements of a sequence that are in a set, in their order.
Keeping(s, wanted) ==
  LET kept[n \in 0 .. Len(s)] ==
        IF n = 0 THEN <<>>
        ELSE IF s[n] \in wanted THEN Append(kept[n - 1], s[n]) ELSE kept[n - 1]
  IN  kept[Len(s)]

\* The client stops at the limit, and after ten pages whatever the limit.
Longest == Lesser(Limit, TenPages)

\* The provider's answer: the runs created from one second to another, both
\* included, newest first.
Listed(from, to) ==
  LET inRange == {run \in ToSet(history) :
                    Second(from) <= run.created /\ run.created <= Second(to)}
      all == Keeping(history, inRange)
  IN  SubSeq(all, 1, Lesser(Len(all), Longest))

FilterByWorkflow(runs) ==
  IF call.workflow = "" THEN runs
  ELSE Keeping(runs, {run \in ToSet(runs) : call.workflow \in run.names})

-----------------------------------------------------------------------------
(* The snapshot of a window.                                                *)

Succeeded(run) == run.conclusion = "success"

Started(run) == IF run.started = NoTime THEN run.created ELSE run.started

\* Mutant: a run's duration is counted from its creation.
RunDurationFromCreation(run) ==
  IF run.updated < run.created THEN 0 ELSE run.updated - run.created

RunDuration(run) ==
  IF run.updated < Started(run) THEN 0 ELSE run.updated - Started(run)

QueueTime(run) ==
  IF run.started = NoTime \/ run.started < run.created THEN 0 ELSE run.started - run.created

ClassifyRunFailure(run) ==
  CASE run.conclusion \in {"timed_out", "cancelled"}               -> "infra_timeout"
    [] run.conclusion \in {"startup_failure", "action_required"}   -> "config_error"
    [] run.conclusion = "failure"                                  -> "test_or_build_failure"
    [] run.conclusion = ""                                         -> "unknown"
    [] OTHER                                                       -> run.conclusion

\* The n-th of the values when they are sorted: fewer than n of them are smaller, and
\* it is one of the first n.
Sorted(values, n) ==
  CHOOSE value \in Range(values) :
    /\ Quantify(DOMAIN values, LAMBDA i : values[i] < value) < n
    /\ Quantify(DOMAIN values, LAMBDA i : values[i] <= value) >= n

MedianOf(values) ==
  LET half == Len(values) \div 2
  IN  IF Len(values) % 2 = 0
      THEN (Sorted(values, half) + Sorted(values, half + 1)) \div 2
      ELSE Sorted(values, half + 1)

SumOf(values) ==
  LET sum[n \in 0 .. Len(values)] == IF n = 0 THEN 0 ELSE sum[n - 1] + values[n]
  IN  sum[Len(values)]

\* The commits with a run that failed and one that succeeded.
FlakyCandidates(runs) ==
  {run.sha : run \in {r \in ToSet(runs) :
     /\ r.sha # ""
     /\ \A outcome \in {"failure", "success"} :
          \E s \in ToSet(runs) : s.sha = r.sha /\ s.conclusion = outcome}}

\* The rates of the code are these counts over the number of runs.
WindowMetrics(runs) ==
  IF runs = <<>>
  THEN [total |-> 0, successes |-> 0, median |-> 0, queue |-> 0, candidates |-> 0,
        breakdown |-> <<>>]
  ELSE LET failed == {i \in DOMAIN runs : ~Succeeded(runs[i])}
       IN  [total      |-> Len(runs),
            successes  |-> Len(runs) - Cardinality(failed),
            median     |-> MedianOf([i \in DOMAIN runs |-> RunDuration(runs[i])]),
            queue      |-> SumOf([i \in DOMAIN runs |-> QueueTime(runs[i])]) \div Len(runs),
            candidates |-> Cardinality(FlakyCandidates(runs)),
            breakdown  |-> [c \in {ClassifyRunFailure(runs[i]) : i \in failed} |->
                              Quantify(failed, LAMBDA i : ClassifyRunFailure(runs[i]) = c)]]

\* The differences between the two windows that the code adds are left out.
BuildPerformanceSnapshot(currentRuns, baselineRuns) ==
  [current |-> WindowMetrics(currentRuns), baseline |-> WindowMetrics(baselineRuns)]

-----------------------------------------------------------------------------
(* ComparePerformance.                                                      *)

\* The arguments are refused.
Reject ==
  /\ pc = "idle"
  /\ ~call.valid \/ (call.tool = "compare" /\ call.to <= call.from)
  /\ Return("INVALID_INPUT")
  /\ UNCHANGED <<providerVars, call, current, baseline, snapshot, first, flakyVars>>

\* One of the two lists cannot be read.
ListFails ==
  /\ pc \in {"current", "baseline"}
  /\ \E err \in Errors : Return(MapError(err))
  /\ UNCHANGED <<providerVars, call, current, baseline, snapshot, first, flakyVars>>

Accept ==
  /\ pc = "idle"
  /\ call.valid
  /\ \/ call.tool = "compare" /\ call.to > call.from /\ pc' = "current"
     \/ call.tool = "flaky" /\ pc' = "runs"
  /\ UNCHANGED <<providerVars, call, current, baseline, snapshot, answer, first, flakyVars>>

ReadCurrent ==
  /\ pc = "current"
  /\ current' = Listed(call.from, call.to)
  /\ pc' = "baseline"
  /\ UNCHANGED <<providerVars, call, baseline, snapshot, answer, first, flakyVars>>

BaselineFrom == call.from - (call.to - call.from)

\* Mutant: the baseline ends where the current window does.
BaselineToLate == call.to

BaselineTo == call.from

ReadBaseline ==
  /\ pc = "baseline"
  /\ baseline' = Listed(BaselineFrom, BaselineTo)
  /\ snapshot' = BuildPerformanceSnapshot(FilterByWorkflow(current), FilterByWorkflow(baseline'))
  /\ Return("snapshot")
  /\ UNCHANGED <<providerVars, call, current, first, flakyVars>>

-----------------------------------------------------------------------------
(* AnalyzeFlakyTests.                                                       *)

\* Mutant: only what the caller asks for is capped, not the default.
LookbackUncapped ==
  IF call.days <= 0 THEN DefaultLookback ELSE Lesser(call.days, MaxLookback)

Lookback == Lesser(IF call.days <= 0 THEN DefaultLookback ELSE call.days, MaxLookback)

\* The list cannot be read.
RunsUnread ==
  /\ pc = "runs"
  /\ \E err \in Errors : Return(MapError(err))
  /\ UNCHANGED <<providerVars, call, current, baseline, snapshot, first, flakyVars>>

ReadRuns ==
  /\ pc = "runs"
  /\ current' = Listed(clock - Lookback * Day, clock)
  /\ pc' = "logs"
  /\ UNCHANGED <<providerVars, call, baseline, snapshot, answer, first, flakyVars>>

Scanned == FilterByWorkflow(current)

RunFailed(run) == run.conclusion = "failure" \/ run.status = "failure"

InLoop == pc = "logs" /\ next <= Len(Scanned)

SkipRun ==
  /\ InLoop
  /\ ~RunFailed(Scanned[next])
  /\ next' = next + 1
  /\ UNCHANGED <<providerVars, call, pc, current, baseline, snapshot, answer, first,
                 failedRuns, aggregates, top, named>>

\* The logs of a failed run cannot be read; it has been counted by then.
LogsUnread ==
  /\ InLoop
  /\ RunFailed(Scanned[next])
  /\ failedRuns' = failedRuns + 1
  /\ next' = next + 1
  /\ UNCHANGED <<providerVars, call, pc, current, baseline, snapshot, answer, first,
                 aggregates, top, named>>

Entry(test) ==
  IF test \in DOMAIN aggregates THEN aggregates[test] ELSE [count |-> 0, lastSeenAt |-> NoTime]

\* Mutant: the runs are taken to come oldest first.
SeenInLast(test, run) ==
  [count |-> Entry(test).count + 1, lastSeenAt |-> run.updated]

SeenIn(test, run) ==
  [count |-> Entry(test).count + 1,
   lastSeenAt |-> IF run.updated > Entry(test).lastSeenAt
                  THEN run.updated ELSE Entry(test).lastSeenAt]

\* extractTestNames: the names that a text mentions, each once.
TestNames == SUBSET Tests

\* The logs of a failed run name some tests, whatever attempt of the
\* run they are of by now.
ReadRunLogs(names) ==
  /\ InLoop
  /\ RunFailed(Scanned[next])
  /\ failedRuns' = failedRuns + 1
  /\ aggregates' = [t \in DOMAIN aggregates \cup names |->
                      IF t \in names THEN SeenIn(t, Scanned[next]) ELSE aggregates[t]]
  /\ named' = [i \in DOMAIN named \cup {next} |-> IF i = next THEN names ELSE named[i]]
  /\ next' = next + 1
  /\ UNCHANGED <<providerVars, call, pc, current, baseline, snapshot, answer, first, top>>

\* Tests come out of the map in any order, and the sort keeps none for equal counts.
Report ==
  /\ pc = "logs"
  /\ next > Len(Scanned)
  /\ \E records \in SetToSeqs(DOMAIN aggregates) :
       /\ \A i, j \in DOMAIN records :
            i < j => aggregates[records[i]].count >= aggregates[records[j]].count
       /\ top' = SubSeq(records, 1, Lesser(Len(records), TopSize))
  /\ Return("report")
  /\ UNCHANGED <<providerVars, call, current, baseline, snapshot, first, next, failedRuns,
                 aggregates, named>>

-----------------------------------------------------------------------------
(* The provider's runs change between the two lists of a comparison.        *)

Changes ==
  /\ pc = "baseline"
  /\ clock + TicksPerSecond <= End
  /\ clock' = clock + TicksPerSecond
  /\ UNCHANGED <<call, pc, current, baseline, snapshot, answer, first, flakyVars>>

Begun(run) ==
  [run EXCEPT !.status = "in_progress", !.conclusion = "", !.started = clock', !.updated = clock']

\* Another run of a workflow.
RunStarts ==
  /\ Changes
  /\ \E run \in ToSet(first) :
       history' = Cons([Begun(run) EXCEPT !.id = Len(first) + clock', !.created = clock'], history)

RunFinishes ==
  /\ Changes
  /\ \E i \in DOMAIN history, outcome \in {"success", "failure"} :
       /\ history[i].conclusion = ""
       /\ history' = [history EXCEPT ![i].status = "completed", ![i].conclusion = outcome,
                                     ![i].updated = clock']

\* A finished run is run again: it keeps its id and the time of its creation.
RunsAgain ==
  /\ Changes
  /\ \E i \in DOMAIN history :
       /\ history[i].conclusion # ""
       /\ history' = [history EXCEPT ![i] = Begun(history[i])]

RunIsDeleted ==
  /\ Changes
  /\ \E i \in DOMAIN history : history' = RemoveAt(history, i)

-----------------------------------------------------------------------------

Next ==
  \/ Reject
  \/ Accept
  \/ ListFails
  \/ ReadCurrent
  \/ ReadBaseline
  \/ RunsUnread
  \/ ReadRuns
  \/ SkipRun
  \/ LogsUnread
  \/ \E names \in TestNames : ReadRunLogs(names)
  \/ Report
  \/ RunStarts
  \/ RunFinishes
  \/ RunsAgain
  \/ RunIsDeleted

Spec == Init /\ [][Next]_vars

-----------------------------------------------------------------------------
(* Properties.                                                              *)

Runs == UNION {ToSet(s) : s \in {history, first, current, baseline}}

\* The variables keep to their types; no more runs are listed than the limit or ten
\* pages, and none is older than the longest lookback, the default one included.
TypeOK ==
  /\ Runs \subseteq RunSpace
  /\ clock \in Start .. End
  /\ call \in Calls
  /\ pc \in {"idle", "current", "baseline", "runs", "logs", "answered"}
  /\ {Len(current), Len(baseline)} \subseteq 0 .. Longest
  /\ call.tool = "flaky" =>
       \A run \in ToSet(current) : run.created >= Second(clock - MaxLookback * Day)
  /\ next \in 1 .. Longest + 1
  /\ failedRuns \in 0 .. Longest
  /\ DOMAIN aggregates \subseteq Tests
  /\ \A t \in DOMAIN aggregates : aggregates[t] \in [count : 1 .. Longest, lastSeenAt : Nat]
  /\ ToSet(top) \subseteq Tests /\ Len(top) <= TopSize
  /\ answer \in Codes \cup {"none", "snapshot", "report"}
  /\ DOMAIN named \subseteq 1 .. Longest /\ UNION Range(named) \subseteq Tests

Ids(runs) == {run.id : run \in ToSet(runs)}

\* A run that the list for a window should have had, but that the limit, or the end of
\* the tenth page, cut off.
CutOff(run, runs) ==
  Len(runs) = Longest /\ \A newer \in ToSet(runs) : newer.created >= run.created

\* Every run of the workflow that was there all the time and was created in the
\* time compared or in the same length of time before it counts in its window, and
\* in no other; except that a run created in the second in which the windows meet
\* counts in both, and that the limit or the last page, which count runs of every
\* workflow, leave out the oldest of a window.
WindowsCover ==
  answer = "snapshot" =>
    LET before == 2 * call.from - call.to
        inCurrent(run)  == run.id \in Ids(FilterByWorkflow(current))
        inBaseline(run) == run.id \in Ids(FilterByWorkflow(baseline))
    IN  \A run \in {r \in ToSet(FilterByWorkflow(first)) : r.id \in Ids(history)} :
          /\ run.created > call.from /\ run.created <= call.to =>
               ~inBaseline(run) /\ (inCurrent(run) \/ CutOff(run, current))
          /\ run.created < Second(call.from) /\ run.created >= before =>
               ~inCurrent(run) /\ (inBaseline(run) \/ CutOff(run, baseline))
          /\ run.created = Second(call.from) =>
               /\ inCurrent(run) \/ CutOff(run, current)
               /\ inBaseline(run) \/ CutOff(run, baseline)
          /\ run.created > call.to \/ run.created < Second(before) =>
               ~inCurrent(run) /\ ~inBaseline(run)

\* What get_run tells of a run's times (normalizeRun).
NormalizedRun(run) ==
  [duration |-> IF run.started # NoTime /\ run.updated > run.started
                THEN run.updated - run.started ELSE 0,
   queue    |-> IF run.started # NoTime /\ run.started > run.created
                THEN run.started - run.created ELSE 0]

\* What the metrics of a window should say of its runs.
Agrees(m, runs) ==
  LET told     == [i \in DOMAIN runs |-> NormalizedRun(runs[i])]
      queue    == SumOf([i \in DOMAIN runs |-> told[i].queue])
      class(c) == IF c \in DOMAIN m.breakdown THEN m.breakdown[c] ELSE 0
  IN  /\ m.total = Len(runs)
      /\ m.total * m.queue <= queue /\ (m.total > 0 => queue < m.total * (m.queue + 1))
      /\ (\A i \in DOMAIN runs : runs[i].started # NoTime) =>
           /\ 2 * Quantify(DOMAIN runs, LAMBDA i : told[i].duration < m.median) <= m.total
           /\ 2 * Quantify(DOMAIN runs, LAMBDA i : told[i].duration > m.median) <= m.total
      /\ m.total = m.successes + class("test_or_build_failure") + class("infra_timeout")
                   + class("config_error") + class("stale") + class("neutral")
                   + class("unknown")
      /\ class("unknown") = Quantify(DOMAIN runs, LAMBDA i : runs[i].conclusion = "")
      /\ m.candidates <= Lesser(m.successes, class("test_or_build_failure"))

\* A snapshot agrees with what get_run tells of each run in it: its queue time is
\* their average, and its median splits their durations in two, if all of them have
\* been started.  Each run is a success or in one class of the breakdown, one that
\* has not finished too, and no more commits are flaky than runs have failed or have
\* succeeded.
SnapshotMatchesRuns ==
  answer = "snapshot" =>
    /\ Agrees(snapshot.current, FilterByWorkflow(current))
    /\ Agrees(snapshot.baseline, FilterByWorkflow(baseline))

\* The map says of each test in how many logs it was named and when the latest of
\* these runs was updated, in whatever order they came.  A test has never failed
\* more often than there are failed runs whose logs could be read, and none that the
\* report leaves out failed more often than one that it names.
FlakyCountsMatch ==
  LET seenIn(t) == {i \in DOMAIN named : t \in named[i]}
      unread    == {i \in 1 .. next - 1 : RunFailed(Scanned[i])} \ DOMAIN named
  IN  pc = "logs" \/ answer = "report" =>
        /\ DOMAIN aggregates = UNION Range(named)
        /\ \A t \in DOMAIN aggregates :
             /\ aggregates[t].count = Cardinality(seenIn(t))
             /\ aggregates[t].count + Cardinality(unread) <= failedRuns
             /\ aggregates[t].lastSeenAt = Max({Scanned[i].updated : i \in seenIn(t)})
        /\ answer = "report" =>
             \A t \in DOMAIN aggregates \ ToSet(top) :
               /\ Len(top) = TopSize
               /\ \A i \in DOMAIN top : aggregates[top[i]].count >= aggregates[t].count
=============================================================================
