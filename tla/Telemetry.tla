----------------------------- MODULE Telemetry ------------------------------
(***************************************************************************)
(* internal/telemetry/collector.go: Collector.Observe under the            *)
(* collector's mutex, with the window of latencies and the export of a     *)
(* snapshot that truncates the file before it writes it; tools/registry.go *)
(* calls Observe once in each handler, from as many goroutines as there    *)
(* are tool calls.  Confidence is counted in hundredths.                   *)
(***************************************************************************)
EXTENDS Integers, SequencesExt

CONSTANTS
  Calls,          \* the tool calls
  Tools,
  Observations,   \* what a call may tell: its tool, latency, success and confidence
  Window,         \* the latencies kept for each tool, 2000 in the code
  Nobody

NoConfidence == -1    \* the handler passes a nil pointer

ASSUME TelemetryAssumption ==
  /\ Window \in Nat \ {0}
  /\ Nobody \notin Calls
  /\ \A o \in Observations :
       /\ o.tool \in Tools
       /\ o.latency \in Nat
       /\ o.success \in BOOLEAN
       /\ o.confidence = NoConfidence \/ o.confidence \in Nat

VARIABLES
  pc,          \* where each call stands: "idle", "waiting", "create", "write", "done"
  obs,         \* what it observes
  holder,      \* the call that holds the collector's mutex
  exporting,   \* whether METRICS_EXPORT_PATH is set
  byTool,      \* the collector's metrics
  file,        \* the exported file: "absent", "partial" (or empty) or "whole", and then its snapshot
  seen,        \* history: what has been observed by this process, for each tool
  failed       \* history: whether the last export, or one cut short since, failed

vars == <<pc, obs, holder, exporting, byTool, file, seen, failed>>

NoMetric == [calls |-> 0, errors |-> 0, total |-> 0, latencies |-> <<>>,
             samples |-> 0, confidence |-> 0]

Init ==
  /\ pc     = [c \in Calls |-> "idle"]
  /\ obs \in [Calls -> Observations]
  /\ holder = Nobody
  /\ exporting \in BOOLEAN
  /\ byTool = [t \in Tools |-> NoMetric]
  /\ file   = [state |-> "absent", content |-> <<>>]
  /\ seen   = [t \in Tools |-> <<>>]
  /\ failed = FALSE

-----------------------------------------------------------------------------
(* The metrics.                                                             *)

\* Mutant: the window keeps what came first.
TailingOldest(s, n) == IF Len(s) > n THEN SubSeq(s, 1, n) ELSE s

\* The last n elements of a sequence.
Tailing(s, n) == IF Len(s) > n THEN SubSeq(s, Len(s) - n + 1, Len(s)) ELSE s

\* Mutant: the pointer to the confidence is not compared with nil.
ObservedUnchecked(m, o) ==
  [calls      |-> m.calls + 1,
   errors     |-> m.errors + IF o.success THEN 0 ELSE 1,
   total      |-> m.total + o.latency,
   latencies  |-> Tailing(Append(m.latencies, o.latency), Window),
   samples    |-> m.samples + 1,
   confidence |-> m.confidence + o.confidence]

Observed(m, o) ==
  [calls      |-> m.calls + 1,
   errors     |-> m.errors + IF o.success THEN 0 ELSE 1,
   total      |-> m.total + o.latency,
   latencies  |-> Tailing(Append(m.latencies, o.latency), Window),
   samples    |-> m.samples + IF o.confidence = NoConfidence THEN 0 ELSE 1,
   confidence |-> m.confidence + IF o.confidence = NoConfidence THEN 0 ELSE o.confidence]

\* sort.Slice: a value's place is the number of values that do not come after it.
NotAfter(values, i) ==
  {j \in DOMAIN values : values[j] < values[i] \/ (values[j] = values[i] /\ j <= i)}

Sorted(values) ==
  [n \in DOMAIN values |->
     values[CHOOSE i \in DOMAIN values : Cardinality(NotAfter(values, i)) = n]]

\* Mutant: the index is rounded up.
percentile95RoundedUp(values) ==
  IF values = <<>> THEN 0 ELSE Sorted(values)[(((Len(values) - 1) * 95 + 99) \div 100) + 1]

\* The code's int(float64(n - 1) * 0.95) is exact for each length up to 2000.
percentile95(values) ==
  IF values = <<>> THEN 0 ELSE Sorted(values)[(((Len(values) - 1) * 95) \div 100) + 1]

\* A metric as it is exported; a tool that has not been observed has none.
Exported(m) ==
  [calls   |-> m.calls, errors |-> m.errors,
   p95     |-> percentile95(m.latencies),
   average |-> m.total \div m.calls,
   samples |-> m.samples, confidence |-> m.confidence]

Snapshot == [t \in {u \in Tools : byTool[u].calls > 0} |-> Exported(byTool[t])]

-----------------------------------------------------------------------------
(* Observe.                                                                 *)

\* A handler is done with its tool call and calls Observe.
Enter(c) ==
  /\ pc[c] = "idle"
  /\ pc' = [pc EXCEPT ![c] = "waiting"]
  /\ UNCHANGED <<obs, holder, exporting, byTool, file, seen, failed>>

\* Mutant: the mutex is released before the export.
UpdateUnlocks(c) ==
  /\ pc[c] = "waiting"
  /\ holder = Nobody
  /\ LET t == obs[c].tool
     IN  /\ byTool' = [byTool EXCEPT ![t] = Observed(@, obs[c])]
         /\ seen' = [seen EXCEPT ![t] = Append(@, obs[c])]
  /\ pc' = [pc EXCEPT ![c] = IF exporting THEN "create" ELSE "done"]
  /\ UNCHANGED <<obs, holder, exporting, file, failed>>

\* Observe gets the mutex and updates the metric of the tool.
Update(c) ==
  /\ pc[c] = "waiting"
  /\ holder = Nobody
  /\ LET t == obs[c].tool
     IN  /\ byTool' = [byTool EXCEPT ![t] = Observed(@, obs[c])]
         /\ seen' = [seen EXCEPT ![t] = Append(@, obs[c])]
  /\ holder' = IF exporting THEN c ELSE Nobody
  /\ pc' = [pc EXCEPT ![c] = IF exporting THEN "create" ELSE "done"]
  /\ UNCHANGED <<obs, exporting, file, failed>>

Unlock(c) ==
  /\ pc' = [pc EXCEPT ![c] = "done"]
  /\ holder' = Nobody

\* writeSnapshotLocked: os.Create truncates the file that is there.
CreateFile(c) ==
  /\ pc[c] = "create"
  /\ pc' = [pc EXCEPT ![c] = "write"]
  /\ file' = [state |-> "partial", content |-> <<>>]
  /\ UNCHANGED <<obs, holder, exporting, byTool, seen, failed>>

WriteFile(c) ==
  /\ pc[c] = "write"
  /\ Unlock(c)
  /\ file' = [state |-> "whole", content |-> Snapshot]
  /\ failed' = FALSE
  /\ UNCHANGED <<obs, exporting, byTool, seen>>

\* Mutant: the error path does not release the mutex.
ExportFailsLocked(c) ==
  /\ pc[c] \in {"create", "write"}
  /\ pc' = [pc EXCEPT ![c] = "done"]
  /\ failed' = TRUE
  /\ UNCHANGED <<obs, holder, exporting, byTool, file, seen>>

\* MkdirAll, Create or Write fails; Observe drops the error.
ExportFails(c) ==
  /\ pc[c] \in {"create", "write"}
  /\ Unlock(c)
  /\ failed' = TRUE
  /\ UNCHANGED <<obs, exporting, byTool, file, seen>>

\* The process ends and another starts: its metrics are empty, the file stays.
Restart ==
  /\ \E c \in Calls : pc[c] \notin {"idle", "done"}
  /\ pc' = [c \in Calls |-> IF pc[c] = "idle" THEN "idle" ELSE "done"]
  /\ holder' = Nobody
  /\ byTool' = [t \in Tools |-> NoMetric]
  /\ seen' = [t \in Tools |-> <<>>]
  /\ failed' = FALSE
  /\ UNCHANGED <<obs, exporting, file>>

-----------------------------------------------------------------------------

ObserveStep(c) == CreateFile(c) \/ WriteFile(c) \/ ExportFails(c)

Next ==
  \/ \E c \in Calls : Enter(c) \/ Update(c) \/ ObserveStep(c)
  \/ Restart

\* A goroutine that holds the mutex goes on; sync.Mutex starves no waiter.
Fairness == \A c \in Calls : WF_vars(ObserveStep(c)) /\ SF_vars(Update(c))

Spec == Init /\ [][Next]_vars /\ Fairness

-----------------------------------------------------------------------------
(* Properties.                                                              *)

Metrics ==
  [calls : Nat, errors : Nat, total : Nat, latencies : Seq(Nat), samples : Nat, confidence : Nat]

\* The variables keep to their types.
TypeOK ==
  /\ pc \in [Calls -> {"idle", "waiting", "create", "write", "done"}]
  /\ obs \in [Calls -> Observations]
  /\ holder \in Calls \cup {Nobody}
  /\ exporting \in BOOLEAN
  /\ byTool \in [Tools -> Metrics]
  /\ file.state \in {"absent", "partial", "whole"}
  /\ DOMAIN file.content \subseteq Tools
  /\ seen \in [Tools -> Seq(Observations)]
  /\ failed \in BOOLEAN

\* The number of positions of s whose element satisfies Test.
Count(s, Test(_)) == Cardinality({i \in DOMAIN s : Test(s[i])})

SumOf(values) ==
  LET sum[i \in 0 .. Len(values)] == IF i = 0 THEN 0 ELSE sum[i - 1] + values[i]
  IN  sum[Len(values)]

Confident(o) == o.confidence # NoConfidence

\* The latencies and the confidences of a sequence of observations.
Latencies(s)   == [i \in DOMAIN s |-> s[i].latency]
Confidences(s) == [i \in DOMAIN s |-> IF Confident(s[i]) THEN s[i].confidence ELSE 0]

\* The metrics that Observe maintains one call at a time say of each tool what
\* the calls this process has observed say: their number, failures, latencies
\* and confidences, and, for the percentile, the latencies of the last Window.
MetricsMatchHistory ==
  \A t \in Tools :
    LET m == byTool[t]
        s == seen[t]
    IN  /\ m.calls = Len(s)
        /\ m.errors = Count(s, LAMBDA o : ~o.success)
        /\ m.total = SumOf(Latencies(s))
        /\ m.samples = Count(s, Confident)
        /\ m.confidence = SumOf(Confidences(s))
        /\ Len(m.latencies) = IF Len(s) < Window THEN Len(s) ELSE Window
        /\ \A i \in DOMAIN m.latencies :
             m.latencies[i] = s[Len(s) - Len(m.latencies) + i].latency

\* The exported percentile splits the window: 95 in a hundred of the other
\* latencies, rounded down, are not above it, and the rest not below it.
P95SplitsWindow ==
  \A t \in Tools : LET w == byTool[t].latencies
                       n == Len(w) - 1
                       p == percentile95(w) IN
    w # <<>> =>
      /\ Count(w, LAMBDA v : v <= p) >= (n * 95) \div 100 + 1
      /\ Count(w, LAMBDA v : v >= p) >= Len(w) - (n * 95) \div 100

\* Between calls of Observe the exported file is the snapshot of the metrics in
\* memory, unless the last export failed; without a path there is no file.
ExportIsCurrent ==
  /\ exporting /\ holder = Nobody /\ ~failed /\ (\E t \in Tools : seen[t] # <<>>)
       => file = [state |-> "whole", content |-> Snapshot]
  /\ ~exporting => file.state = "absent"

\* Each handler gets past Observe: no failure of the export holds the mutex.
ObserveReturns == \A c \in Calls : pc[c] = "waiting" ~> pc[c] = "done"
=============================================================================
