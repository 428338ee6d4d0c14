---------------------------- MODULE MCTelemetry -----------------------------
(***************************************************************************)
(* Three calls at once and a window of twenty-two latencies, long enough   *)
(* for the percentile to be neither the greatest nor next to it.  The      *)
(* process has just started, or has already observed twenty-one calls of   *)
(* one tool, so that the window fills up and slides.                       *)
(***************************************************************************)
EXTENDS Telemetry

CONSTANTS c1, c2, c3, t1, t2

MCCalls == {c1, c2, c3}
MCTools == {t1, t2}

Observation(tool, latency, success, confidence) ==
  [tool |-> tool, latency |-> latency, success |-> success, confidence |-> confidence]

\* What the three calls tell: latencies below, among and above those of the past.
MCNext ==
  {Observation(t1, 1, TRUE, 90), Observation(t1, 99, FALSE, NoConfidence),
   Observation(t1, 37, TRUE, 40), Observation(t2, 2, TRUE, NoConfidence)}

\* Twenty-one calls of one tool whose latencies rise, fall, or come in no order with
\* some of them equal; each second call told a confidence and the last one failed.
PastOf(latency(_)) ==
  [i \in 1 .. 21 |-> Observation(t1, latency(i), i # 21, IF i % 2 = 0 THEN 50 ELSE NoConfidence)]

Pasts ==
  {<<>>, PastOf(LAMBDA i : 2 * i), PastOf(LAMBDA i : 44 - 2 * i), PastOf(LAMBDA i : (i * 8) % 13)}

MCObservations == MCNext \cup UNION {ToSet(past) : past \in Pasts}

\* The states of Init, and those after each past, in which the last export failed or
\* there is no path to export to.
MCInit ==
  /\ pc     = [c \in Calls |-> "idle"]
  /\ obs \in [Calls -> MCNext]
  /\ holder = Nobody
  /\ exporting \in BOOLEAN
  /\ \E past \in Pasts :
       /\ byTool = [t \in Tools |-> IF t = t1 THEN FoldLeft(Observed, NoMetric, past) ELSE NoMetric]
       /\ seen   = [t \in Tools |-> IF t = t1 THEN past ELSE <<>>]
       /\ failed = (exporting /\ past # <<>>)
  /\ file   = [state |-> "absent", content |-> <<>>]

MCSpec == MCInit /\ [][Next]_vars /\ Fairness
=============================================================================
