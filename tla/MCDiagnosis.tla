---------------------------- MODULE MCDiagnosis -----------------------------
(***************************************************************************)
(* Runs of up to two jobs, of every kind that the loop tells apart, and    *)
(* the references of each form with one argument wrong at a time.  Logs of *)
(* up to four lines: a rule found often in one line or once in several,    *)
(* with one pattern or two, rules that tie, and blank lines.  A line that  *)
(* is cut has fewer matches, or the one of a word that it ends within.     *)
(***************************************************************************)
EXTENDS Diagnosis

URL    == [provider |-> "known", runURL |-> "run", runID |-> 0, repository |-> "blank"]
ID     == [provider |-> "known", runURL |-> "blank", runID |-> 1, repository |-> "owner/name"]
Latest == [ID EXCEPT !.runID = 0]

MCReferences ==
  {URL, ID, Latest}
    \cup {[ref EXCEPT !.provider = "unknown"] : ref \in {URL, ID, Latest}}
    \cup {[ref EXCEPT !.repository = "bad"] : ref \in {ID, Latest}}
    \cup {[URL EXCEPT !.runURL = "bad"], [Latest EXCEPT !.repository = "blank"]}

Held(says, deployment) ==
  [conclusion |-> "failure", steps |-> FALSE, checkRunURL |-> "parsed", says |-> says,
   deployment |-> deployment]

MCJobs ==
  {Held("nothing", FALSE), Held("other", TRUE), Held("review", TRUE), Held("branch", FALSE),
   Held("rejected", TRUE), Held("rejected", FALSE),
   [Held("review", TRUE) EXCEPT !.conclusion = "other"],
   [Held("branch", TRUE) EXCEPT !.steps = TRUE],
   [Held("branch", TRUE) EXCEPT !.checkRunURL = "foreign"],
   [Held("nothing", FALSE) EXCEPT !.conclusion = "success"]}

MCJobLists == BoundedSeq(MCJobs, 2)

Found(category, pattern, times) ==
  [category : {category}, pattern : {pattern}, nth : 1 .. times]

Tests(times)    == Found("test_failure", 1, times)
Timeout         == Found("infra_timeout", 1, 1)
BothPatterns    == Timeout \cup Found("infra_timeout", 2, 1)
Outage(pattern) == Found("dependency_outage", pattern, 1)

Plain           == Found("none", 1, 1)

MCLogs ==
  {<<>>, <<{}, {}>>, <<Plain>>, <<Outage(5), Plain, Outage(1), Tests(2)>>,
   <<Timeout, Tests(3), Timeout>>, <<Tests(1), Timeout, {}, BothPatterns>>,
   <<Tests(9), Tests(1) \cup Outage(2)>>, <<BothPatterns, BothPatterns, BothPatterns>>,
   <<Outage(1), Timeout, Tests(4), Outage(1)>>}

MCPieces ==
  {<<Tests(3), Tests(1)>>, <<Tests(4), Tests(3)>>, <<BothPatterns, Timeout>>,
   <<Plain, {}>>, <<Plain, Found("test_failure", 2, 1)>>, <<Timeout, Plain>>}
=============================================================================
