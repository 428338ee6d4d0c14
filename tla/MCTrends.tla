------------------------------ MODULE MCTrends ------------------------------
(***************************************************************************)
(* Four runs of four kinds, created in and around two windows of two       *)
(* seconds that meet inside of a second, and pages that end after three    *)
(* runs, before the limit.  The default lookback is above the greatest.    *)
(***************************************************************************)
EXTENDS Trends

\* Kinds of runs, with the times at which they start and end after their creation.
Kind(names, sha, conclusion, wait, time) ==
  [names |-> names, sha |-> sha, conclusion |-> conclusion, wait |-> wait, time |-> time]

Kinds ==
  {Kind({"ci"}, "a", "success", 2, 4), Kind({"ci", "fix"}, "a", "failure", 0, 2),
   Kind({"ci"}, "b", "", 0, 0), Kind({"other"}, "", "timed_out", NoTime, 6)}

RunOf(kind, n, created) ==
  [id |-> n, created |-> created, names |-> kind.names, sha |-> kind.sha,
   conclusion |-> kind.conclusion,
   status  |-> IF kind.conclusion = "" THEN "in_progress" ELSE "completed",
   started |-> IF kind.wait = NoTime THEN NoTime ELSE created + kind.wait,
   updated |-> created + kind.time + (IF kind.wait = NoTime THEN 0 ELSE kind.wait)]

\* When the runs were created, newest first.
Created == {<<14, 14, 12, 10>>, <<14, 10, 10, 8>>, <<16, 10, 8, 6>>, <<10, 8, 8, 6>>}

MCHistories ==
  {[i \in 1 .. 4 |-> RunOf(kinds[i], 5 - i, times[i])] :
     kinds \in [1 .. 4 -> Kinds], times \in Created}

Compare(from, to, workflow) ==
  [tool |-> "compare", valid |-> TRUE, workflow |-> workflow, from |-> from, to |-> to]
Flaky(days, workflow) ==
  [tool |-> "flaky", valid |-> TRUE, workflow |-> workflow, days |-> days]

\* One window begins inside of a second, and the last one's baseline is still open.
MCCalls ==
  {Compare(11, 15, "ci"), Compare(10, 14, ""), Compare(10, 10, "ci"),
   Compare(25, 30, "ci"), [Compare(11, 15, "ci") EXCEPT !.valid = FALSE],
   Flaky(0, "ci"), Flaky(5, ""), [Flaky(1, "ci") EXCEPT !.valid = FALSE]}
=============================================================================
