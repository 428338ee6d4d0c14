---------------------------- MODULE MCRerunTool -----------------------------
(***************************************************************************)
(* Instances of RerunTool.  Two calls with two attempts each: the last     *)
(* attempt and one that is tried again, one call's request outliving its   *)
(* process while the other runs under another configuration.               *)
(***************************************************************************)
EXTENDS RerunTool, TLC

CONSTANTS c1, c2

MCCalls == {c1, c2}
MCOne   == {c1}
MCNone  == {}

Valid == [provider |-> "registered", reason |-> "given", repository |-> "owner/name", runID |-> 1]

\* One argument wrong at a time, and none.
MCInputs ==
  {Valid, [Valid EXCEPT !.provider = "unknown"], [Valid EXCEPT !.reason = "blank"],
   [Valid EXCEPT !.repository = "bad"], [Valid EXCEPT !.runID = 0]}

MCFewInputs == {Valid, [Valid EXCEPT !.reason = "blank"]}

MCResponses ==
  [status : {"2xx", "401", "5xx"}, exhausted : {FALSE}]

MCAllResponses ==
  [status : {"2xx", "401", "404", "429", "5xx", "other"}, exhausted : {FALSE}]

MCSymmetry == Permutations(MCCalls)
=============================================================================
