--------------------------- MODULE MCGithubClient ---------------------------
(***************************************************************************)
(* One call of the client (calls share nothing) with the code's three      *)
(* attempts, against every class of answer.                                *)
(***************************************************************************)
EXTENDS GithubClient

CONSTANT r1

MCRequests == {r1}

\* Rate limits come as 429 and as a 403 whose remaining quota is 0.
MCResponses ==
  [status : {"2xx", "401", "404", "429", "5xx", "other"}, exhausted : {FALSE}]
    \cup {[status |-> "401", exhausted |-> TRUE], [status |-> "5xx", exhausted |-> TRUE]}
=============================================================================
