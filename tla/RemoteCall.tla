----------------------------- MODULE RemoteCall -----------------------------
(***************************************************************************)
(* What one call of the GitHub client (internal/githubapi/client.go)       *)
(* promises its caller, whatever the network does: a provider operation    *)
(* runs at most once per copy the client sends, "ok" is reported only for  *)
(* an operation that ran, and an error promises nothing: the operation may *)
(* have run before the error was reported, and may still run after it.     *)
(***************************************************************************)
EXTENDS Naturals

CONSTANTS
  Requests,      \* the calls
  MaxAttempts    \* the most copies of a call's request that are ever sent

VARIABLES
  status,        \* how each call stands, for its caller
  ran            \* the copies of each call that the provider has executed

remoteVars == <<status, ran>>

RemoteInit ==
  /\ status = [r \in Requests |-> "idle"]
  /\ ran    = [r \in Requests |-> {}]

Start(r) ==
  /\ status[r] = "idle"
  /\ status' = [status EXCEPT ![r] = "running"]
  /\ UNCHANGED ran

\* A late copy runs even after the caller has its answer.
Execute(r) ==
  /\ status[r] # "idle"
  /\ \E try \in 1 .. MaxAttempts :
       /\ try \notin ran[r]
       /\ ran' = [ran EXCEPT ![r] = @ \cup {try}]
  /\ UNCHANGED status

ReturnOk(r) ==
  /\ status[r] = "running"
  /\ ran[r] # {}
  /\ status' = [status EXCEPT ![r] = "ok"]
  /\ UNCHANGED ran

ReturnError(r) ==
  /\ status[r] = "running"
  /\ status' = [status EXCEPT ![r] = "failed"]
  /\ UNCHANGED ran

RemoteNext ==
  \E r \in Requests : Start(r) \/ Execute(r) \/ ReturnOk(r) \/ ReturnError(r)

RemoteSpec == RemoteInit /\ [][RemoteNext]_remoteVars
=============================================================================
