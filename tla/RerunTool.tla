----------------------------- MODULE RerunTool ------------------------------
(***************************************************************************)
(* The one tool that changes something: pipeline.rerun, from the MCP       *)
(* handler (tools/registry.go, rerun) through Service.Rerun                *)
(* (internal/service/service.go) to the client's POST, the audit event and *)
(* the answer, with calls in progress at once, a process that may end at   *)
(* any step and start again with another configuration, and copies of      *)
(* requests that outlive it.                                               *)
(*                                                                         *)
(* A tool call is a value of Requests: it makes one request of the client  *)
(* of GithubClient, whose variables this module shares.  Append is taken   *)
(* as AuditStore shows it to be: nil with the event's line in the log, or  *)
(* an error without it.                                                    *)
(***************************************************************************)
EXTENDS GithubClient

CONSTANT
  Inputs         \* the arguments a tool call may come with

\* The arguments that the handler tells apart: an unregistered provider, a blank
\* reason, a repository that is not owner/name, a run id that is not positive.
InputSpace ==
  [provider : {"registered", "unknown"}, reason : {"given", "blank"},
   repository : {"owner/name", "bad"}, runID : {0, 1}]

ASSUME RerunAssumption ==
  /\ Inputs \subseteq InputSpace
  /\ Decoded = {}    \* Client.Rerun passes no value to decode into

VARIABLES
  up,        \* whether the server process runs
  config,    \* its configuration: are mutations disabled, is there a write token
  stage,     \* "new", "client", "answer", "answered", or "gone" with its process
  input,     \* the arguments of each call that has been received
  answer,    \* its result: "requested", or the code of its ToolError
  trail,     \* the audit events in the log
  auditErr,  \* whether emitAudit returned an error to Service.Rerun
  under      \* history: the configuration each call was received under

callVars == <<stage, input, answer, under>>
logVars  == <<trail, auditErr>>
procVars == <<up, config>>
toolVars == <<up, config, stage, input, answer, trail, auditErr, under>>
vars     == <<clientVars, toolVars>>

Calls     == Requests
NoInput   == [provider |-> "none"]
Outcomes  == {"success", "failed"}
Events    == [call : Calls, outcome : Outcomes]

\* config.validate: mutations need a write token.  Service.Rerun checks the
\* first and Client.Rerun the second, which a running server always has.
Loadable(c) == ~c.disableMutations => c.writeToken

Configs == {c \in [disableMutations : BOOLEAN, writeToken : BOOLEAN] : Loadable(c)}

Init ==
  /\ ClientInit
  /\ up       = TRUE
  /\ config \in Configs
  /\ stage    = [r \in Calls |-> "new"]
  /\ input    = [r \in Calls |-> NoInput]
  /\ answer   = [r \in Calls |-> "none"]
  /\ trail    = {}
  /\ auditErr = [r \in Calls |-> FALSE]
  /\ under    = [r \in Calls |-> config]

-----------------------------------------------------------------------------
(* Service.Rerun.                                                           *)

Invalid(in) ==
  \/ in.provider = "unknown"
  \/ in.reason = "blank"
  \/ in.repository = "bad"
  \/ in.runID <= 0

\* A call arrives with its arguments.
Arrives(r, in) ==
  /\ up
  /\ stage[r] = "new"
  /\ input' = [input EXCEPT ![r] = in]
  /\ under' = [under EXCEPT ![r] = config]

\* The early returns of Service.Rerun: nothing is sent, nothing is audited.
Reject(r, in) ==
  /\ Arrives(r, in)
  /\ Invalid(in) \/ config.disableMutations
  /\ answer' = [answer EXCEPT ![r] = IF Invalid(in) THEN "INVALID_INPUT" ELSE "UNAUTHORIZED"]
  /\ stage' = [stage EXCEPT ![r] = "answer"]
  /\ UNCHANGED <<clientVars, procVars, logVars>>

\* Mutant: the configuration is not looked at.
AdmitUngated(r, in) ==
  /\ Arrives(r, in)
  /\ ~Invalid(in)
  /\ Call(r)
  /\ stage' = [stage EXCEPT ![r] = "client"]
  /\ UNCHANGED <<procVars, answer, logVars>>

\* Service.Rerun calls provider.Rerun.
Admit(r, in) ==
  /\ Arrives(r, in)
  /\ ~Invalid(in)
  /\ ~config.disableMutations
  /\ Call(r)
  /\ stage' = [stage EXCEPT ![r] = "client"]
  /\ UNCHANGED <<procVars, answer, logVars>>

\* A step of provider.Rerun.
Request(r) ==
  /\ up
  /\ stage[r] = "client"
  /\ ClientStep(r)
  /\ UNCHANGED toolVars

\* Mutant: the outcome is not taken from the error.
OutcomeAlwaysSuccess(r) == "success"

Outcome(r) == IF lastErr[r] = "none" THEN "success" ELSE "failed"

\* Mutant: an error of provider.Rerun returns before the audit event.
EmitAuditOnSuccess(r) ==
  /\ up
  /\ stage[r] = "client"
  /\ pc[r] = "done"
  /\ trail' = IF lastErr[r] = "none" THEN trail \cup {[call |-> r, outcome |-> "success"]} ELSE trail
  /\ answer' = [answer EXCEPT ![r] = IF lastErr[r] = "none" THEN "requested"
                                     ELSE MapError(lastErr[r])]
  /\ stage' = [stage EXCEPT ![r] = "answer"]
  /\ UNCHANGED <<clientVars, procVars, input, under, auditErr>>

\* provider.Rerun has returned: Service.Rerun emits the audit event, logs or
\* drops the error of Append, and returns its result.
EmitAudit(r) ==
  /\ up
  /\ stage[r] = "client"
  /\ pc[r] = "done"
  /\ \/ /\ trail' = trail \cup {[call |-> r, outcome |-> Outcome(r)]}
        /\ UNCHANGED auditErr
     \/ /\ auditErr' = [auditErr EXCEPT ![r] = TRUE]
        /\ UNCHANGED trail
  /\ answer' = [answer EXCEPT ![r] = IF lastErr[r] = "none" THEN "requested"
                                     ELSE MapError(lastErr[r])]
  /\ stage' = [stage EXCEPT ![r] = "answer"]
  /\ UNCHANGED <<clientVars, procVars, input, under>>

\* The handler returns its result.  What Observe does with the call before that
\* is in Telemetry, where handlers interleave.
Answer(r) ==
  /\ up
  /\ stage[r] = "answer"
  /\ stage' = [stage EXCEPT ![r] = "answered"]
  /\ UNCHANGED <<clientVars, procVars, input, answer, under, logVars>>

-----------------------------------------------------------------------------
(* The environment.                                                         *)

\* The MCP client cancels a call, or SIGTERM cancels the server's context.
CancelCall(r) ==
  /\ up
  /\ stage[r] = "client"
  /\ Cancel(r)
  /\ UNCHANGED toolVars

Network ==
  /\ NetworkStep
  /\ UNCHANGED toolVars

\* The process ends, by a signal or a fault, with whatever it was doing.
Crash ==
  /\ up
  /\ up' = FALSE
  /\ stage' = [r \in Calls |-> IF stage[r] \in {"client", "answer"} THEN "gone" ELSE stage[r]]
  /\ UNCHANGED <<clientVars, config, input, answer, under, logVars>>

\* Mutant: the configuration is not validated.
StartServerUnvalidated ==
  /\ ~up
  /\ up' = TRUE
  /\ config' \in [disableMutations : BOOLEAN, writeToken : BOOLEAN]
  /\ UNCHANGED <<clientVars, callVars, logVars>>

\* main.run: a new process with the configuration of its environment.
StartServer ==
  /\ ~up
  /\ up' = TRUE
  /\ config' \in Configs
  /\ UNCHANGED <<clientVars, callVars, logVars>>

-----------------------------------------------------------------------------

Next ==
  \/ \E r \in Calls : \E in \in Inputs : Reject(r, in) \/ Admit(r, in)
  \/ \E r \in Calls : Request(r) \/ EmitAudit(r) \/ Answer(r) \/ CancelCall(r)
  \/ Network
  \/ Crash
  \/ StartServer

\* A handler that runs goes on: its request ends by itself, Append returns.
Fairness ==
  \A r \in Calls : WF_vars(Request(r)) /\ WF_vars(EmitAudit(r)) /\ WF_vars(Answer(r))

Spec == Init /\ [][Next]_vars /\ Fairness

-----------------------------------------------------------------------------
(* Properties.                                                              *)

\* The variables keep to their types.
TypeOK ==
  /\ ClientTypeOK
  /\ up \in BOOLEAN
  /\ config \in Configs
  /\ stage \in [Calls -> {"new", "client", "answer", "answered", "gone"}]
  /\ input \in [Calls -> Inputs \cup {NoInput}]
  /\ answer \in [Calls -> Codes \cup {"requested", "none"}]
  /\ trail \subseteq Events
  /\ auditErr \in [Calls -> BOOLEAN]
  /\ under \in [Calls -> Configs]

\* Something of call r has reached the provider, or may still reach it.
Touched(r) == \E m \in executed \cup wire : m.req = r

Ran(r) == \E m \in executed : m.req = r

InDoubt(r) == \E t \in Attempts : verdict[r][t] = "unsure"

\* A call with an invalid argument, or received by a process with mutations
\* disabled, never reaches the provider, whatever process runs afterwards.
MutationGate ==
  \A r \in Calls : Touched(r) =>
    /\ input[r] # NoInput
    /\ ~Invalid(input[r])
    /\ ~under[r].disableMutations

\* An audit event tells the truth as far as the server can know it: "success"
\* only for a rerun that was executed, and "failed", unless an attempt was left
\* in doubt, only for one that was not executed and never will be.
AuditIsTruthful ==
  \A e \in trail :
    /\ e.outcome = "success" => Ran(e.call)
    /\ e.outcome = "failed" /\ ~InDoubt(e.call) => ~Touched(e.call)

\* An answered call that reached the provider has its audit event, unless
\* Append failed; and the event agrees with the answer.
AnswerIsAudited ==
  \A r \in Calls : stage[r] = "answered" =>
    /\ Touched(r) /\ ~auditErr[r] => \E e \in trail : e.call = r
    /\ \A e \in trail : e.call = r => (e.outcome = "success" <=> answer[r] = "requested")

\* The caller is told "requested" only for a rerun that was executed, and once
\* it is told of an error and nothing is in doubt, nothing is executed later.
AnswerIsTruthful ==
  \A r \in Calls : stage[r] = "answered" =>
    /\ answer[r] = "requested" => Ran(r)
    /\ answer[r] # "requested" /\ ~InDoubt(r) => ~Touched(r)

\* A call that was admitted is answered, unless its process ends: no answer of
\* the provider, no failure of the audit log and no cancellation leaves it.
AdmittedIsAnswered ==
  \A r \in Calls : stage[r] = "client" ~> stage[r] \in {"answered", "gone"}

\* README.md:232 "Every rerun emits an auditable event": an answered call that
\* was executed by the provider has an event in the log.
EveryRerunAudited ==
  \A r \in Calls : stage[r] = "answered" /\ Ran(r) => \E e \in trail : e.call = r
=============================================================================
