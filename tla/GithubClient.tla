---------------------------- MODULE GithubClient ----------------------------
(***************************************************************************)
(* The request path of internal/githubapi/client.go: doJSON, doBytes with  *)
(* its retries and backoff, and doOnce with its classification of answers, *)
(* over a network that loses requests and answers and delivers late.       *)
(*                                                                         *)
(* The Go client keeps no state between calls, so a call is a value of     *)
(* Requests with a program counter of its own.  The provider's side        *)
(* (ServerHandles) and the wire are external: what the code relies on is   *)
(* that an answer in the 2xx range follows an execution and that a 4xx     *)
(* one refuses it.                                                         *)
(***************************************************************************)
EXTENDS Naturals, FiniteSets, ErrorMapping

CONSTANTS
  Requests,      \* the client calls
  Decoded,       \* those whose caller gives doJSON a value to decode into
  MaxAttempts,   \* maxAttempts, 3 in the code
  Responses      \* the answers the provider may give

Statuses == {"2xx", "401", "404", "429", "5xx", "other"}  \* "401" is 401 or 403

ASSUME ClientAssumption ==
  /\ MaxAttempts \in Nat \ {0}
  /\ Decoded \subseteq Requests
  /\ Responses \subseteq [status : Statuses, exhausted : BOOLEAN]

Attempts == 1 .. MaxAttempts

NoReply == [status |-> "none", exhausted |-> FALSE]

VARIABLES
  pc,          \* where doBytes stands: "idle", "send", "await", "backoff", "done"
  attempt,     \* its loop variable, 0 before the call
  lastErr,     \* its lastErr, "none" before an error; what it returned once done
  cancelled,   \* whether the call's context is done
  wire,        \* the copies of requests on their way to the provider
  reply,       \* the answer that has reached a client waiting for it
  executed,    \* the copies that the provider has executed
  verdict      \* history: what the client has learned of each attempt

localVars  == <<pc, attempt, lastErr, cancelled, reply, verdict>>
serverVars == <<wire, executed>>
clientVars == <<pc, attempt, lastErr, cancelled, wire, reply, executed, verdict>>

Copies   == [req : Requests, try : Attempts]
Verdicts == {"none", "unsent", "accepted", "refused", "throttled", "unsure"}

ClientInit ==
  /\ pc        = [r \in Requests |-> "idle"]
  /\ attempt   = [r \in Requests |-> 0]
  /\ lastErr   = [r \in Requests |-> "none"]
  /\ cancelled = [r \in Requests |-> FALSE]
  /\ wire      = {}
  /\ reply     = [r \in Requests |-> NoReply]
  /\ executed  = {}
  /\ verdict   = [r \in Requests |-> [t \in Attempts |-> "none"]]

-----------------------------------------------------------------------------
(* doOnce: an answer's status as an error and as a reason to try again.     *)

Throttles(resp) == resp.status = "429" \/ resp.exhausted

\* Mutant: every answer outside of the 2xx range is taken as transient.
ClassifyAllTransient(resp) ==
  [err   |-> IF Throttles(resp) THEN "ErrRateLimited" ELSE "ErrProviderUnavailable",
   retry |-> TRUE]

Classify(resp) ==
  [err   |-> CASE Throttles(resp) -> "ErrRateLimited"
               [] resp.status = "401" /\ ~resp.exhausted -> "ErrUnauthorized"
               [] resp.status = "404" /\ ~resp.exhausted -> "ErrNotFound"
               [] OTHER -> "ErrProviderUnavailable",
   retry |-> Throttles(resp) \/ resp.status = "5xx"]

\* What a client that reads the whole answer knows of the operation: a 5xx
\* may come from a gateway in front of a provider that has executed it.
Learned(resp) ==
  IF resp.status = "2xx" THEN "accepted"
  ELSE IF resp.status = "5xx" THEN "unsure"
  ELSE IF Throttles(resp) THEN "throttled" ELSE "refused"

-----------------------------------------------------------------------------
(* doBytes: the attempts.                                                   *)

\* A call enters doJSON, and doBytes its first attempt.
Call(r) ==
  /\ pc[r] = "idle"
  /\ pc' = [pc EXCEPT ![r] = "send"]
  /\ attempt' = [attempt EXCEPT ![r] = 1]
  /\ UNCHANGED <<lastErr, cancelled, reply, verdict, serverVars>>

\* Mutant: the test for the last attempt is missing.
AttemptFailsUnbounded(r, err, retry, learned) ==
  /\ lastErr' = [lastErr EXCEPT ![r] = err]
  /\ verdict' = [verdict EXCEPT ![r][attempt[r]] = learned]
  /\ reply' = [reply EXCEPT ![r] = NoReply]
  /\ pc' = [pc EXCEPT ![r] = IF ~retry THEN "done" ELSE "backoff"]
  /\ UNCHANGED <<attempt, cancelled>>

\* What doBytes does with an error of doOnce, and with its retry flag.
AttemptFails(r, err, retry, learned) ==
  /\ lastErr' = [lastErr EXCEPT ![r] = err]
  /\ verdict' = [verdict EXCEPT ![r][attempt[r]] = learned]
  /\ reply' = [reply EXCEPT ![r] = NoReply]
  /\ pc' = [pc EXCEPT ![r] = IF ~retry \/ attempt[r] = MaxAttempts THEN "done" ELSE "backoff"]
  /\ UNCHANGED <<attempt, cancelled>>

\* http.NewRequestWithContext fails on the URL, at the first attempt.
BuildFails(r) ==
  /\ pc[r] = "send"
  /\ attempt[r] = 1
  /\ AttemptFails(r, "build", FALSE, "unsent")
  /\ UNCHANGED serverVars

\* httpClient.Do puts a copy of the request on the wire.
Send(r) ==
  /\ pc[r] = "send"
  /\ ~cancelled[r]
  /\ wire' = wire \cup {[req |-> r, try |-> attempt[r]]}
  /\ pc' = [pc EXCEPT ![r] = "await"]
  /\ UNCHANGED <<attempt, lastErr, cancelled, reply, verdict, executed>>

\* Mutant: the request is written before the context is looked at.
SendCancelledAnyway(r) ==
  /\ pc[r] = "send"
  /\ cancelled[r]
  /\ AttemptFails(r, "transport", TRUE, "unsent")
  /\ wire' = wire \cup {[req |-> r, try |-> attempt[r]]}
  /\ UNCHANGED executed

\* httpClient.Do does not start under a context that is done.
SendCancelled(r) ==
  /\ pc[r] = "send"
  /\ cancelled[r]
  /\ AttemptFails(r, "transport", TRUE, "unsent")
  /\ UNCHANGED serverVars

\* httpClient.Do fails: timeout, connection error, context done.  The copy it
\* sent may still reach the provider, or may have been executed already.
TransportFails(r) ==
  /\ pc[r] = "await"
  /\ AttemptFails(r, "transport", TRUE, "unsure")
  /\ UNCHANGED serverVars

\* The headers of an answer arrived, its body did not: io.ReadAll fails
\* before doOnce looks at the status.
BodyFails(r) ==
  /\ pc[r] = "await"
  /\ reply[r] # NoReply
  /\ AttemptFails(r, "read", FALSE, "unsure")
  /\ UNCHANGED serverVars

\* Mutant: every answer below 500 is a success.
SucceedBelow500(r) ==
  /\ pc[r] = "await"
  /\ reply[r].status \notin {"none", "5xx"}
  /\ lastErr' = [lastErr EXCEPT ![r] = "none"]
  /\ verdict' = [verdict EXCEPT ![r][attempt[r]] = "accepted"]
  /\ reply' = [reply EXCEPT ![r] = NoReply]
  /\ pc' = [pc EXCEPT ![r] = "done"]
  /\ UNCHANGED <<attempt, cancelled, serverVars>>

\* A whole answer in the 2xx range.  With a value to decode into, doJSON may
\* still fail to decode the body.
Succeed(r) ==
  /\ pc[r] = "await"
  /\ reply[r].status = "2xx"
  /\ \E err \in IF r \in Decoded THEN {"none", "decode"} ELSE {"none"} :
       lastErr' = [lastErr EXCEPT ![r] = err]
  /\ verdict' = [verdict EXCEPT ![r][attempt[r]] = "accepted"]
  /\ reply' = [reply EXCEPT ![r] = NoReply]
  /\ pc' = [pc EXCEPT ![r] = "done"]
  /\ UNCHANGED <<attempt, cancelled, serverVars>>

\* A whole answer outside of the 2xx range.
Refused(r) ==
  /\ pc[r] = "await"
  /\ reply[r] # NoReply
  /\ reply[r].status # "2xx"
  /\ AttemptFails(r, Classify(reply[r]).err, Classify(reply[r]).retry, Learned(reply[r]))
  /\ UNCHANGED serverVars

\* Mutant: the loop variable is not advanced.
RetryForever(r) ==
  /\ pc[r] = "backoff"
  /\ pc' = [pc EXCEPT ![r] = "send"]
  /\ UNCHANGED <<attempt, lastErr, cancelled, reply, verdict, serverVars>>

\* The select of doBytes takes the timer.
Retry(r) ==
  /\ pc[r] = "backoff"
  /\ pc' = [pc EXCEPT ![r] = "send"]
  /\ attempt' = [attempt EXCEPT ![r] = @ + 1]
  /\ UNCHANGED <<lastErr, cancelled, reply, verdict, serverVars>>

\* Mutant: the select also covers a request in flight.
GiveUpInFlight(r) ==
  /\ pc[r] \in {"await", "backoff"}
  /\ cancelled[r]
  /\ pc' = [pc EXCEPT ![r] = "done"]
  /\ lastErr' = [lastErr EXCEPT ![r] = "ctx"]
  /\ UNCHANGED <<attempt, cancelled, reply, verdict, serverVars>>

\* The select of doBytes takes ctx.Done.
GiveUp(r) ==
  /\ pc[r] = "backoff"
  /\ cancelled[r]
  /\ pc' = [pc EXCEPT ![r] = "done"]
  /\ lastErr' = [lastErr EXCEPT ![r] = "ctx"]
  /\ UNCHANGED <<attempt, cancelled, reply, verdict, serverVars>>

-----------------------------------------------------------------------------
(* The environment: the caller's context, the provider and the wire.        *)

\* The MCP client cancels the tool call, or the server is shutting down.
Cancel(r) ==
  /\ ~cancelled[r]
  /\ pc[r] # "done"
  /\ cancelled' = [cancelled EXCEPT ![r] = TRUE]
  /\ UNCHANGED <<pc, attempt, lastErr, reply, verdict, serverVars>>

\* The provider takes a copy off the wire and answers it.  The answer counts
\* only if the client still waits for that copy: its connection is gone
\* otherwise.
ServerHandles(m) ==
  /\ m \in wire
  /\ wire' = wire \ {m}
  /\ \E resp \in Responses, runs \in BOOLEAN :
       /\ resp.status = "2xx" => runs
       /\ runs => resp.status \in {"2xx", "5xx"}
       /\ executed' = IF runs THEN executed \cup {m} ELSE executed
       /\ reply' = IF pc[m.req] = "await" /\ attempt[m.req] = m.try
                   THEN [reply EXCEPT ![m.req] = resp] ELSE reply
  /\ UNCHANGED <<pc, attempt, lastErr, cancelled, verdict>>

WireLoses(m) ==
  /\ m \in wire
  /\ wire' = wire \ {m}
  /\ UNCHANGED <<localVars, executed>>

-----------------------------------------------------------------------------

\* One step of doJSON for r, once it has been called.
ClientStep(r) ==
  \/ BuildFails(r)
  \/ Send(r)
  \/ SendCancelled(r)
  \/ TransportFails(r)
  \/ BodyFails(r)
  \/ Succeed(r)
  \/ Refused(r)
  \/ Retry(r)
  \/ GiveUp(r)

NetworkStep ==
  \/ \E m \in wire : ServerHandles(m)
  \/ \E m \in wire : WireLoses(m)

ClientNext ==
  \/ \E r \in Requests : Call(r) \/ ClientStep(r) \/ Cancel(r)
  \/ NetworkStep

\* Each request ends by itself: httpClient has a timeout, the backoff a timer.
ClientFairness == \A r \in Requests : WF_clientVars(ClientStep(r))

ClientSpec == ClientInit /\ [][ClientNext]_clientVars /\ ClientFairness

-----------------------------------------------------------------------------
(* Properties.                                                              *)

\* The variables keep to their types.
ClientTypeOK ==
  /\ pc \in [Requests -> {"idle", "send", "await", "backoff", "done"}]
  /\ attempt \in [Requests -> 0 .. MaxAttempts]
  /\ lastErr \in [Requests -> Errors \cup {"none"}]
  /\ cancelled \in [Requests -> BOOLEAN]
  /\ wire \subseteq Copies
  /\ reply \in [Requests -> Responses \cup {NoReply}]
  /\ executed \subseteq Copies
  /\ verdict \in [Requests -> [Attempts -> Verdicts]]

Ok(r) == pc[r] = "done" /\ lastErr[r] = "none"

\* A call that failed without an attempt in doubt (a lost answer, a 5xx, a
\* body cut short) did not run and never will: no copy of it has been
\* executed and none is left on the wire.
CleanFailure ==
  \A r \in Requests :
    /\ pc[r] = "done"
    /\ \A t \in Attempts : verdict[r][t] \notin {"unsure", "accepted"}
    => \A m \in executed \cup wire : m.req # r

\* A second execution of a call comes only from an earlier attempt in doubt:
\* besides the accepted attempt, only attempts in doubt may have run.
ExecutionsExplained ==
  \A m \in executed :
    \/ verdict[m.req][m.try] \in {"unsure", "accepted"}
    \/ pc[m.req] = "await" /\ m.try = attempt[m.req]

\* doBytes tries again only after an attempt that was not sent, whose outcome it
\* does not know or that was throttled: never after an answer that accepts or
\* refuses.
RetryIsJustified ==
  \A r \in Requests : \A t \in Attempts :
    t < attempt[r] => verdict[r][t] \in {"unsent", "unsure", "throttled"}

\* Every call that doBytes has begun returns, whatever the network does.
RequestEnds == \A r \in Requests : pc[r] = "send" ~> pc[r] = "done"

\* The client implements the promise of RemoteCall.
Remote == INSTANCE RemoteCall WITH
  status <- [r \in Requests |-> IF pc[r] = "idle" THEN "idle"
                                ELSE IF pc[r] # "done" THEN "running"
                                ELSE IF lastErr[r] = "none" THEN "ok" ELSE "failed"],
  ran    <- [r \in Requests |-> {t \in Attempts : [req |-> r, try |-> t] \in executed}]

RemoteSpec == Remote!RemoteSpec
=============================================================================
