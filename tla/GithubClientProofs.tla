------------------------- MODULE GithubClientProofs -------------------------
(***************************************************************************)
(* Theorems about GithubClient for every set of requests, every number of  *)
(* attempts and every set of answers.  ClientInv is the inductive          *)
(* invariant: besides the types it accounts for each copy of a request     *)
(* that is, or was, out of the client's hands.                             *)
(***************************************************************************)
EXTENDS GithubClient, TLAPS

Outside == executed \cup wire

\* A copy belongs to an attempt that was begun, and to one whose sending is over.
CopiesSent ==
  /\ wire \cap executed = {}
  /\ \A m \in Outside : m.try <= attempt[m.req]
  /\ \A m \in Outside : pc[m.req] = "send" => m.try # attempt[m.req]

\* A copy is one of the attempt the client waits for, or of one it has in doubt
\* or saw accepted.
CopiesExplained ==
  \A m \in Outside :
    \/ verdict[m.req][m.try] \in {"unsure", "accepted"}
    \/ pc[m.req] = "await" /\ m.try = attempt[m.req]

\* An answer is there only for a client that waits, and tells of its copy.
RepliesTrue ==
  \A r \in Requests : reply[r] # NoReply =>
    /\ pc[r] = "await"
    /\ reply[r].status = "2xx" => [req |-> r, try |-> attempt[r]] \in executed
    /\ reply[r].status \notin {"2xx", "5xx"} => [req |-> r, try |-> attempt[r]] \notin Outside

\* What the client has learned of each attempt.
VerdictsOrdered ==
  \A r \in Requests :
    /\ pc[r] = "idle" <=> attempt[r] = 0
    /\ \A t \in Attempts :
         /\ t < attempt[r] => verdict[r][t] \in {"unsent", "unsure", "throttled"}
         /\ t = attempt[r] /\ pc[r] \in {"send", "await"} => verdict[r][t] = "none"
         /\ t = attempt[r] /\ pc[r] = "backoff" =>
              verdict[r][t] \in {"unsent", "unsure", "throttled"}
         /\ t > attempt[r] => verdict[r][t] = "none"
    /\ pc[r] = "backoff" => attempt[r] < MaxAttempts

\* A call that reports success was executed.
SuccessRan ==
  \A r \in Requests :
    pc[r] = "done" /\ lastErr[r] = "none" => [req |-> r, try |-> attempt[r]] \in executed

ClientInv ==
  /\ ClientTypeOK
  /\ CopiesSent
  /\ CopiesExplained
  /\ RepliesTrue
  /\ VerdictsOrdered
  /\ SuccessRan

-----------------------------------------------------------------------------
(* Lemmas about the operators.                                              *)

\* What doOnce makes of an answer outside of the 2xx range: only an answer that
\* leaves the outcome open, or that throttles, is a reason to try again.
LEMMA ClassifyFacts ==
  ASSUME NEW resp \in [status : Statuses, exhausted : BOOLEAN],
         resp.status # "2xx"
  PROVE  /\ Classify(resp).err \in Errors
         /\ Classify(resp).err \notin {"none", "decode"}
         /\ Classify(resp).retry \in BOOLEAN
         /\ Classify(resp).retry => Learned(resp) \in {"unsure", "throttled"}
         /\ Learned(resp) \in Verdicts \ {"none", "accepted"}
         /\ resp.status = "5xx" => Learned(resp) = "unsure"
<1>1. CASE Throttles(resp)
  BY <1>1 DEF Classify, Learned, Throttles, Statuses, Errors, Sentinels, Unwrapped, Verdicts
<1>2. CASE ~Throttles(resp)
  BY <1>2 DEF Classify, Learned, Throttles, Statuses, Errors, Sentinels, Unwrapped, Verdicts
<1>3. QED
  BY <1>1, <1>2

\* An answer that is there is one of the provider's.
LEMMA ReplyIsResponse ==
  ASSUME ClientTypeOK, NEW r \in Requests, reply[r] # NoReply
  PROVE  reply[r] \in [status : Statuses, exhausted : BOOLEAN]
BY ClientAssumption DEF ClientTypeOK

\* A step of one call that leaves it without an answer, and leaves the provider
\* and the wire alone, keeps the answers true.
LEMMA RepliesKept ==
  ASSUME RepliesTrue, NEW r \in Requests,
         UNCHANGED <<executed, wire>>,
         reply'[r] = NoReply,
         \A q \in Requests \ {r} :
           pc'[q] = pc[q] /\ attempt'[q] = attempt[q] /\ reply'[q] = reply[q]
  PROVE  RepliesTrue'
<1> SUFFICES ASSUME NEW q \in Requests, reply'[q] # NoReply
             PROVE  /\ pc'[q] = "await"
                    /\ reply'[q].status = "2xx" =>
                         [req |-> q, try |-> attempt'[q]] \in executed'
                    /\ reply'[q].status \notin {"2xx", "5xx"} =>
                         [req |-> q, try |-> attempt'[q]] \notin Outside'
  BY DEF RepliesTrue, NoReply
<1>1. pc'[q] = pc[q] /\ attempt'[q] = attempt[q] /\ reply'[q] = reply[q]
  OBVIOUS
<1>2. Outside' = Outside
  BY DEF Outside
<1>3. QED
  BY <1>1, <1>2 DEF RepliesTrue

-----------------------------------------------------------------------------
(* Each action keeps the invariant.                                         *)

\* A call that begins has no copy outside, and no answer.
LEMMA CallStep ==
  ASSUME ClientInv, NEW r \in Requests, Call(r)
  PROVE  ClientInv'
<1>1. ClientTypeOK'
  BY ClientAssumption DEF ClientInv, ClientTypeOK, Call, serverVars
<1>2. CopiesSent'
  BY DEF ClientInv, ClientTypeOK, CopiesSent, VerdictsOrdered, Outside, Call, serverVars,
         Attempts, Copies
<1>3. CopiesExplained'
  BY DEF ClientInv, CopiesExplained, Outside, Call, serverVars
<1>4. RepliesTrue'
  BY RepliesKept DEF ClientInv, ClientTypeOK, RepliesTrue, Call, serverVars
<1>5. VerdictsOrdered'
  BY DEF ClientInv, ClientTypeOK, VerdictsOrdered, Call, Attempts
<1>6. SuccessRan'
  BY ClientAssumption
  DEF ClientInv, ClientTypeOK, CopiesSent, RepliesTrue, VerdictsOrdered, SuccessRan,
      Outside, Call, serverVars, Attempts, Copies, Verdicts, NoReply
<1>7. QED
  BY <1>1, <1>2, <1>3, <1>4, <1>5, <1>6 DEF ClientInv

\* The copy that is sent is one of the attempt the client now waits for.
LEMMA SendStep ==
  ASSUME ClientInv, NEW r \in Requests, Send(r)
  PROVE  ClientInv'
<1>1. ClientTypeOK'
  BY DEF ClientInv, ClientTypeOK, VerdictsOrdered, Send, Attempts, Copies
<1>2. CopiesSent'
  BY DEF ClientInv, ClientTypeOK, CopiesSent, Outside, Send
<1>3. CopiesExplained'
  BY DEF ClientInv, ClientTypeOK, CopiesExplained, Outside, Send
<1>4. RepliesTrue'
  BY DEF ClientInv, RepliesTrue, Outside, Send
<1>5. VerdictsOrdered'
  BY DEF ClientInv, VerdictsOrdered, Send
<1>6. SuccessRan'
  BY DEF ClientInv, SuccessRan, Send
<1>7. QED
  BY <1>1, <1>2, <1>3, <1>4, <1>5, <1>6 DEF ClientInv

\* An attempt that is not sent has no copy outside.
LEMMA NotSentStep ==
  ASSUME ClientInv, NEW r \in Requests, pc[r] = "send", UNCHANGED serverVars,
         NEW err \in Unwrapped, NEW retry \in BOOLEAN, AttemptFails(r, err, retry, "unsent")
  PROVE  ClientInv'
<1>. USE DEF AttemptFails, serverVars
<1>1. ClientTypeOK'
  BY DEF ClientInv, ClientTypeOK, Errors, Verdicts
<1>2. CopiesSent'
  BY DEF ClientInv, CopiesSent, Outside
<1>3. CopiesExplained'
  BY DEF ClientInv, CopiesSent, CopiesExplained, Outside
<1>4. RepliesTrue'
  BY RepliesKept DEF ClientInv, ClientTypeOK, RepliesTrue
<1>5. VerdictsOrdered'
  BY ClientAssumption DEF ClientInv, ClientTypeOK, VerdictsOrdered, Attempts
<1>6. SuccessRan'
  BY DEF ClientInv, ClientTypeOK, SuccessRan, Unwrapped
<1>7. QED
  BY <1>1, <1>2, <1>3, <1>4, <1>5, <1>6 DEF ClientInv

\* The attempt is in doubt, which explains its copy.
LEMMA TransportFailsStep ==
  ASSUME ClientInv, NEW r \in Requests, TransportFails(r)
  PROVE  ClientInv'
<1>1. ClientTypeOK'
  BY DEF ClientInv, ClientTypeOK, TransportFails, AttemptFails, serverVars, Errors,
         Unwrapped, Verdicts
<1>2. CopiesSent'
  BY DEF ClientInv, CopiesSent, Outside, TransportFails, AttemptFails, serverVars
<1>3. CopiesExplained'
  BY DEF ClientInv, ClientTypeOK, CopiesExplained, Outside, TransportFails, AttemptFails,
         serverVars, Copies
<1>4. RepliesTrue'
  BY RepliesKept
  DEF ClientInv, ClientTypeOK, RepliesTrue, TransportFails, AttemptFails, serverVars
<1>5. VerdictsOrdered'
  BY ClientAssumption
  DEF ClientInv, ClientTypeOK, VerdictsOrdered, TransportFails, AttemptFails, Attempts
<1>6. SuccessRan'
  BY DEF ClientInv, ClientTypeOK, SuccessRan, TransportFails, AttemptFails, serverVars
<1>7. QED
  BY <1>1, <1>2, <1>3, <1>4, <1>5, <1>6 DEF ClientInv

\* As before: the copy was executed or not, and the attempt is in doubt.
LEMMA BodyFailsStep ==
  ASSUME ClientInv, NEW r \in Requests, BodyFails(r)
  PROVE  ClientInv'
<1>1. ClientTypeOK'
  BY DEF ClientInv, ClientTypeOK, BodyFails, AttemptFails, serverVars, Errors, Unwrapped,
         Verdicts
<1>2. CopiesSent'
  BY DEF ClientInv, CopiesSent, Outside, BodyFails, AttemptFails, serverVars
<1>3. CopiesExplained'
  BY DEF ClientInv, ClientTypeOK, CopiesExplained, Outside, BodyFails, AttemptFails,
         serverVars, Copies
<1>4. RepliesTrue'
  BY RepliesKept DEF ClientInv, ClientTypeOK, RepliesTrue, BodyFails, AttemptFails, serverVars
<1>5. VerdictsOrdered'
  BY DEF ClientInv, ClientTypeOK, VerdictsOrdered, BodyFails, AttemptFails
<1>6. SuccessRan'
  BY DEF ClientInv, ClientTypeOK, SuccessRan, BodyFails, AttemptFails, serverVars
<1>7. QED
  BY <1>1, <1>2, <1>3, <1>4, <1>5, <1>6 DEF ClientInv

\* The answer is true, so the attempt's copy has been executed.
LEMMA SucceedStep ==
  ASSUME ClientInv, NEW r \in Requests, Succeed(r)
  PROVE  ClientInv'
<1>1. ClientTypeOK'
  BY DEF ClientInv, ClientTypeOK, Succeed, serverVars, Errors, Unwrapped, Verdicts
<1>2. CopiesSent'
  BY DEF ClientInv, CopiesSent, Outside, Succeed, serverVars
<1>3. CopiesExplained'
  BY ClientAssumption
  DEF ClientInv, ClientTypeOK, CopiesExplained, Outside, Succeed, serverVars, Copies
<1>4. RepliesTrue'
  BY RepliesKept DEF ClientInv, ClientTypeOK, RepliesTrue, Succeed, serverVars
<1>5. VerdictsOrdered'
  BY DEF ClientInv, ClientTypeOK, VerdictsOrdered, Succeed
<1>6. SuccessRan'
  BY DEF ClientInv, RepliesTrue, SuccessRan, Succeed, serverVars, NoReply
<1>7. QED
  BY <1>1, <1>2, <1>3, <1>4, <1>5, <1>6 DEF ClientInv

\* An answer that puts nothing in doubt is true, so no copy of its attempt is
\* outside; one that leads to another attempt is of a kind that justifies it.
LEMMA RefusedStep ==
  ASSUME ClientInv, NEW r \in Requests, Refused(r)
  PROVE  ClientInv'
<1>1. ClientTypeOK'
  BY ClientAssumption, ClassifyFacts, ReplyIsResponse
  DEF ClientInv, ClientTypeOK, Refused, AttemptFails, serverVars, Attempts
<1>2. CopiesSent'
  BY DEF ClientInv, CopiesSent, Outside, Refused, AttemptFails, serverVars
<1>3. CopiesExplained'
  BY ClientAssumption
  DEF ClientInv, ClientTypeOK, CopiesExplained, RepliesTrue, Outside, Refused,
      AttemptFails, Learned, serverVars, Copies
<1>4. RepliesTrue'
  BY RepliesKept DEF ClientInv, ClientTypeOK, RepliesTrue, Refused, AttemptFails, serverVars
<1>5. VerdictsOrdered'
  <2>1. /\ Classify(reply[r]).retry \in BOOLEAN
        /\ Classify(reply[r]).retry => Learned(reply[r]) \in {"unsure", "throttled"}
    BY ClassifyFacts, ReplyIsResponse DEF ClientInv, Refused
  <2>2. QED
    BY <2>1, ClientAssumption
    DEF ClientInv, ClientTypeOK, VerdictsOrdered, Refused, AttemptFails, Attempts
<1>6. SuccessRan'
  <2>1. Classify(reply[r]).err # "none"
    BY ClassifyFacts, ReplyIsResponse DEF ClientInv, Refused
  <2>2. QED
    BY <2>1 DEF ClientInv, ClientTypeOK, SuccessRan, Refused, AttemptFails, serverVars
<1>7. QED
  BY <1>1, <1>2, <1>3, <1>4, <1>5, <1>6 DEF ClientInv

\* The next attempt has no copy outside yet.
LEMMA RetryStep ==
  ASSUME ClientInv, NEW r \in Requests, Retry(r)
  PROVE  ClientInv'
<1>1. ClientTypeOK'
  BY ClientAssumption DEF ClientInv, ClientTypeOK, VerdictsOrdered, Retry, serverVars
<1>2. CopiesSent'
  BY DEF ClientInv, ClientTypeOK, CopiesSent, Outside, Retry, serverVars, Attempts, Copies
<1>3. CopiesExplained'
  BY DEF ClientInv, CopiesExplained, Outside, Retry, serverVars
<1>4. RepliesTrue'
  BY RepliesKept DEF ClientInv, ClientTypeOK, RepliesTrue, Retry, serverVars
<1>5. VerdictsOrdered'
  BY DEF ClientInv, ClientTypeOK, VerdictsOrdered, Retry, Attempts
<1>6. SuccessRan'
  BY DEF ClientInv, SuccessRan, Retry, serverVars
<1>7. QED
  BY <1>1, <1>2, <1>3, <1>4, <1>5, <1>6 DEF ClientInv

\* The attempts made keep their verdicts.
LEMMA GiveUpStep ==
  ASSUME ClientInv, NEW r \in Requests, GiveUp(r)
  PROVE  ClientInv'
<1>1. ClientTypeOK'
  BY DEF ClientInv, ClientTypeOK, GiveUp, serverVars, Errors, Unwrapped
<1>2. CopiesSent'
  BY DEF ClientInv, CopiesSent, Outside, GiveUp, serverVars
<1>3. CopiesExplained'
  BY DEF ClientInv, CopiesExplained, Outside, GiveUp, serverVars
<1>4. RepliesTrue'
  BY DEF ClientInv, RepliesTrue, Outside, GiveUp, serverVars
<1>5. VerdictsOrdered'
  BY DEF ClientInv, VerdictsOrdered, GiveUp
<1>6. SuccessRan'
  BY DEF ClientInv, ClientTypeOK, SuccessRan, GiveUp, serverVars
<1>7. QED
  BY <1>1, <1>2, <1>3, <1>4, <1>5, <1>6 DEF ClientInv

\* The context is looked at by later steps only.
LEMMA CancelStep ==
  ASSUME ClientInv, NEW r \in Requests, Cancel(r)
  PROVE  ClientInv'
<1>1. ClientTypeOK'
  BY DEF ClientInv, ClientTypeOK, Cancel, serverVars
<1>2. CopiesSent'
  BY DEF ClientInv, CopiesSent, Outside, Cancel, serverVars
<1>3. CopiesExplained'
  BY DEF ClientInv, CopiesExplained, Outside, Cancel, serverVars
<1>4. RepliesTrue'
  BY DEF ClientInv, RepliesTrue, Outside, Cancel, serverVars
<1>5. VerdictsOrdered'
  BY DEF ClientInv, VerdictsOrdered, Cancel
<1>6. SuccessRan'
  BY DEF ClientInv, SuccessRan, Cancel, serverVars
<1>7. QED
  BY <1>1, <1>2, <1>3, <1>4, <1>5, <1>6 DEF ClientInv

\* The copy that is handled is outside and not executed, so an answer that
\* reaches its client tells of it truly.
LEMMA ServerHandlesStep ==
  ASSUME ClientInv, NEW m \in wire, ServerHandles(m)
  PROVE  ClientInv'
<1>1. ClientTypeOK'
  BY DEF ClientInv, ClientTypeOK, ServerHandles
<1>2. CopiesSent'
  BY DEF ClientInv, CopiesSent, Outside, ServerHandles
<1>3. CopiesExplained'
  BY DEF ClientInv, CopiesExplained, Outside, ServerHandles
<1>4. RepliesTrue'
  <2> SUFFICES ASSUME NEW q \in Requests, reply'[q] # NoReply
               PROVE  /\ pc'[q] = "await"
                      /\ reply'[q].status = "2xx" =>
                           [req |-> q, try |-> attempt'[q]] \in executed'
                      /\ reply'[q].status \notin {"2xx", "5xx"} =>
                           [req |-> q, try |-> attempt'[q]] \notin Outside'
    BY DEF RepliesTrue, NoReply
  <2>1. PICK resp \in Responses, runs \in BOOLEAN :
          /\ resp.status = "2xx" => runs
          /\ runs => resp.status \in {"2xx", "5xx"}
          /\ executed' = IF runs THEN executed \cup {m} ELSE executed
          /\ reply' = IF pc[m.req] = "await" /\ attempt[m.req] = m.try
                      THEN [reply EXCEPT ![m.req] = resp] ELSE reply
    BY DEF ServerHandles
  <2>2. /\ m \in Copies
        /\ wire' = wire \ {m}
        /\ pc' = pc /\ attempt' = attempt
    BY DEF ClientInv, ClientTypeOK, ServerHandles
  <2>3. CASE q = m.req /\ pc[q] = "await" /\ attempt[q] = m.try
    <3>1. m = [req |-> q, try |-> attempt[q]]
      BY <2>2, <2>3 DEF Copies
    <3>2. reply'[q] = resp
      BY <2>1, <2>3 DEF ClientInv, ClientTypeOK
    <3>3. m \notin executed
      BY DEF ClientInv, CopiesSent
    <3>4. QED
      BY <2>1, <2>2, <2>3, <3>1, <3>2, <3>3 DEF Outside
  <2>4. CASE ~(q = m.req /\ pc[q] = "await" /\ attempt[q] = m.try)
    <3>1. reply'[q] = reply[q]
      BY <2>1, <2>4 DEF ClientInv, ClientTypeOK
    <3>2. pc[q] = "await"
      BY <3>1 DEF ClientInv, RepliesTrue
    <3>3. m # [req |-> q, try |-> attempt[q]]
      BY <2>4, <3>2
    <3>4. QED
      BY <2>1, <2>2, <3>1, <3>3 DEF ClientInv, RepliesTrue, Outside
  <2>5. QED
    BY <2>3, <2>4
<1>5. VerdictsOrdered'
  BY DEF ClientInv, VerdictsOrdered, ServerHandles
<1>6. SuccessRan'
  BY DEF ClientInv, SuccessRan, ServerHandles
<1>7. QED
  BY <1>1, <1>2, <1>3, <1>4, <1>5, <1>6 DEF ClientInv

\* Fewer copies are outside.
LEMMA WireLosesStep ==
  ASSUME ClientInv, NEW m \in wire, WireLoses(m)
  PROVE  ClientInv'
<1>1. ClientTypeOK'
  BY DEF ClientInv, ClientTypeOK, WireLoses, localVars
<1>2. CopiesSent'
  BY DEF ClientInv, CopiesSent, Outside, WireLoses, localVars
<1>3. CopiesExplained'
  BY DEF ClientInv, CopiesExplained, Outside, WireLoses, localVars
<1>4. RepliesTrue'
  BY DEF ClientInv, RepliesTrue, Outside, WireLoses, localVars
<1>5. VerdictsOrdered'
  BY DEF ClientInv, VerdictsOrdered, WireLoses, localVars
<1>6. SuccessRan'
  BY DEF ClientInv, SuccessRan, WireLoses, localVars
<1>7. QED
  BY <1>1, <1>2, <1>3, <1>4, <1>5, <1>6 DEF ClientInv

-----------------------------------------------------------------------------
(* The invariant.                                                           *)

\* Nothing has been sent.
LEMMA ClientInvInit == ClientInit => ClientInv
BY ClientAssumption
DEF ClientInit, ClientInv, ClientTypeOK, CopiesSent, CopiesExplained, RepliesTrue,
    VerdictsOrdered, SuccessRan, Outside, Attempts, Verdicts, Copies

\* Every step of the client or the network keeps the invariant.
LEMMA ClientInvStep == ClientInv /\ [ClientNext]_clientVars => ClientInv'
<1> SUFFICES ASSUME ClientInv, [ClientNext]_clientVars PROVE ClientInv'
  OBVIOUS
<1>1. ASSUME NEW r \in Requests, Call(r) PROVE ClientInv'
  BY <1>1, CallStep
<1>2. ASSUME NEW r \in Requests, ClientStep(r) PROVE ClientInv'
  <2>1. CASE Send(r)            BY <2>1, SendStep
  <2>2. CASE SendCancelled(r) \/ BuildFails(r)
    BY <2>2, NotSentStep DEF SendCancelled, BuildFails, Unwrapped
  <2>3. CASE TransportFails(r)  BY <2>3, TransportFailsStep
  <2>4. CASE BodyFails(r)       BY <2>4, BodyFailsStep
  <2>5. CASE Succeed(r)         BY <2>5, SucceedStep
  <2>6. CASE Refused(r)         BY <2>6, RefusedStep
  <2>7. CASE Retry(r)           BY <2>7, RetryStep
  <2>8. CASE GiveUp(r)          BY <2>8, GiveUpStep
  <2>9. QED
    BY <1>2, <2>1, <2>2, <2>3, <2>4, <2>5, <2>6, <2>7, <2>8 DEF ClientStep
<1>3. ASSUME NEW r \in Requests, Cancel(r) PROVE ClientInv'
  BY <1>3, CancelStep
<1>4. CASE NetworkStep
  BY <1>4, ServerHandlesStep, WireLosesStep DEF NetworkStep
<1>5. CASE UNCHANGED clientVars
  BY <1>5 DEF clientVars, ClientInv, ClientTypeOK, CopiesSent, CopiesExplained, RepliesTrue,
              VerdictsOrdered, SuccessRan, Outside
<1>6. QED
  BY <1>1, <1>2, <1>3, <1>4, <1>5 DEF ClientNext

\* ClientInv holds in every state the client and the network can reach.
THEOREM ClientInvariant == ClientSpec => []ClientInv
BY ClientInvInit, ClientInvStep, PTL DEF ClientSpec

\* The variables keep to their types.
THEOREM ClientTypeCorrect == ClientSpec => []ClientTypeOK
BY ClientInvariant, PTL DEF ClientInv

-----------------------------------------------------------------------------
(* The properties.                                                          *)

\* CopiesExplained leaves a call that is done no copy outside but those in doubt.
LEMMA CleanFailureFromInv == ClientInv => CleanFailure
<1> SUFFICES ASSUME ClientInv, NEW r \in Requests, pc[r] = "done",
                    \A t \in Attempts : verdict[r][t] \notin {"unsure", "accepted"},
                    NEW m \in executed \cup wire, m.req = r
             PROVE  FALSE
  BY DEF CleanFailure
<1>1. m.try \in Attempts
  BY DEF ClientInv, ClientTypeOK, Copies
<1>2. QED
  BY <1>1 DEF ClientInv, CopiesExplained, Outside

\* A failed call without an attempt in doubt did not run and never will.
THEOREM CleanFailureHolds == ClientSpec => []CleanFailure
BY ClientInvariant, CleanFailureFromInv, PTL

\* CopiesExplained, of the copies executed.
LEMMA ExecutionsExplainedFromInv == ClientInv => ExecutionsExplained
BY DEF ClientInv, CopiesExplained, ExecutionsExplained, Outside

\* Every execution belongs to an attempt that was accepted or is in doubt.
THEOREM ExecutionsExplainedHolds == ClientSpec => []ExecutionsExplained
BY ClientInvariant, ExecutionsExplainedFromInv, PTL

\* VerdictsOrdered, of the attempts before the last.
LEMMA RetryIsJustifiedFromInv == ClientInv => RetryIsJustified
BY DEF ClientInv, VerdictsOrdered, RetryIsJustified

\* No attempt follows an answer that accepts or refuses the request.
THEOREM RetryIsJustifiedHolds == ClientSpec => []RetryIsJustified
BY ClientInvariant, RetryIsJustifiedFromInv, PTL

-----------------------------------------------------------------------------
(* The client implements RemoteCall.                                        *)

Status(r) ==
  IF pc[r] = "idle" THEN "idle"
  ELSE IF pc[r] # "done" THEN "running"
  ELSE IF lastErr[r] = "none" THEN "ok" ELSE "failed"

CopiesRun(r) == {t \in Attempts : [req |-> r, try |-> t] \in executed}

RemoteStep == [Remote!RemoteNext]_(Remote!remoteVars)

\* A step that leaves the executed copies alone, and moves one call from one
\* status to another as RemoteCall allows, is a step of RemoteCall.
LEMMA LocalStepImplements ==
  ASSUME NEW r \in Requests,
         executed' = executed,
         \A q \in Requests \ {r} : Status(q)' = Status(q),
         \/ Status(r)' = Status(r)
         \/ Status(r) = "idle" /\ Status(r)' = "running"
         \/ Status(r) = "running" /\ Status(r)' = "failed"
         \/ Status(r) = "running" /\ Status(r)' = "ok" /\ CopiesRun(r) # {}
  PROVE  RemoteStep
<1> DEFINE statuses == [q \in Requests |-> Status(q)]
           runs     == [q \in Requests |-> CopiesRun(q)]
<1>1. runs' = runs
  BY DEF CopiesRun
<1>2. statuses' = [statuses EXCEPT ![r] = Status(r)']
  OBVIOUS
<1>3. CASE Status(r)' = Status(r)
  <2>1. statuses' = statuses
    BY <1>2, <1>3
  <2>2. QED
    BY <1>1, <2>1 DEF RemoteStep, Remote!remoteVars, Status, CopiesRun
<1>4. CASE Status(r) = "idle" /\ Status(r)' = "running"
  <2>1. Remote!Start(r)
    BY <1>1, <1>2, <1>4 DEF Remote!Start, Status, CopiesRun
  <2>2. QED
    BY <2>1 DEF RemoteStep, Remote!RemoteNext
<1>5. CASE Status(r) = "running" /\ Status(r)' = "failed"
  <2>1. Remote!ReturnError(r)
    BY <1>1, <1>2, <1>5 DEF Remote!ReturnError, Status, CopiesRun
  <2>2. QED
    BY <2>1 DEF RemoteStep, Remote!RemoteNext
<1>6. CASE Status(r) = "running" /\ Status(r)' = "ok" /\ CopiesRun(r) # {}
  <2>1. Remote!ReturnOk(r)
    BY <1>1, <1>2, <1>6 DEF Remote!ReturnOk, Status, CopiesRun
  <2>2. QED
    BY <2>1 DEF RemoteStep, Remote!RemoteNext
<1>7. QED
  BY <1>3, <1>4, <1>5, <1>6

\* The client starts as RemoteCall does.
LEMMA RemoteInitHolds == ClientInit => Remote!RemoteInit
BY DEF ClientInit, Remote!RemoteInit

\* Every step of a call is a step of RemoteCall.
LEMMA ClientStepImplements ==
  ASSUME ClientInv, NEW r \in Requests, ClientStep(r)
  PROVE  RemoteStep
<1>1. \A q \in Requests \ {r} : Status(q)' = Status(q)
  BY DEF ClientInv, ClientTypeOK, ClientStep, BuildFails, Send, SendCancelled, TransportFails, BodyFails,
         Succeed, Refused, Retry, GiveUp, AttemptFails, Status
<1>2. executed' = executed
  BY DEF ClientStep, BuildFails, Send, SendCancelled, TransportFails, BodyFails,
         Succeed, Refused, Retry, GiveUp, AttemptFails, serverVars
<1>3. CASE Send(r) \/ Retry(r)
  <2>1. Status(r)' = Status(r)
    BY <1>3 DEF ClientInv, ClientTypeOK, Send, Retry, Status
  <2>2. QED
    BY <1>1, <1>2, <2>1, LocalStepImplements
<1>4. ASSUME NEW err, NEW retry, NEW learned, err # "none",
             AttemptFails(r, err, retry, learned), pc[r] \in {"send", "await"}
      PROVE  RemoteStep
  <2>1. Status(r) = "running" /\ Status(r)' \in {"running", "failed"}
    BY <1>4 DEF ClientInv, ClientTypeOK, AttemptFails, Status
  <2>2. QED
    BY <1>1, <1>2, <2>1, LocalStepImplements
<1>5. CASE BuildFails(r) \/ SendCancelled(r) \/ TransportFails(r) \/ BodyFails(r)
  BY <1>4, <1>5 DEF BuildFails, SendCancelled, TransportFails, BodyFails
<1>6. CASE Refused(r)
  <2>1. Classify(reply[r]).err # "none"
    BY <1>6, ClassifyFacts, ReplyIsResponse DEF ClientInv, Refused
  <2>2. QED
    BY <1>4, <1>6, <2>1 DEF Refused
<1>7. CASE Succeed(r)
  <2>1. Status(r) = "running" /\ Status(r)' \in {"ok", "failed"}
    BY <1>7 DEF ClientInv, ClientTypeOK, Succeed, Status
  <2>2. attempt[r] \in CopiesRun(r)
    <3>1. reply[r] # NoReply
      BY <1>7 DEF Succeed, NoReply
    <3>2. attempt[r] \in Attempts
      BY <1>7, ClientAssumption DEF ClientInv, ClientTypeOK, VerdictsOrdered, Succeed, Attempts
    <3>3. QED
      BY <1>7, <3>1, <3>2 DEF ClientInv, RepliesTrue, Succeed, CopiesRun
  <2>3. QED
    BY <1>1, <1>2, <2>1, <2>2, LocalStepImplements
<1>8. CASE GiveUp(r)
  <2>1. Status(r) = "running" /\ Status(r)' = "failed"
    BY <1>8 DEF ClientInv, ClientTypeOK, GiveUp, Status
  <2>2. QED
    BY <1>1, <1>2, <2>1, LocalStepImplements
<1>9. QED
  BY <1>3, <1>5, <1>6, <1>7, <1>8 DEF ClientStep

\* Every step is one of RemoteCall, or leaves its variables alone.
LEMMA ClientNextImplements ==
  ASSUME ClientInv, [ClientNext]_clientVars
  PROVE  RemoteStep
<1>1. ASSUME NEW r \in Requests, Call(r) PROVE RemoteStep
  <2>1. /\ \A q \in Requests \ {r} : Status(q)' = Status(q)
        /\ Status(r) = "idle" /\ Status(r)' = "running"
        /\ executed' = executed
    BY <1>1 DEF ClientInv, ClientTypeOK, Call, serverVars, Status
  <2>2. QED
    BY <2>1, LocalStepImplements
<1>2. ASSUME UNCHANGED <<pc, lastErr, executed>> PROVE RemoteStep
  BY <1>2 DEF RemoteStep, Remote!remoteVars
<1>3. ASSUME NEW m \in wire, ServerHandles(m) PROVE RemoteStep
  <2>1. m \in Copies /\ m.req \in Requests /\ m.try \in Attempts
    BY DEF ClientInv, ClientTypeOK, Copies
  <2>2. UNCHANGED <<pc, lastErr>> /\ executed' \in {executed, executed \cup {m}}
    BY <1>3 DEF ServerHandles
  <2>3. CASE executed' = executed
    BY <1>2, <2>2, <2>3
  <2>4. CASE executed' = executed \cup {m}
    <3>1. m \notin executed
      BY DEF ClientInv, CopiesSent
    <3>2. m = [req |-> m.req, try |-> m.try]
      BY <2>1 DEF Copies
    <3>3. pc[m.req] # "idle"
      BY <2>1, ClientAssumption
      DEF ClientInv, ClientTypeOK, CopiesSent, VerdictsOrdered, Outside, Attempts
    <3>4. [q \in Requests |-> CopiesRun(q)]' =
            [[q \in Requests |-> CopiesRun(q)] EXCEPT ![m.req] = @ \cup {m.try}]
      <4>1. \A q \in Requests, t \in Attempts :
              [req |-> q, try |-> t] = m <=> q = m.req /\ t = m.try
        BY <3>2
      <4>2. \A q \in Requests :
              CopiesRun(q)' = IF q = m.req THEN CopiesRun(q) \cup {m.try} ELSE CopiesRun(q)
        BY <2>1, <2>4, <4>1 DEF CopiesRun
      <4>3. QED
        BY <2>1, <4>2
    <3>5. m.try \notin CopiesRun(m.req)
      BY <3>1, <3>2 DEF CopiesRun
    <3>6. Remote!Execute(m.req)
      BY <2>1, <2>2, <3>3, <3>4, <3>5 DEF Remote!Execute, CopiesRun, Attempts
    <3>7. QED
      BY <2>1, <3>6 DEF RemoteStep, Remote!RemoteNext
  <2>5. QED
    BY <2>2, <2>3, <2>4
<1>4. CASE \/ \E r \in Requests : Cancel(r)
           \/ \E m \in wire : WireLoses(m)
           \/ UNCHANGED clientVars
  BY <1>2, <1>4 DEF Cancel, WireLoses, localVars, serverVars, clientVars
<1>5. QED
  BY <1>1, <1>3, <1>4, ClientStepImplements DEF ClientNext, NetworkStep

\* The client's request path implements the promise of RemoteCall: at most one
\* execution for each copy sent, success only for what was executed.
THEOREM ClientImplementsRemoteCall == ClientSpec => RemoteSpec
<1>1. ClientInv /\ [ClientNext]_clientVars => [Remote!RemoteNext]_(Remote!remoteVars)
  BY ClientNextImplements DEF RemoteStep
<1>2. QED
  BY <1>1, RemoteInitHolds, ClientInvariant, PTL DEF ClientSpec, RemoteSpec, Remote!RemoteSpec

=============================================================================
