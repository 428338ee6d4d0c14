-------------------------- MODULE RerunToolProofs ---------------------------
(***************************************************************************)
(* Theorems about RerunTool for every set of calls, arguments and answers. *)
(* Whatever the tool does to the client's variables is a step of the       *)
(* client, so ClientInv holds here too; RerunInv adds how the tool's own   *)
(* variables follow the client's.                                          *)
(***************************************************************************)
EXTENDS RerunTool, GithubClientProofs

Admitted(r) == input[r] # NoInput /\ ~Invalid(input[r]) /\ ~under[r].disableMutations

\* A call's stage agrees with the client's, and only an admitted call has a client.
StagesLinked ==
  \A r \in Calls :
    /\ stage[r] = "new" => pc[r] = "idle"
    /\ pc[r] # "idle" => Admitted(r)
    /\ stage[r] \in {"answer", "answered"} => pc[r] \in {"idle", "done"}

\* The client accepts an answer only as a success: there is nothing to decode.
AcceptedIsOk ==
  \A r \in Requests : \A t \in Attempts :
    verdict[r][t] = "accepted" => Ok(r)

AnswersLinked ==
  \A r \in Calls : stage[r] \in {"answer", "answered"} =>
    (answer[r] = "requested" <=> Ok(r))

EventsLinked ==
  /\ \A e \in trail : pc[e.call] = "done" /\ e.outcome = Outcome(e.call)
  /\ \A r \in Calls :
       stage[r] \in {"answer", "answered"} /\ pc[r] = "done" /\ ~auditErr[r] =>
         \E e \in trail : e.call = r

ToolInv ==
  /\ TypeOK
  /\ StagesLinked
  /\ AnswersLinked
  /\ EventsLinked

RerunInv == ClientInv /\ AcceptedIsOk /\ ToolInv

-----------------------------------------------------------------------------
(* The client inside the tool.                                              *)

\* Every step of the tool is a step of the client, or leaves it alone.
LEMMA RerunStepIsClientStep == [Next]_vars => [ClientNext]_clientVars
BY DEF Next, Reject, Admit, Request, EmitAudit, Answer, CancelCall, Network, Crash,
       StartServer, Calls, ClientNext, vars

\* What the tool can see of a client's step: it moves one call that is in
\* progress, or a call that begins, and touches no other.
LEMMA ClientStepEffect ==
  ASSUME ClientTypeOK, NEW r \in Requests, ClientStep(r)
  PROVE  /\ pc[r] \notin {"idle", "done"} /\ pc'[r] # "idle"
         /\ \A q \in Requests \ {r} :
              pc'[q] = pc[q] /\ lastErr'[q] = lastErr[q] /\ verdict'[q] = verdict[q]
<1>1. ASSUME NEW err, NEW retry, NEW learned, AttemptFails(r, err, retry, learned)
      PROVE  /\ pc'[r] # "idle"
             /\ \A q \in Requests \ {r} :
                  pc'[q] = pc[q] /\ lastErr'[q] = lastErr[q] /\ verdict'[q] = verdict[q]
  BY <1>1 DEF ClientTypeOK, AttemptFails
<1>2. QED
  BY <1>1 DEF ClientTypeOK, ClientStep, BuildFails, Send, SendCancelled, TransportFails, BodyFails,
              Succeed, Refused, Retry, GiveUp

\* An accepted attempt is the last, and its call reports it.
LEMMA AcceptedIsOkStep ==
  ASSUME ClientInv, AcceptedIsOk, [ClientNext]_clientVars
  PROVE  AcceptedIsOk'
<1>1. ASSUME NEW r \in Requests, ClientStep(r) PROVE AcceptedIsOk'
  <2>1. \A t \in Attempts : verdict[r][t] # "accepted"
    BY <1>1, ClientStepEffect DEF ClientInv, AcceptedIsOk, Ok
  <2>2. ASSUME NEW err, NEW retry, NEW learned, learned # "accepted",
               AttemptFails(r, err, retry, learned)
        PROVE  \A t \in Attempts : verdict'[r][t] # "accepted"
    BY <2>1, <2>2 DEF ClientInv, ClientTypeOK, AttemptFails
  <2>3. CASE Succeed(r)
    <3>1. pc'[r] = "done" /\ lastErr'[r] = "none"
      BY <2>3, RerunAssumption DEF ClientInv, ClientTypeOK, Succeed
    <3>2. QED
      BY <1>1, <3>1, ClientStepEffect DEF ClientInv, AcceptedIsOk, Ok
  <2>4. CASE BuildFails(r) \/ SendCancelled(r) \/ TransportFails(r) \/ BodyFails(r)
    BY ZenonT(30), <1>1, <2>2, <2>4, ClientStepEffect
    DEF ClientInv, AcceptedIsOk, Ok, BuildFails, SendCancelled, TransportFails, BodyFails
  <2>5. CASE Refused(r)
    <3>1. Learned(reply[r]) # "accepted"
      BY <2>5, ClassifyFacts, ReplyIsResponse DEF ClientInv, Refused
    <3>2. QED
      BY <1>1, <2>2, <2>5, <3>1, ClientStepEffect DEF ClientInv, AcceptedIsOk, Ok, Refused
  <2>6. CASE Send(r) \/ Retry(r) \/ GiveUp(r)
    <3>1. verdict' = verdict
      BY <2>6 DEF Send, Retry, GiveUp
    <3>2. QED
      BY <1>1, <2>1, <3>1, ClientStepEffect DEF ClientInv, AcceptedIsOk, Ok
  <2>7. QED
    BY <1>1, <2>3, <2>4, <2>5, <2>6 DEF ClientStep
<1>2. ASSUME NEW r \in Requests, Call(r) PROVE AcceptedIsOk'
  BY <1>2 DEF ClientInv, ClientTypeOK, AcceptedIsOk, Ok, Call
<1>3. CASE UNCHANGED <<pc, lastErr, verdict>>
  BY <1>3 DEF AcceptedIsOk, Ok
<1>4. QED
  BY <1>1, <1>2, <1>3 DEF ClientNext, Cancel, NetworkStep, ServerHandles, WireLoses,
                          localVars, clientVars

\* A call none of whose requests has been written has touched nothing.
LEMMA TouchedBegun ==
  ASSUME ClientInv, NEW r \in Requests, Touched(r)
  PROVE  pc[r] # "idle"
<1>1. PICK m \in Outside : m.req = r
  BY DEF Touched, Outside
<1>2. m.try \in Attempts /\ m.try <= attempt[r]
  BY <1>1 DEF ClientInv, ClientTypeOK, CopiesSent, Outside, Copies
<1>3. attempt[r] # 0
  BY <1>2, ClientAssumption DEF Attempts
<1>4. QED
  BY <1>3 DEF ClientInv, VerdictsOrdered

-----------------------------------------------------------------------------
(* Each action keeps the invariant.                                         *)

\* Codes are what MapError returns.
LEMMA MapErrorCodes ==
  ASSUME NEW err \in Errors
  PROVE  MapError(err) \in Codes /\ MapError(err) # "requested"
BY DEF MapError, Codes, Errors, Sentinels, Unwrapped

\* A rejected call has no client, no event and no success to report.
LEMMA RejectStep ==
  ASSUME RerunInv, ClientInv', NEW r \in Calls, NEW in \in Inputs, Reject(r, in)
  PROVE  ToolInv'
<1>1. TypeOK'
  BY DEF RerunInv, ToolInv, TypeOK, ClientInv, Reject, Arrives, Codes, procVars, logVars
<1>2. StagesLinked'
  BY DEF RerunInv, ToolInv, TypeOK, StagesLinked, Admitted, Reject, Arrives, clientVars
<1>3. AnswersLinked'
  BY DEF RerunInv, ToolInv, TypeOK, StagesLinked, AnswersLinked, Ok, Reject, Arrives, clientVars
<1>4. EventsLinked'
  BY DEF RerunInv, ToolInv, TypeOK, StagesLinked, EventsLinked, Outcome, Reject, Arrives,
         clientVars, logVars
<1>5. QED
  BY <1>1, <1>2, <1>3, <1>4 DEF ToolInv

\* An admitted call is one whose arguments and configuration allow it.
LEMMA AdmitStep ==
  ASSUME RerunInv, ClientInv', NEW r \in Calls, NEW in \in Inputs, Admit(r, in)
  PROVE  ToolInv'
<1>1. TypeOK'
  BY DEF RerunInv, ToolInv, TypeOK, ClientInv, Admit, Arrives, procVars, logVars
<1>2. in # NoInput
  BY RerunAssumption DEF InputSpace, NoInput
<1>3. StagesLinked'
  BY <1>2 DEF RerunInv, ToolInv, TypeOK, ClientInv, ClientTypeOK, StagesLinked, Admitted,
              Admit, Arrives, Call, Calls
<1>4. AnswersLinked'
  BY DEF RerunInv, ToolInv, TypeOK, ClientInv, ClientTypeOK, StagesLinked, AnswersLinked, Ok,
         Admit, Arrives, Call, Calls
<1>5. EventsLinked'
  BY DEF RerunInv, ToolInv, TypeOK, ClientInv, ClientTypeOK, StagesLinked, EventsLinked, Outcome,
         Admit, Arrives, Call, Calls, logVars
<1>6. QED
  BY <1>1, <1>3, <1>4, <1>5 DEF ToolInv

\* The client moves while the tool waits: the stages of no call change.
LEMMA RequestStep ==
  ASSUME RerunInv, ClientInv', NEW r \in Calls, Request(r)
  PROVE  ToolInv'
<1>1. /\ pc[r] \notin {"idle", "done"} /\ pc'[r] # "idle"
      /\ \A q \in Calls \ {r} : pc'[q] = pc[q] /\ lastErr'[q] = lastErr[q]
  BY ClientStepEffect DEF RerunInv, ClientInv, Request, Calls
<1>2. stage[r] = "client" /\ UNCHANGED toolVars
  BY DEF Request
<1>3. TypeOK'
  BY <1>2 DEF RerunInv, ToolInv, TypeOK, ClientInv, toolVars
<1>4. StagesLinked'
  BY <1>1, <1>2 DEF RerunInv, ToolInv, StagesLinked, Admitted, toolVars
<1>5. AnswersLinked'
  BY <1>1, <1>2 DEF RerunInv, ToolInv, AnswersLinked, Ok, toolVars
<1>6. EventsLinked'
  BY <1>1, <1>2 DEF RerunInv, ToolInv, TypeOK, EventsLinked, Events, Outcome, toolVars
<1>7. QED
  BY <1>3, <1>4, <1>5, <1>6 DEF ToolInv

\* The event and the answer are both read from the error the client returned.
LEMMA EmitAuditStep ==
  ASSUME RerunInv, ClientInv', NEW r \in Calls, EmitAudit(r)
  PROVE  ToolInv'
<1> USE DEF Calls
<1>1. answer'[r] \in Codes \cup {"requested"} /\ (answer'[r] = "requested" <=> lastErr[r] = "none")
  <2>1. lastErr[r] \in Errors \cup {"none"}
    BY DEF RerunInv, ClientInv, ClientTypeOK
  <2>2. QED
    BY <2>1, MapErrorCodes DEF RerunInv, ToolInv, TypeOK, EmitAudit
<1>2. TypeOK'
  <2>1. Outcome(r) \in Outcomes
    BY DEF Outcome, Outcomes
  <2>2. trail' \subseteq Events
    BY <2>1 DEF RerunInv, ToolInv, TypeOK, EmitAudit, Events
  <2>3. answer' \in [Calls -> Codes \cup {"requested", "none"}]
    BY <1>1 DEF RerunInv, ToolInv, TypeOK, EmitAudit
  <2>4. QED
    BY <2>2, <2>3 DEF RerunInv, ToolInv, TypeOK, ClientInv, EmitAudit, procVars
<1>3. StagesLinked'
  BY DEF RerunInv, ToolInv, TypeOK, StagesLinked, Admitted, EmitAudit, clientVars
<1>4. AnswersLinked'
  BY <1>1 DEF RerunInv, ToolInv, TypeOK, AnswersLinked, Ok, EmitAudit, clientVars
<1>5. EventsLinked'
  <2> DEFINE event == [call |-> r, outcome |-> Outcome(r)]
  <2>1. \/ trail' = trail \cup {event} /\ auditErr' = auditErr
        \/ trail' = trail /\ auditErr' = [auditErr EXCEPT ![r] = TRUE]
    BY DEF EmitAudit
  <2>2. UNCHANGED <<pc, lastErr>> /\ pc[r] = "done"
    BY DEF EmitAudit, clientVars
  <2>3. \A q \in Calls \ {r} : stage'[q] = stage[q] /\ auditErr'[q] = auditErr[q]
    BY <2>1 DEF RerunInv, ToolInv, TypeOK, EmitAudit
  <2>4. \A e \in trail' : pc'[e.call] = "done" /\ e.outcome = Outcome(e.call)'
    BY <2>1, <2>2 DEF RerunInv, ToolInv, EventsLinked, Outcome
  <2>5. auditErr'[r] \/ \E e \in trail' : e.call = r
    <3>1. CASE trail' = trail \cup {event}
      <4>1. event \in trail' /\ event.call = r
        BY <3>1
      <4>2. QED
        BY <4>1
    <3>2. CASE auditErr' = [auditErr EXCEPT ![r] = TRUE]
      BY <3>2 DEF RerunInv, ToolInv, TypeOK
    <3>3. QED
      BY <2>1, <3>1, <3>2
  <2>6. trail \subseteq trail'
    BY <2>1
  <2>7. QED
    BY <2>2, <2>3, <2>4, <2>5, <2>6 DEF RerunInv, ToolInv, EventsLinked
<1>6. QED
  BY <1>2, <1>3, <1>4, <1>5 DEF ToolInv

\* The answer is returned as it was made.
LEMMA AnswerStep ==
  ASSUME RerunInv, ClientInv', NEW r \in Calls, Answer(r)
  PROVE  ToolInv'
<1>1. TypeOK'
  BY DEF RerunInv, ToolInv, TypeOK, ClientInv, Answer, procVars, logVars
<1>2. StagesLinked'
  BY DEF RerunInv, ToolInv, TypeOK, StagesLinked, Admitted, Answer, clientVars
<1>3. AnswersLinked'
  BY DEF RerunInv, ToolInv, TypeOK, AnswersLinked, Ok, Answer, clientVars
<1>4. EventsLinked'
  BY DEF RerunInv, ToolInv, TypeOK, EventsLinked, Outcome, Answer, clientVars, logVars
<1>5. QED
  BY <1>1, <1>2, <1>3, <1>4 DEF ToolInv

\* The tool's variables, and what they are linked to, are left alone.
LEMMA EnvironmentStep ==
  ASSUME RerunInv, ClientInv', (\E r \in Calls : CancelCall(r)) \/ Network
  PROVE  ToolInv'
<1>1. UNCHANGED <<pc, lastErr, toolVars>>
  BY DEF CancelCall, Cancel, Network, NetworkStep, ServerHandles, WireLoses, localVars
<1>2. QED
  BY <1>1
  DEF RerunInv, ToolInv, TypeOK, ClientInv, StagesLinked, Admitted, AnswersLinked, Ok,
      EventsLinked, Outcome, toolVars

\* Calls answered stay so, and the others are in no stage that promises anything.
LEMMA CrashStep ==
  ASSUME RerunInv, ClientInv', Crash
  PROVE  ToolInv'
<1>1. TypeOK'
  BY DEF RerunInv, ToolInv, TypeOK, ClientInv, Crash, logVars
<1>2. \A r \in Calls : stage'[r] \in {"answer", "answered"} => stage[r] = "answered"
  BY DEF Crash
<1>3. StagesLinked' /\ AnswersLinked' /\ EventsLinked'
  BY <1>2 DEF RerunInv, ToolInv, TypeOK, StagesLinked, Admitted, AnswersLinked, Ok,
              EventsLinked, Outcome, Crash, clientVars, logVars
<1>4. QED
  BY <1>1, <1>3 DEF ToolInv

\* A new process knows none of the calls of the last.
LEMMA StartServerStep ==
  ASSUME RerunInv, ClientInv', StartServer
  PROVE  ToolInv'
<1>1. TypeOK'
  BY DEF RerunInv, ToolInv, TypeOK, ClientInv, StartServer, callVars, logVars
<1>2. StagesLinked' /\ AnswersLinked' /\ EventsLinked'
  BY DEF RerunInv, ToolInv, StagesLinked, Admitted, AnswersLinked, Ok, EventsLinked, Outcome,
         StartServer, clientVars, callVars, logVars
<1>3. QED
  BY <1>1, <1>2 DEF ToolInv

-----------------------------------------------------------------------------
(* The invariant.                                                           *)

\* No call has been received.
LEMMA RerunInvInit == Init => RerunInv
<1> SUFFICES ASSUME Init PROVE RerunInv
  OBVIOUS
<1>1. ClientInv
  BY ClientInvInit DEF Init
<1>2. AcceptedIsOk
  BY DEF Init, ClientInit, AcceptedIsOk
<1>3. TypeOK
  BY <1>1 DEF Init, ClientInv, TypeOK, Calls
<1>4. StagesLinked /\ AnswersLinked /\ EventsLinked
  BY DEF Init, ClientInit, StagesLinked, AnswersLinked, EventsLinked, Calls
<1>5. QED
  BY <1>1, <1>2, <1>3, <1>4 DEF RerunInv, ToolInv

\* Every step keeps the invariant: the client's part by the client's own lemma.
LEMMA RerunInvStep == RerunInv /\ [Next]_vars => RerunInv'
<1> SUFFICES ASSUME RerunInv, [Next]_vars PROVE RerunInv'
  OBVIOUS
<1>1. ClientInv' /\ AcceptedIsOk'
  BY RerunStepIsClientStep, ClientInvStep, AcceptedIsOkStep DEF RerunInv
<1>2. CASE \E r \in Calls, in \in Inputs : Reject(r, in) \/ Admit(r, in)
  BY <1>1, <1>2, RejectStep, AdmitStep DEF RerunInv
<1>3. CASE \E r \in Calls : Request(r) \/ EmitAudit(r) \/ Answer(r)
  BY <1>1, <1>3, RequestStep, EmitAuditStep, AnswerStep DEF RerunInv
<1>4. CASE (\E r \in Calls : CancelCall(r)) \/ Network
  BY <1>1, <1>4, EnvironmentStep DEF RerunInv
<1>5. CASE Crash \/ StartServer
  BY <1>1, <1>5, CrashStep, StartServerStep DEF RerunInv
<1>6. CASE UNCHANGED vars
  <2>1. UNCHANGED toolVars /\ UNCHANGED <<pc, lastErr>>
    BY <1>6 DEF vars, clientVars
  <2>2. ToolInv'
    BY <1>1, <2>1
    DEF RerunInv, ToolInv, TypeOK, ClientInv, StagesLinked, Admitted, AnswersLinked, Ok,
        EventsLinked, Outcome, toolVars
  <2>3. QED
    BY <1>1, <2>2 DEF RerunInv
<1>7. QED
  BY <1>2, <1>3, <1>4, <1>5, <1>6 DEF Next

\* RerunInv holds in every state of the server, its callers and its provider.
THEOREM RerunInvariant == Spec => []RerunInv
BY RerunInvInit, RerunInvStep, PTL DEF Spec

\* The variables keep to their types.
THEOREM RerunTypeCorrect == Spec => []TypeOK
<1>1. RerunInv => TypeOK
  BY DEF RerunInv, ToolInv
<1>2. QED
  BY <1>1, RerunInvariant, PTL

-----------------------------------------------------------------------------
(* The properties.                                                          *)

\* A call that is rejected never reaches the provider, in any later state and
\* whatever configuration later processes have.
THEOREM MutationGateHolds == Spec => []MutationGate
<1>1. RerunInv => MutationGate
  BY TouchedBegun DEF RerunInv, ToolInv, StagesLinked, Admitted, MutationGate, Calls
<1>2. QED
  BY <1>1, RerunInvariant, PTL

\* A call that has not succeeded, and with no attempt in doubt, touched nothing.
LEMMA UntouchedUnlessInDoubt ==
  ASSUME RerunInv, NEW r \in Calls, pc[r] \in {"idle", "done"}, ~Ok(r), ~InDoubt(r)
  PROVE  ~Touched(r)
<1>1. CASE pc[r] = "idle"
  BY <1>1, TouchedBegun DEF RerunInv, Calls
<1>2. CASE pc[r] = "done"
  <2>1. \A t \in Attempts : verdict[r][t] \notin {"unsure", "accepted"}
    BY DEF RerunInv, AcceptedIsOk, InDoubt, Calls
  <2>2. QED
    BY <1>2, <2>1, CleanFailureFromInv DEF RerunInv, CleanFailure, Touched, Calls
<1>3. QED
  BY <1>1, <1>2

\* A call that succeeded ran.
LEMMA OkRan ==
  ASSUME RerunInv, NEW r \in Calls, Ok(r)
  PROVE  Ran(r)
BY DEF RerunInv, ClientInv, SuccessRan, Ok, Ran, Calls

\* The audit log never says of a rerun what the server cannot know.
THEOREM AuditIsTruthfulHolds == Spec => []AuditIsTruthful
<1>1. ASSUME RerunInv, NEW e \in trail
      PROVE  /\ e.outcome = "success" => Ran(e.call)
             /\ e.outcome = "failed" /\ ~InDoubt(e.call) => ~Touched(e.call)
  <2>1. e.call \in Calls /\ pc[e.call] = "done" /\ e.outcome = Outcome(e.call)
    BY <1>1 DEF RerunInv, ToolInv, TypeOK, EventsLinked, Events
  <2>2. e.outcome = "success" <=> Ok(e.call)
    BY <2>1 DEF Outcome, Ok
  <2>3. QED
    BY <1>1, <2>1, <2>2, OkRan, UntouchedUnlessInDoubt
<1>2. RerunInv => AuditIsTruthful
  BY <1>1 DEF AuditIsTruthful
<1>3. QED
  BY <1>2, RerunInvariant, PTL

\* What the caller is told agrees with what the provider has done and will do.
THEOREM AnswerIsTruthfulHolds == Spec => []AnswerIsTruthful
<1>1. ASSUME RerunInv, NEW r \in Calls, stage[r] = "answered"
      PROVE  /\ answer[r] = "requested" => Ran(r)
             /\ answer[r] # "requested" /\ ~InDoubt(r) => ~Touched(r)
  <2>1. pc[r] \in {"idle", "done"} /\ (answer[r] = "requested" <=> Ok(r))
    BY <1>1 DEF RerunInv, ToolInv, StagesLinked, AnswersLinked
  <2>2. QED
    BY <1>1, <2>1, OkRan, UntouchedUnlessInDoubt
<1>2. RerunInv => AnswerIsTruthful
  BY <1>1 DEF AnswerIsTruthful
<1>3. QED
  BY <1>2, RerunInvariant, PTL

\* An answered call that reached the provider is in the audit log, unless Append
\* failed, with the outcome its caller was told.
THEOREM AnswerIsAuditedHolds == Spec => []AnswerIsAudited
<1>1. ASSUME RerunInv, NEW r \in Calls, stage[r] = "answered"
      PROVE  /\ Touched(r) /\ ~auditErr[r] => \E e \in trail : e.call = r
             /\ \A e \in trail : e.call = r => (e.outcome = "success" <=> answer[r] = "requested")
  <2>1. Touched(r) => pc[r] = "done"
    BY <1>1, TouchedBegun DEF RerunInv, ToolInv, StagesLinked, Calls
  <2>2. answer[r] = "requested" <=> Ok(r)
    BY <1>1 DEF RerunInv, ToolInv, AnswersLinked
  <2>3. QED
    BY <1>1, <2>1, <2>2 DEF RerunInv, ToolInv, EventsLinked, Outcome, Ok
<1>2. RerunInv => AnswerIsAudited
  BY <1>1 DEF AnswerIsAudited
<1>3. QED
  BY <1>2, RerunInvariant, PTL

\* The client's own guarantees hold inside the tool, through crashes and
\* restarts of the process that runs it.
THEOREM ClientGuaranteesHold ==
  Spec => [](CleanFailure /\ ExecutionsExplained /\ RetryIsJustified)
<1>1. RerunInv => CleanFailure /\ ExecutionsExplained /\ RetryIsJustified
  BY CleanFailureFromInv, ExecutionsExplainedFromInv, RetryIsJustifiedFromInv DEF RerunInv
<1>2. QED
  BY <1>1, RerunInvariant, PTL
=============================================================================
