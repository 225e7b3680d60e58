-------------------------- MODULE OrchestratorProofs --------------------------
(***************************************************************************)
(* Theorems about Orchestrator, for any number of deliveries of each       *)
(* request and any number of faults.                                       *)
(***************************************************************************)
EXTENDS Orchestrator, PathProofs

-----------------------------------------------------------------------------
(* The inductive invariant, part by part.                                  *)

ReportSteps   == {"screen", "route", "consult", "hand_off", "investigate",
                  "propose", "evaluate", "decide", "deny", "ask", "attach",
                  "park", "allow"}
PipelineSteps == {"enter", "mark_failed"}
CallSteps     == {"call", "wait", "executed", "verifying"}
CloseSteps    == {"verify", "terminalize", "reject", "resolve"}
FailureSteps  == {"fail", "settle", "escalate", "walk", "save"}
EndSteps      == {"done", "lost"}

Steps == ReportSteps \cup PipelineSteps \cup CallSteps \cup CloseSteps
           \cup FailureSteps \cup EndSteps
           \cup {"idle", "check", "approve", "give_up", "close", "close_mark"}

(* Where a handler can be, by the request it serves.                       *)
Serves(h, step) ==
  /\ step \in Steps
  /\ step \in ReportSteps => h = Workflow
  /\ step \in {"check", "approve"} => h \in Resumes
  /\ step \in {"close", "close_mark"} => h \in Approvers
  /\ step = "give_up" => h \in Reconciles
  /\ step \in PipelineSteps => h \in Callers \ Reconciles
  /\ step \in CallSteps \cup CloseSteps => h \in Callers
  /\ step = "idle" => h # Workflow

Categories ==
  IntakeFailures \cup InvestigationFailures \cup DenialFailures
    \cup ApprovalFailures \cup ReconcilableFailures
    \cup {"none", "REMEDIATION_FAILED", "VERIFICATION_FAILED", "STALE_EVIDENCE",
          "TARGET_NO_LONGER_HEALTHY"}

(* What a walk of a failure passes through: it claims nothing.             *)
RestingStatuses == {"ESCALATED"} \cup RECONCILABLE_STATES

RunStates == {"none", "called", "observe", "reread", "request", "await", "ended"}
PutStates == {"none", "inflight", "accepted", "refused", "lost"}
Kinds     == {"REFUSED", "DUPLICATE", "RECONCILED", "DID_NOT_HOLD", "STALE",
              "UNHEALTHY", "MUTATED", "CONFLICT_RETRYABLE", "CONFLICT",
              "OUTCOME_UNKNOWN"}
ExecStates == Store!OPEN_STATES \cup Store!TERMINAL_STATES \cup {"ABSENT"}
Answers   == {NoAnswer} \cup [kind : Kinds, state : ExecStates, predates : BOOLEAN]

IncidentTyped ==
  /\ status \in Statuses
  /\ decision \in {"none", "AUTO_ALLOWED", "APPROVAL_REQUIRED", "DENIED"}
  /\ approval \in {"none", "PENDING", "APPROVED", "REJECTED", "EXPIRED"}
  /\ attached \in BOOLEAN /\ overdue \in BOOLEAN
  /\ handover.category \in Categories /\ handover.changed \in {"no", "yes", "unknown"}

ExecutionTyped ==
  /\ exec \in Store!Record /\ seen \in [Callers -> Store!Record]
  /\ run \in [Callers -> RunStates] /\ put \in [Callers -> PutStates]
  /\ serving \in Revisions /\ desired \in Revisions
  /\ answer \in [Callers -> Answers]

LocalTyped ==
  /\ pc \in [Handlers -> Steps] /\ \A h \in Handlers : Serves(h, pc[h])
  /\ cat \in [Handlers -> Categories] /\ read \in [Handlers -> Statuses]
  /\ changed \in [Handlers -> Beliefs]
  /\ route \in [Handlers -> Seq(RestingStatuses)]
  /\ \A h \in Handlers : pc[h] = "walk" => route[h] # <<>>
  /\ faults \in 0..MaxFaults

TypeInv == IncidentTyped /\ ExecutionTyped /\ LocalTyped

(* Until the policy has decided, the incident is the workflow's alone, and *)
(* it stays so when the policy denies.                                     *)
BeforeDecision == {"screen", "route", "consult", "hand_off", "investigate",
                   "propose", "evaluate", "decide"}

Bystanding == {"idle", "check", "done", "lost"}

OpeningStatus ==
  /\ pc[Workflow] \in {"screen", "route"} => status = "INTAKE"
  /\ pc[Workflow] \in {"consult", "hand_off", "investigate", "propose"}
       => status = "INVESTIGATING"
  /\ pc[Workflow] = "evaluate" => status = "PROPOSED"
  /\ pc[Workflow] \in {"decide", "deny"} => status = "POLICY_EVALUATED"

DecisionInv ==
  /\ pc[Workflow] \in BeforeDecision => decision = "none"
  /\ OpeningStatus
  /\ decision \in {"none", "DENIED"} =>
       /\ \A h \in Handlers \ {Workflow} : pc[h] \in Bystanding
       /\ \A c \in Callers : run[c] = "none"
       /\ pc[Workflow] \in BeforeDecision \cup {"deny"} \cup FailureSteps \cup EndSteps
  /\ pc[Workflow] = "deny" => decision = "DENIED"
  /\ decision = "DENIED" => status \in {"POLICY_EVALUATED", "DENIED", "ESCALATED"}
  /\ approval # "none" => decision = "APPROVAL_REQUIRED"
  /\ pc[Workflow] = "ask" => decision = "APPROVAL_REQUIRED" /\ approval = "none"
  /\ pc[Workflow] = "attach" => approval # "none"
  /\ attached => approval # "none"

(* A call that got as far as the lease was authorized, for good.           *)
Authorized == decision = "AUTO_ALLOWED"
                \/ (decision = "APPROVAL_REQUIRED" /\ approval = "APPROVED")

AuthorizedInv ==
  \A c \in Callers :
    /\ run[c] \in {"observe", "reread", "request", "await"} => Authorized
    /\ put[c] # "none" => Authorized

(* The incident is resolved by a handler that closed the execution.        *)
VerifiedInv ==
  status = "RESOLVED" \/ (\E h \in Handlers : pc[h] = "resolve")
    => exec.state = "VERIFIED"

(* Somebody is still to move an incident no endpoint can move.  A failure's*)
(* walk counts while its next transition is legal.                         *)
CarryingSteps ==
  ReportSteps \cup PipelineSteps \cup CloseSteps
    \cup {"executed", "verifying", "fail", "settle", "escalate", "lost"}

Carries(h) ==
  \/ pc[h] \in CarryingSteps
  \/ pc[h] \in {"call", "wait"} /\ h \notin Reconciles
  \/ pc[h] = "walk" /\ can_transition(status, Head(route[h]))

CarriedInv == status \notin Movable => \E h \in Handlers : Carries(h)

IInv == TypeInv /\ DecisionInv /\ AuthorizedInv /\ VerifiedInv /\ CarriedInv

(* A handler calls the executor once.                                      *)
BeforeCall == ReportSteps \cup {"idle", "check", "approve", "enter", "call"}

CallsOnceInv == \A c \in Callers : pc[c] \in BeforeCall => run[c] = "none"

(* A call that has not begun has left nothing, and only its end is         *)
(* answered.                                                               *)
RunsInv ==
  /\ exec.state # "ABSENT" => \E c \in Callers : run[c] \notin {"none", "called"}
  /\ \A c \in Callers :
       /\ run[c] \in {"none", "called"} => ~Attempted(c)
       /\ put[c] # "none" => run[c] \in {"await", "ended"}
       /\ run[c] # "ended" => answer[c] = NoAnswer

(* The workflow's own call is the first: until its answer is read nobody   *)
(* else has anything to do, so what the workflow believes it changed, it   *)
(* changed.                                                                *)
FirstSteps == {"allow", "enter", "call", "wait"}

OwnCallInv ==
  /\ pc[Workflow] \in FirstSteps =>
       /\ decision = "AUTO_ALLOWED"
       /\ status = CASE pc[Workflow] = "allow" -> "POLICY_EVALUATED"
                     [] pc[Workflow] = "enter" -> "AUTO_ALLOWED"
                     [] pc[Workflow] \in {"call", "wait"} -> "EXECUTING"
       /\ \A h \in Handlers \ {Workflow} : pc[h] \in Bystanding
       /\ \A c \in Callers \ {Workflow} : run[c] = "none"
  /\ pc[Workflow] = "wait" =>
       /\ ~Attempted(Workflow) /\ answer[Workflow].kind # "DUPLICATE"
       /\ answer[Workflow].kind = "MUTATED" => put[Workflow] = "accepted"
       /\ answer[Workflow].kind = "RECONCILED" => answer[Workflow].predates
  /\ changed[Workflow] # "absent" => put[Workflow] = "accepted"

-----------------------------------------------------------------------------
(* The routes of a failure.                                                *)

(* What leads where a failure comes to rest.                               *)
LEMMA WaysToRest ==
  /\ \A s \in Statuses : can_transition(s, "REMEDIATION_FAILED") => s = "VERIFYING"
  /\ \A s \in Statuses : can_transition(s, "EXECUTION_FAILED") => s = "EXECUTING"
  /\ \A s \in Statuses \ TERMINAL_STATES :
       s # "VERIFYING" => can_transition(s, "ESCALATED")
  /\ \A s \in TERMINAL_STATES, t \in Statuses : ~can_transition(s, t)
  /\ \A s \in Statuses : can_transition("VERIFYING", s)
                           <=> s \in {"RESOLVED", "REMEDIATION_FAILED"}
  /\ \A s \in Statuses : can_transition("REMEDIATION_FAILED", s)
                           <=> s \in {"ESCALATED", "VERIFYING"}
  /\ {"VERIFYING", "EXECUTING", "RESOLVED"} \subseteq ASSERTION_STATES
  BY DEF can_transition, LEGAL_TRANSITIONS, Statuses, TERMINAL_STATES, ASSERTION_STATES

(* A failure walks at most two steps, and only to where incidents rest.    *)
LEMMA RoutesRest ==
  ASSUME NEW target \in RestingStatuses, NEW s \in Statuses
  PROVE  /\ Routes[target][s] \in Seq(RestingStatuses)
         /\ Routes[target][s] # <<>> => can_transition(s, Head(Routes[target][s]))
         /\ target = "ESCALATED" /\ s \notin TERMINAL_STATES => Routes[target][s] # <<>>
<1>. DEFINE path  == path_to(s, target, ASSERTION_STATES)
            reach == Within(s, ASSERTION_STATES)
            ends  == Len(path)
<1>1. target \in Statuses /\ Routes[target][s] = path
  BY DEF RestingStatuses, RECONCILABLE_STATES, Statuses, Routes
<1>2. path \in Seq(Statuses) /\ ends <= 17 /\ IsShortestRoute(path, s, target, ASSERTION_STATES)
  BY <1>1, PathIsShortest
<1>3. target = "ESCALATED" /\ s \notin TERMINAL_STATES => path # <<>>
  <2>1. "REMEDIATION_FAILED" \notin ASSERTION_STATES
    BY DEF ASSERTION_STATES
  <2>. QED
    BY <2>1, OpenCanEscalate
<1>. HIDE DEF path
<1>4. CASE path = <<>>
  <2>1. <<>> \in Seq(RestingStatuses)
    BY EmptySeq
  <2>. QED
    BY <1>1, <1>3, <1>4, <2>1
<1>5. CASE path # <<>>
  <2>1. ends \in 1..17 /\ 1 \in 1..ends /\ \A i \in 1..ends : path[i] \in Statuses
    <3>1. ends \in Nat \ {0} /\ ends <= 17
      BY <1>2, <1>5, EmptySeq
    <3>2. \A i \in 1..ends : path[i] \in Statuses
      BY <1>2, ElementOfSeq
    <3>. HIDE DEF ends
    <3>. QED
      BY <3>1, <3>2
  <2>2. /\ path[ends] = target
        /\ can_transition(s, path[1]) /\ Head(path) = path[1]
        /\ \A i \in 1..ends : i # 1 => can_transition(path[i-1], path[i])
        /\ \A i \in 1..ends : i < ends => path[i] \notin ASSERTION_STATES
        /\ target \notin reach[ends - 1]
    BY <1>2, <1>5, <2>1 DEF IsShortestRoute, Last
  <2>3. ASSUME NEW i \in 1..ends PROVE path[i] \in RestingStatuses
    <3>. SUFFICES ASSUME i # ends PROVE path[i] \in RestingStatuses
      BY <2>2
    <3>1. /\ ends \in 2..17 /\ ends - 1 \in 1..ends /\ ends - 1 < ends /\ i < ends
          /\ 1 < ends
      <4>. HIDE DEF ends
      <4>. QED
        BY <2>1
    <3>2. path[ends - 1] \in Statuses \ ASSERTION_STATES /\ can_transition(path[ends - 1], target)
      BY <2>1, <2>2, <3>1
    <3>3. target = "ESCALATED"
      BY <3>2, WaysToRest DEF RestingStatuses, RECONCILABLE_STATES
    <3>4. s = "VERIFYING"
      <4>. SUFFICES ASSUME s # "VERIFYING" PROVE FALSE
        OBVIOUS
      <4>1. s \notin TERMINAL_STATES
        BY <2>1, <2>2, WaysToRest
      <4>2. can_transition(s, target)
        BY <3>3, <4>1, WaysToRest
      <4>3. target \in reach[0 + 1]
        <5>1. s \in reach[0] /\ Passable(s, s, ASSERTION_STATES)
          BY WithinDefined DEF Passable
        <5>2. 0 \in 0..16
          OBVIOUS
        <5>. QED
          BY <1>1, <4>2, <5>1, <5>2, NextIsWithin
      <4>4. ends - 1 \in 0..17 /\ 0 + 1 \in 0..(ends - 1)
        BY <3>1
      <4>5. reach[0 + 1] \subseteq reach[ends - 1]
        BY <4>4, WithinGrows
      <4>. QED
        BY <2>2, <4>3, <4>5
    <3>5. path[1] = "REMEDIATION_FAILED"
      <4>1. path[1] \in Statuses \ ASSERTION_STATES /\ can_transition("VERIFYING", path[1])
        BY <2>1, <2>2, <3>1, <3>4
      <4>. HIDE DEF ends
      <4>. QED
        BY <4>1, WaysToRest
    <3>6. ends = 2
      <4>. SUFFICES ASSUME ends # 2 PROVE FALSE
        OBVIOUS
      <4>1. /\ 2 \in 1..ends /\ 2 < ends /\ 2 - 1 = 1 /\ 2 # 1
            /\ 3 \in 1..ends /\ 3 - 1 = 2 /\ 3 # 1
        <5>. HIDE DEF ends
        <5>. QED
          BY <3>1
      <4>2. can_transition("REMEDIATION_FAILED", path[2]) /\ path[2] \notin ASSERTION_STATES
        BY <2>2, <3>5, <4>1
      <4>3. path[2] = "ESCALATED"
        BY <2>1, <4>1, <4>2, WaysToRest
      <4>4. can_transition("ESCALATED", path[3])
        BY <2>2, <4>1, <4>3
      <4>. QED
        BY <2>1, <4>1, <4>4, WaysToRest DEF TERMINAL_STATES
    <3>. QED
      BY <3>1, <3>5, <3>6 DEF RestingStatuses, RECONCILABLE_STATES
  <2>4. path \in Seq(RestingStatuses)
    <3>1. path \in [1..ends -> Statuses] /\ ends \in Nat
      BY <1>2, LenProperties
    <3>2. path \in [1..ends -> RestingStatuses]
      BY <2>3, <3>1
    <3>. QED
      BY <3>1, <3>2, SeqDef
  <2>. QED
    BY <1>1, <1>3, <2>2, <2>4
<1>. QED
  BY <1>4, <1>5

-----------------------------------------------------------------------------
(* The transitions handlers make, and the types.                           *)

(* <<at, target, next>> of every repo.transition of a handler.             *)
Hops ==
  {<<"route", "INVESTIGATING", "consult">>, <<"hand_off", "ESCALATED", "done">>,
   <<"propose", "PROPOSED", "evaluate">>, <<"evaluate", "POLICY_EVALUATED", "decide">>,
   <<"deny", "DENIED", "fail">>, <<"park", "WAITING_FOR_APPROVAL", "done">>,
   <<"allow", "AUTO_ALLOWED", "enter">>, <<"enter", "EXECUTING", "call">>,
   <<"mark_failed", "EXECUTION_FAILED", "fail">>, <<"executed", "EXECUTED", "verifying">>,
   <<"verifying", "VERIFYING", "verify">>, <<"reject", "REMEDIATION_FAILED", "fail">>,
   <<"resolve", "RESOLVED", "done">>, <<"approve", "APPROVED", "enter">>,
   <<"close_mark", "APPROVAL_DENIED", "fail">>, <<"close_mark", "APPROVAL_EXPIRED", "fail">>,
   <<"give_up", "ESCALATED", "done">>}

Hop(h) == \E hop \in Hops : Transition(h, hop[1], hop[2], hop[3])

Opens(h)    == Screen(h) \/ Consult(h) \/ Investigate(h) \/ SaveDecision(h)
                 \/ CreateApproval(h) \/ AttachApproval(h)
Calls(h)    == CallExecutor(h) \/ ReadReceipt(h) \/ UnreadableReceipt(h)
                 \/ ExecutorUnreachable(h)
Receives(h) == ReceiveResume(h) \/ CheckApproval(h) \/ Decide(h) \/ CloseUnapproved(h)
                 \/ ReceiveReconcile(h) \/ ReconcileReceipt(h) \/ ReconcileUnanswered(h)

(* A handler's step makes a transition or is one of the others.            *)
LEMMA HandlerCases ==
  ASSUME NEW h \in Handlers, HandlerStep(h)
  PROVE  Hop(h) \/ Opens(h) \/ Calls(h) \/ Verify(h) \/ Terminalize(h)
           \/ Receives(h) \/ Failing(h)
<1>. DEFINE mark == IF cat[h] = "APPROVAL_REJECTED" THEN "APPROVAL_DENIED"
                    ELSE "APPROVAL_EXPIRED"
<1>1. ASSUME NEW at, NEW target, NEW next, Transition(h, at, target, next),
             <<at, target, next>> \in Hops
      PROVE  Hop(h)
  BY <1>1 DEF Hop
<1>2. CreateIncident(h) => Hop(h) \/ Opens(h)
  <2>1. /\ <<"route", "INVESTIGATING", "consult">> \in Hops
        /\ <<"hand_off", "ESCALATED", "done">> \in Hops
        /\ <<"propose", "PROPOSED", "evaluate">> \in Hops
        /\ <<"evaluate", "POLICY_EVALUATED", "decide">> \in Hops
        /\ <<"deny", "DENIED", "fail">> \in Hops
        /\ <<"park", "WAITING_FOR_APPROVAL", "done">> \in Hops
        /\ <<"allow", "AUTO_ALLOWED", "enter">> \in Hops
    BY DEF Hops
  <2>. QED
    BY <1>1, <2>1, Zenon DEF CreateIncident, Opens
<1>3. Execute(h) => Hop(h) \/ Calls(h)
  <2>1. /\ <<"enter", "EXECUTING", "call">> \in Hops
        /\ <<"mark_failed", "EXECUTION_FAILED", "fail">> \in Hops
        /\ <<"executed", "EXECUTED", "verifying">> \in Hops
        /\ <<"verifying", "VERIFYING", "verify">> \in Hops
    BY DEF Hops
  <2>. QED
    BY <1>1, <2>1, Zenon DEF Execute, Calls
<1>4. VerifyAndClose(h) => Hop(h) \/ Verify(h) \/ Terminalize(h)
  <2>1. /\ <<"reject", "REMEDIATION_FAILED", "fail">> \in Hops
        /\ <<"resolve", "RESOLVED", "done">> \in Hops
    BY DEF Hops
  <2>. QED
    BY <1>1, <2>1, Zenon DEF VerifyAndClose
<1>5. Resume(h) => Hop(h) \/ Receives(h)
  <2>1. <<"approve", "APPROVED", "enter">> \in Hops
    BY DEF Hops
  <2>. QED
    BY <1>1, <2>1, Zenon DEF Resume, Receives
<1>6. Answer(h) => Hop(h) \/ Receives(h)
  <2>1. <<"close_mark", mark, "fail">> \in Hops
    BY DEF Hops
  <2>2. Answer(h) => Decide(h) \/ CloseUnapproved(h) \/ Transition(h, "close_mark", mark, "fail")
    BY DEF Answer
  <2>. HIDE DEF mark
  <2>. QED
    BY <1>1, <2>1, <2>2, Zenon DEF Receives
<1>7. Reconcile(h) => Hop(h) \/ Receives(h)
  <2>1. <<"give_up", "ESCALATED", "done">> \in Hops
    BY DEF Hops
  <2>. QED
    BY <1>1, <2>1, Zenon DEF Reconcile, Receives
<1>. QED
  BY <1>2, <1>3, <1>4, <1>5, <1>6, <1>7, Zenon DEF HandlerStep

(* A handler is where its request can lead it.                             *)
LEMMA ServesNext ==
  ASSUME NEW h \in Handlers
  PROVE  /\ \A step \in FailureSteps \cup EndSteps : Serves(h, step)
         /\ \A hop \in Hops : Serves(h, hop[1]) => Serves(h, hop[3])
         /\ \A step \in ReportSteps : Serves(h, step) =>
              h = Workflow /\ \A next \in ReportSteps : Serves(h, next)
         /\ \A step \in CallSteps \cup CloseSteps : Serves(h, step) =>
              /\ h \in Callers
              /\ \A next \in CallSteps \cup CloseSteps : Serves(h, next)
              /\ h \notin Reconciles => \A next \in PipelineSteps : Serves(h, next)
         /\ h \in Resumes => /\ \A step \in {"check", "approve"} : Serves(h, step)
                             /\ \A step \in PipelineSteps \cup CallSteps : Serves(h, step)
         /\ h \in Approvers => \A step \in {"close", "close_mark"} : Serves(h, step)
         /\ h \in Reconciles => \A step \in {"give_up"} \cup CallSteps : Serves(h, step)
<1>. USE DEF Serves, Steps, ReportSteps, PipelineSteps, CallSteps, CloseSteps, FailureSteps,
             EndSteps
<1>1. \A step \in FailureSteps \cup EndSteps : Serves(h, step)
  OBVIOUS
<1>2. ASSUME NEW hop \in Hops, Serves(h, hop[1]) PROVE Serves(h, hop[3])
  BY <1>2, OrchestratorAssumption DEF Hops, Handlers, Callers
<1>3. ASSUME NEW step \in ReportSteps, Serves(h, step)
      PROVE  h = Workflow /\ \A next \in ReportSteps : Serves(h, next)
  BY <1>3
<1>4. ASSUME NEW step \in CallSteps \cup CloseSteps, Serves(h, step)
      PROVE  /\ h \in Callers
             /\ \A next \in CallSteps \cup CloseSteps : Serves(h, next)
             /\ h \notin Reconciles => \A next \in PipelineSteps : Serves(h, next)
  BY <1>4
<1>5. h \in Resumes => /\ \A step \in {"check", "approve"} : Serves(h, step)
                       /\ \A step \in PipelineSteps \cup CallSteps : Serves(h, step)
  BY OrchestratorAssumption DEF Callers, Handlers
<1>6. h \in Approvers => \A step \in {"close", "close_mark"} : Serves(h, step)
  OBVIOUS
<1>7. h \in Reconciles => \A step \in {"give_up"} \cup CallSteps : Serves(h, step)
  BY OrchestratorAssumption DEF Callers, Handlers
<1>. QED
  BY <1>1, <1>2, <1>3, <1>4, <1>5, <1>6, <1>7, Zenon

(* A handler that goes to a step it may be at keeps the types.             *)
LEMMA GotoTyped ==
  ASSUME LocalTyped, NEW h \in Handlers, NEW step, Serves(h, step), step # "walk",
         Goto(h, step), faults' \in 0..MaxFaults
  PROVE  LocalTyped'
<1>1. pc' = [pc EXCEPT ![h] = step] /\ step \in Steps /\ UNCHANGED <<cat, route, read, changed>>
  BY DEF Goto, Serves
<1>2. pc' \in [Handlers -> Steps] /\ pc'[h] = step /\ \A g \in Handlers : g # h => pc'[g] = pc[g]
  BY <1>1 DEF LocalTyped
<1>. QED
  BY <1>1, <1>2 DEF LocalTyped

(* So does a handler that reports a failure.                               *)
LEMMA ReportTyped ==
  ASSUME LocalTyped, NEW h \in Handlers, NEW step, Serves(h, step), step # "walk",
         NEW category \in Categories, Report(h, category, step), faults' \in 0..MaxFaults
  PROVE  LocalTyped'
<1>1. /\ pc' = [pc EXCEPT ![h] = step] /\ step \in Steps
      /\ cat' = [cat EXCEPT ![h] = category] /\ UNCHANGED <<route, read, changed>>
  BY DEF Report, Serves
<1>2. pc' \in [Handlers -> Steps] /\ pc'[h] = step /\ \A g \in Handlers : g # h => pc'[g] = pc[g]
  BY <1>1 DEF LocalTyped
<1>3. cat' \in [Handlers -> Categories]
  BY <1>1 DEF LocalTyped
<1>. QED
  BY <1>1, <1>2, <1>3 DEF LocalTyped

(* And one that is interrupted by an exception.                            *)
LEMMA RaiseTyped ==
  ASSUME LocalTyped, NEW h \in Handlers, Raise(h), faults' \in 0..MaxFaults
  PROVE  LocalTyped'
<1>1. /\ Serves(h, "done") /\ Serves(h, "fail") /\ "done" # "walk" /\ "fail" # "walk"
      /\ "VERIFIER_UNAVAILABLE" \in Categories /\ "REMEDIATION_FAILED" \in Categories
  BY ServesNext DEF FailureSteps, EndSteps, Categories, ReconcilableFailures
<1>2. CASE Goto(h, "done")
  BY <1>1, <1>2, GotoTyped
<1>3. ASSUME NEW category \in Categories, Report(h, category, "fail") PROVE LocalTyped'
  BY <1>1, <1>3, ReportTyped
<1>. QED
  BY <1>1, <1>2, <1>3 DEF Raise, Fail

(* A route that is taken keeps the types.                                  *)
LEMMA DepartTyped ==
  ASSUME TypeInv, NEW h \in Handlers, NEW target \in RestingStatuses, Depart(h, target),
         UNCHANGED faults
  PROVE  LocalTyped'
<1>. DEFINE path == Routes[target][status]
            step == IF path = <<>> THEN "save" ELSE "walk"
<1>1. path \in Seq(RestingStatuses)
  BY RoutesRest DEF TypeInv, IncidentTyped
<1>. HIDE DEF path
<1>2. /\ route' = [route EXCEPT ![h] = path] /\ pc' = [pc EXCEPT ![h] = step]
      /\ UNCHANGED <<cat, read, changed>>
  BY DEF Depart, path
<1>3. Serves(h, step) /\ step \in Steps /\ (step = "walk" => path # <<>>)
  BY ServesNext DEF Serves, FailureSteps
<1>. HIDE DEF step
<1>4. /\ pc' \in [Handlers -> Steps] /\ pc'[h] = step
      /\ \A g \in Handlers : g # h => pc'[g] = pc[g] /\ route'[g] = route[g]
      /\ route'[h] = path /\ route' \in [Handlers -> Seq(RestingStatuses)]
  BY <1>1, <1>2, <1>3 DEF TypeInv, LocalTyped
<1>. QED
  BY <1>2, <1>3, <1>4 DEF TypeInv, LocalTyped

(* The steps of the five kinds keep a handler's types.                     *)
LEMMA HopTyped ==
  ASSUME TypeInv, NEW h \in Handlers, Hop(h)
  PROVE  TypeInv'
<1>1. PICK hop \in Hops : Transition(h, hop[1], hop[2], hop[3])
  BY DEF Hop
<1>2. hop[2] \in Statuses /\ hop[3] # "walk" /\ Serves(h, hop[3])
  <2>1. hop[2] \in Statuses /\ hop[3] # "walk"
    BY DEF Hops, Statuses
  <2>2. Serves(h, hop[1])
    BY <1>1 DEF Transition, At, TypeInv, LocalTyped
  <2>. QED
    BY <2>1, <2>2, ServesNext
<1>3. /\ \/ status' = hop[2] /\ Goto(h, hop[3])
         \/ UNCHANGED status /\ Raise(h)
      /\ UNCHANGED <<decision, approval, attached, overdue, handover, execution, faults>>
  BY <1>1, Zenon DEF Transition
<1>4. IncidentTyped'
  BY <1>2, <1>3 DEF TypeInv, IncidentTyped
<1>5. ExecutionTyped'
  BY <1>3 DEF TypeInv, ExecutionTyped, execution
<1>6. LocalTyped'
  <2>1. LocalTyped /\ faults' \in 0..MaxFaults
    BY <1>3 DEF TypeInv, LocalTyped
  <2>. QED
    BY <1>2, <1>3, <2>1, GotoTyped, RaiseTyped, Zenon
<1>. QED
  BY <1>4, <1>5, <1>6 DEF TypeInv

(* Opening an incident and deciding on it keeps the types.                 *)
LEMMA OpensTyped ==
  ASSUME TypeInv, NEW h \in Handlers, Opens(h)
  PROVE  TypeInv'
<1>1. LocalTyped /\ faults' \in 0..MaxFaults /\ UNCHANGED <<execution, status, overdue, handover>>
  BY DEF TypeInv, LocalTyped, Opens, Screen, Consult, Investigate, SaveDecision,
         CreateApproval, AttachApproval, Locally, incident
<1>2. IncidentTyped'
  BY DEF TypeInv, IncidentTyped, Opens, Screen, Consult, Investigate, SaveDecision,
         CreateApproval, AttachApproval, Locally, incident
<1>3. h = Workflow /\ \A step \in ReportSteps \cup FailureSteps : Serves(h, step)
  <2>1. pc[h] \in ReportSteps
    BY DEF Opens, Screen, Consult, Investigate, SaveDecision, CreateApproval, AttachApproval,
           At, ReportSteps
  <2>. QED
    BY <2>1, ServesNext DEF TypeInv, LocalTyped
<1>4. \/ \E step \in ReportSteps : Goto(h, step)
      \/ \E step \in ReportSteps \cup {"fail"}, category \in Categories :
           Report(h, category, step)
  <2>1. Screen(h) \/ Consult(h) \/ Investigate(h) =>
          \/ \E step \in ReportSteps : Goto(h, step)
          \/ \E category \in Categories : Report(h, category, "fail")
    BY DEF Screen, Consult, Investigate, Fail, ReportSteps, Categories
  <2>2. SaveDecision(h) \/ CreateApproval(h) \/ AttachApproval(h) =>
          \/ \E step \in ReportSteps : Goto(h, step)
          \/ \E category \in Categories : Report(h, category, "deny")
    BY DEF SaveDecision, CreateApproval, AttachApproval, ReportSteps, Categories
  <2>. QED
    BY <2>1, <2>2 DEF Opens, ReportSteps
<1>5. \A step \in ReportSteps \cup {"fail"} : step # "walk" /\ Serves(h, step)
  BY <1>3 DEF ReportSteps, FailureSteps
<1>6. LocalTyped'
  BY <1>1, <1>4, <1>5, GotoTyped, ReportTyped
<1>7. ExecutionTyped'
  BY <1>1 DEF TypeInv, ExecutionTyped, execution
<1>. QED
  BY <1>2, <1>6, <1>7 DEF TypeInv

(* A handler that only changes its place, its category and its beliefs.    *)
LEMMA MoveTyped ==
  ASSUME LocalTyped, NEW h \in Handlers, NEW step, Serves(h, step), step # "walk",
         pc' = [pc EXCEPT ![h] = step], UNCHANGED route,
         cat' \in [Handlers -> Categories], read' \in [Handlers -> Statuses],
         changed' \in [Handlers -> Beliefs], faults' \in 0..MaxFaults
  PROVE  LocalTyped'
<1>1. step \in Steps
  BY DEF Serves
<1>2. pc' \in [Handlers -> Steps] /\ pc'[h] = step /\ \A g \in Handlers : g # h => pc'[g] = pc[g]
  BY <1>1 DEF LocalTyped
<1>. QED
  BY <1>2 DEF LocalTyped

(* What an answer is read as.                                              *)
LEMMA AnswersRead ==
  ASSUME NEW a \in Answers
  PROVE  /\ EffectIsPresent(a) \in {"no", "unknown", "yes"}
         /\ a # NoAnswer /\ ~Landed(a) => ExecutionFailureCategory(a) \in Categories
<1>1. EffectIsPresent(a) \in {"no", "unknown", "yes"}
  BY DEF EffectIsPresent
<1>2. ASSUME a # NoAnswer, ~Landed(a) PROVE ExecutionFailureCategory(a) \in Categories
  <2>1. a.kind \in Kinds
    BY <1>2 DEF Answers
  <2>2. a.kind \notin {"MUTATED", "RECONCILED"}
    BY <1>2 DEF Landed, Progressed
  <2>. QED
    BY <2>1, <2>2 DEF Kinds, ExecutionFailureCategory, Categories, ReconcilableFailures,
       MayStillLand
<1>. QED
  BY <1>1, <1>2

(* Calling the executor and reading its answer keeps the types.            *)
LEMMA CallsTyped ==
  ASSUME TypeInv, NEW h \in Handlers, Calls(h)
  PROVE  TypeInv'
<1>1. LocalTyped /\ faults' \in 0..MaxFaults /\ faults' = faults /\ UNCHANGED incident
  BY DEF TypeInv, LocalTyped, Calls, CallExecutor, ReadReceipt, UnreadableReceipt,
         ExecutorUnreachable, Locally
<1>2. IncidentTyped'
  BY <1>1 DEF TypeInv, IncidentTyped, incident
<1>3. pc[h] \in CallSteps /\ Serves(h, pc[h])
  BY DEF TypeInv, LocalTyped, Calls, CallExecutor, ReadReceipt, UnreadableReceipt,
         ExecutorUnreachable, Answered, At, CallSteps
<1>4. /\ h \in Callers
      /\ \A step \in CallSteps \cup {"fail"} : Serves(h, step) /\ step # "walk"
      /\ h \notin Reconciles => Serves(h, "mark_failed")
  BY <1>3, ServesNext DEF CallSteps, FailureSteps, PipelineSteps
<1>5. CASE CallExecutor(h)
  <2>1. ExecutionTyped'
    BY <1>4, <1>5 DEF TypeInv, ExecutionTyped, CallExecutor, RunStates
  <2>2. Goto(h, "wait") /\ Serves(h, "wait") /\ "wait" # "walk"
    BY <1>4, <1>5 DEF CallExecutor, CallSteps
  <2>3. LocalTyped'
    BY <1>1, <2>2, GotoTyped
  <2>. QED
    BY <1>2, <2>1, <2>3 DEF TypeInv
<1>6. CASE ReadReceipt(h)
  <2>. DEFINE a == answer[h]
  <2>1. a \in Answers /\ a # NoAnswer /\ h \notin Reconciles
    BY <1>4, <1>6 DEF ReadReceipt, Answered, TypeInv, ExecutionTyped
  <2>2. changed' \in [Handlers -> Beliefs]
    <3>1. EffectIsPresent(a) # "no" => EffectIsPresent(a) \in Beliefs
      BY <2>1, AnswersRead DEF Beliefs
    <3>. QED
      BY <1>6, <3>1 DEF ReadReceipt, TypeInv, LocalTyped
  <2>3. ASSUME Landed(a) PROVE LocalTyped'
    <3>1. pc' = [pc EXCEPT ![h] = "executed"] /\ UNCHANGED <<cat, route, read>>
      BY <1>6, <2>3 DEF ReadReceipt
    <3>2. cat' \in [Handlers -> Categories] /\ read' \in [Handlers -> Statuses]
      BY <3>1 DEF TypeInv, LocalTyped
    <3>3. Serves(h, "executed") /\ "executed" # "walk"
      BY <1>4 DEF CallSteps
    <3>. QED
      BY <1>1, <2>2, <3>1, <3>2, <3>3, MoveTyped
  <2>4. ASSUME ~Landed(a) PROVE LocalTyped'
    <3>1. /\ pc' = [pc EXCEPT ![h] = "mark_failed"] /\ UNCHANGED <<route, read>>
          /\ cat' = [cat EXCEPT ![h] = ExecutionFailureCategory(a)]
      BY <1>6, <2>4 DEF ReadReceipt
    <3>2. ExecutionFailureCategory(a) \in Categories
      BY <2>1, <2>4, AnswersRead
    <3>3. cat' \in [Handlers -> Categories] /\ read' \in [Handlers -> Statuses]
      BY <3>1, <3>2 DEF TypeInv, LocalTyped
    <3>4. Serves(h, "mark_failed") /\ "mark_failed" # "walk"
      BY <1>4, <2>1
    <3>. QED
      BY <1>1, <2>2, <3>1, <3>3, <3>4, MoveTyped
  <2>5. LocalTyped'
    BY <2>3, <2>4
  <2>6. ExecutionTyped'
    BY <1>6 DEF ReadReceipt, Locally, execution, TypeInv, ExecutionTyped
  <2>. QED
    BY <1>2, <2>5, <2>6 DEF TypeInv
<1>7. CASE UnreadableReceipt(h) \/ ExecutorUnreachable(h)
  <2>1. ExecutionTyped'
    BY <1>7 DEF UnreadableReceipt, ExecutorUnreachable, Locally, execution, TypeInv, ExecutionTyped
  <2>2. \E step \in {"fail", "mark_failed"}, category \in Categories :
           Report(h, category, step) /\ h \notin Reconciles
    BY <1>7 DEF UnreadableReceipt, ExecutorUnreachable, Fail, Categories, ReconcilableFailures
  <2>3. \A step \in {"fail", "mark_failed"} : h \notin Reconciles => Serves(h, step) /\ step # "walk"
    BY <1>4
  <2>4. LocalTyped'
    BY <1>1, <2>2, <2>3, ReportTyped
  <2>. QED
    BY <1>2, <2>1, <2>4 DEF TypeInv
<1>. QED
  BY <1>5, <1>6, <1>7 DEF Calls

(* The documents the store writes are documents.                           *)
LEMMA StoreKeepsRecords ==
  ASSUME NEW r \in Store!Record
  PROVE  /\ Store!LapsedRecord(r) \in Store!Record
         /\ \A c \in Callers : Store!AcquiredRecord(r, c) \in Store!Record
         /\ \A s \in ExecStates, p \in BOOLEAN : Store!AdvancedRecord(r, s, p) \in Store!Record
         /\ r.state \in ExecStates /\ r.predates \in BOOLEAN
<1>. USE DEF Store!Record, ExecStates
<1>1. Store!LapsedRecord(r) \in Store!Record
  BY DEF Store!LapsedRecord, Store!Leases
<1>2. ASSUME NEW c \in Callers PROVE Store!AcquiredRecord(r, c) \in Store!Record
  <2>1. r.epoch + 1 \in Nat
    OBVIOUS
  <2>. QED
    BY <2>1 DEF Store!AcquiredRecord, Store!Leases, Store!OPEN_STATES
<1>3. ASSUME NEW s \in ExecStates, NEW p \in BOOLEAN
      PROVE  Store!AdvancedRecord(r, s, p) \in Store!Record
  BY DEF Store!AdvancedRecord, Store!Leases
<1>. QED
  BY <1>1, <1>2, <1>3

(* Verification and closing keeps the types.                               *)
LEMMA ClosesTyped ==
  ASSUME TypeInv, NEW h \in Handlers, Verify(h) \/ Terminalize(h)
  PROVE  TypeInv'
<1>1. LocalTyped /\ faults' \in 0..MaxFaults /\ UNCHANGED <<incident>>
  BY DEF TypeInv, LocalTyped, Verify, Terminalize, Locally
<1>2. IncidentTyped'
  BY <1>1 DEF TypeInv, IncidentTyped, incident
<1>3. pc[h] \in CloseSteps /\ Serves(h, pc[h])
  BY DEF TypeInv, LocalTyped, Verify, Terminalize, At, CloseSteps
<1>4. \A step \in CloseSteps \cup {"fail"} : Serves(h, step) /\ step # "walk"
  BY <1>3, ServesNext DEF CloseSteps, FailureSteps
<1>5. \/ \E step \in CloseSteps : Goto(h, step)
      \/ \E step \in CloseSteps \cup {"fail"}, category \in Categories :
           Report(h, category, step)
  BY DEF Verify, Terminalize, Fail, CloseSteps, Categories, ReconcilableFailures,
         InvestigationFailures
<1>6. LocalTyped'
  BY <1>1, <1>4, <1>5, GotoTyped, ReportTyped
<1>7. ExecutionTyped'
  <2>1. exec' \in Store!Record
    <3>1. "VERIFIED" \in ExecStates /\ exec \in Store!Record
      BY DEF ExecStates, Store!TERMINAL_STATES, TypeInv, ExecutionTyped
    <3>2. Store!AdvancedRecord(exec, "VERIFIED", exec.predates) \in Store!Record
      BY <3>1, StoreKeepsRecords
    <3>3. exec' \in {exec, Store!AdvancedRecord(exec, "VERIFIED", exec.predates)}
      BY DEF Verify, Terminalize, Locally, execution
    <3>. QED
      BY <3>1, <3>2, <3>3
  <2>2. UNCHANGED <<run, seen, put, serving, desired, answer>>
    BY DEF Verify, Terminalize, Locally, execution
  <2>. QED
    BY <2>1, <2>2 DEF TypeInv, ExecutionTyped
<1>. QED
  BY <1>2, <1>6, <1>7 DEF TypeInv

(* Receiving and answering a request keeps the types.                      *)
LEMMA ReceivesTyped ==
  ASSUME TypeInv, NEW h \in Handlers, Receives(h)
  PROVE  TypeInv'
<1>1. /\ LocalTyped /\ faults' \in 0..MaxFaults
      /\ UNCHANGED <<execution, status, decision, attached, overdue, handover>>
  BY DEF TypeInv, LocalTyped, Receives, ReceiveResume, CheckApproval, Decide, CloseUnapproved,
         ReceiveReconcile, ReconcileReceipt, ReconcileUnanswered, Locally, incident
<1>2. ExecutionTyped'
  BY <1>1 DEF TypeInv, ExecutionTyped, execution
<1>3. IncidentTyped'
  <2>1. approval' = approval \/ approval' \in {"APPROVED", "REJECTED", "EXPIRED"}
    BY DEF Receives, ReceiveResume, CheckApproval, Decide, CloseUnapproved, DecideApproval,
           ReceiveReconcile, ReconcileReceipt, ReconcileUnanswered, Locally, incident
  <2>. QED
    BY <1>1, <2>1 DEF TypeInv, IncidentTyped
<1>4. Serves(h, pc[h]) /\ \A step \in {"done", "fail"} : Serves(h, step)
  BY ServesNext DEF TypeInv, LocalTyped, FailureSteps, EndSteps
<1>5. CASE ReceiveResume(h) \/ ReceiveReconcile(h)
  <2>1. /\ read' = [read EXCEPT ![h] = status] /\ UNCHANGED <<cat, route, changed>>
        /\ \E step \in {"check", "call", "done"} :
             pc' = [pc EXCEPT ![h] = step] /\ Serves(h, step) /\ step # "walk"
    BY <1>4, <1>5, ServesNext DEF ReceiveResume, ReceiveReconcile, CallSteps
  <2>2. cat' \in [Handlers -> Categories] /\ read' \in [Handlers -> Statuses]
        /\ changed' \in [Handlers -> Beliefs]
    BY <2>1 DEF TypeInv, LocalTyped, IncidentTyped
  <2>3. LocalTyped'
    BY <1>1, <2>1, <2>2, MoveTyped
  <2>. QED
    BY <1>2, <1>3, <2>3 DEF TypeInv
<1>6. CASE CheckApproval(h) \/ Decide(h) \/ CloseUnapproved(h) \/ ReconcileUnanswered(h)
  <2>1. CheckApproval(h) => \E step \in {"approve", "enter", "done"} : Goto(h, step)
    BY DEF CheckApproval
  <2>2. CloseUnapproved(h) => \E step \in {"close_mark", "done"} : Goto(h, step)
    BY DEF CloseUnapproved
  <2>3. Decide(h) => \/ \E step \in {"done"} : Goto(h, step)
                     \/ \E category \in Categories : Report(h, category, "close")
    BY DEF Decide, Categories, ApprovalFailures
  <2>4. ReconcileUnanswered(h) => \E step \in {"done"} : Goto(h, step)
    BY DEF ReconcileUnanswered
  <2>5. /\ CheckApproval(h) => \A step \in {"approve", "enter", "done"} : Serves(h, step)
        /\ Decide(h) \/ CloseUnapproved(h) =>
             \A step \in {"close", "close_mark", "done"} : Serves(h, step)
    <3>1. /\ CheckApproval(h) => h \in Resumes
          /\ Decide(h) \/ CloseUnapproved(h) => h \in Approvers
      BY <1>4 DEF CheckApproval, Decide, CloseUnapproved, At, Serves
    <3>. QED
      BY <1>4, <3>1, ServesNext DEF PipelineSteps
  <2>6. LocalTyped'
    BY <1>1, <1>4, <1>6, <2>1, <2>2, <2>3, <2>4, <2>5, GotoTyped, ReportTyped
  <2>. QED
    BY <1>2, <1>3, <2>6 DEF TypeInv
<1>7. CASE ReconcileReceipt(h)
  <2>1. h \in Reconciles /\ h \in Callers /\ UNCHANGED <<cat, route, read>>
    BY <1>7, OrchestratorAssumption DEF ReconcileReceipt, Callers, Handlers
  <2>2. answer[h] \in Answers
    BY <2>1, <1>7 DEF TypeInv, ExecutionTyped
  <2>3. changed' \in [Handlers -> Beliefs]
    <3>. DEFINE found == EffectIsPresent(answer[h])
                after == CASE found # "no" -> found
                         [] found = "no" /\ read[h] = "REMEDIATION_FAILED" -> "yes"
                         [] found = "no" /\ read[h] # "REMEDIATION_FAILED" -> changed[h]
    <3>1. found \in {"no", "unknown", "yes"}
      BY <2>2, AnswersRead
    <3>2. changed' = [changed EXCEPT ![h] = after]
      BY <1>7 DEF ReconcileReceipt
    <3>. HIDE DEF found
    <3>3. after \in Beliefs
      BY <3>1 DEF TypeInv, LocalTyped, Beliefs
    <3>. HIDE DEF after
    <3>. QED
      BY <3>2, <3>3 DEF TypeInv, LocalTyped
  <2>4. \E step \in {"verifying", "executed", "done", "give_up"} : pc' = [pc EXCEPT ![h] = step]
    BY <1>7 DEF ReconcileReceipt
  <2>5. \A step \in {"verifying", "executed", "done", "give_up"} : Serves(h, step) /\ step # "walk"
    BY <1>4, <2>1, ServesNext DEF CallSteps
  <2>6. cat' \in [Handlers -> Categories] /\ read' \in [Handlers -> Statuses]
    BY <2>1 DEF TypeInv, LocalTyped
  <2>7. LocalTyped'
    BY <1>1, <2>1, <2>3, <2>4, <2>5, <2>6, MoveTyped
  <2>. QED
    BY <1>2, <1>3, <2>7 DEF TypeInv
<1>. QED
  BY <1>5, <1>6, <1>7 DEF Receives

(* Reporting a failure keeps the types.                                    *)
LEMMA FailingTyped ==
  ASSUME TypeInv, NEW h \in Handlers, Failing(h)
  PROVE  TypeInv'
<1>1. LocalTyped /\ faults' = faults /\ faults' \in 0..MaxFaults
      /\ UNCHANGED <<execution, decision, approval, attached, overdue>>
  BY DEF TypeInv, LocalTyped, Failing, BeginFailure, SettleFailure, Escalate, WalkFailure,
         SaveHandover, Locally, incident
<1>2. ExecutionTyped'
  BY <1>1 DEF TypeInv, ExecutionTyped, execution
<1>3. \A step \in FailureSteps \cup EndSteps : Serves(h, step)
  BY ServesNext
<1>4. CASE BeginFailure(h) \/ SettleFailure(h) \/ Escalate(h)
  <2>1. IncidentTyped'
    BY <1>4 DEF BeginFailure, SettleFailure, Escalate, Locally, incident, TypeInv, IncidentTyped
  <2>2. RestingStatus(cat[h]) \in RestingStatuses /\ "ESCALATED" \in RestingStatuses
    BY DEF RestingStatus, RestingStatuses, RECONCILABLE_STATES
  <2>3. \/ \E step \in {"settle", "save", "escalate"} : Goto(h, step)
        \/ \E target \in RestingStatuses : Depart(h, target)
    BY <1>4, <2>2 DEF BeginFailure, SettleFailure, Escalate
  <2>4. \A step \in {"settle", "save", "escalate"} : Serves(h, step) /\ step # "walk"
    BY <1>3 DEF FailureSteps
  <2>5. LocalTyped'
    BY <1>1, <2>3, <2>4, GotoTyped, DepartTyped
  <2>. QED
    BY <1>2, <2>1, <2>5 DEF TypeInv
<1>5. CASE WalkFailure(h)
  <2>1. route[h] \in Seq(RestingStatuses) /\ route[h] # <<>> /\ RestingStatuses \subseteq Statuses
    BY <1>5 DEF WalkFailure, At, TypeInv, LocalTyped, RestingStatuses, RECONCILABLE_STATES,
                Statuses
  <2>2. Head(route[h]) \in Statuses /\ Tail(route[h]) \in Seq(RestingStatuses)
    BY <2>1, HeadTailProperties
  <2>3. IncidentTyped'
    BY <1>5, <2>2 DEF WalkFailure, TypeInv, IncidentTyped
  <2>4. LocalTyped'
    <3>. DEFINE rest == Tail(route[h])
                step == IF rest = <<>> THEN "save" ELSE "walk"
    <3>1. CASE /\ route' = [route EXCEPT ![h] = Tail(@)]
               /\ pc' = [pc EXCEPT ![h] = step]
               /\ UNCHANGED <<cat, read, changed>>
      <4>1. route' = [route EXCEPT ![h] = rest]
        BY <3>1
      <4>. HIDE DEF rest
      <4>2. Serves(h, step) /\ step \in Steps /\ (step = "walk" => rest # <<>>)
        BY <1>3 DEF Serves, FailureSteps
      <4>3. rest \in Seq(RestingStatuses)
        BY <2>2 DEF rest
      <4>. HIDE DEF step
      <4>4. /\ pc' \in [Handlers -> Steps] /\ pc'[h] = step
            /\ \A g \in Handlers : g # h => pc'[g] = pc[g] /\ route'[g] = route[g]
            /\ route'[h] = rest /\ route' \in [Handlers -> Seq(RestingStatuses)]
        BY <1>1, <3>1, <4>1, <4>2, <4>3 DEF LocalTyped
      <4>. QED
        BY <1>1, <3>1, <4>2, <4>4 DEF LocalTyped
    <3>2. CASE Raise(h)
      BY <1>1, <3>2, RaiseTyped
    <3>. QED
      BY <1>5, <3>1, <3>2 DEF WalkFailure
  <2>. QED
    BY <1>2, <2>3, <2>4 DEF TypeInv
<1>6. CASE SaveHandover(h)
  <2>1. handover' = Package(cat[h], Mutated(h)) /\ Goto(h, "done") /\ UNCHANGED status
    BY <1>6 DEF SaveHandover
  <2>2. Mutated(h) \in {"no", "yes", "unknown"} /\ cat[h] \in Categories
    BY DEF Mutated, TypeInv, LocalTyped, Beliefs
  <2>3. IncidentTyped'
    BY <1>1, <2>1, <2>2 DEF Package, TypeInv, IncidentTyped
  <2>4. Serves(h, "done") /\ "done" # "walk"
    BY <1>3 DEF EndSteps
  <2>5. LocalTyped'
    BY <1>1, <2>1, <2>4, GotoTyped
  <2>. QED
    BY <1>2, <2>3, <2>5 DEF TypeInv
<1>. QED
  BY <1>4, <1>5, <1>6 DEF Failing

(* What an execution's step does to the documents and the calls.           *)
LEMMA ExecutorWrites ==
  ASSUME TypeInv, NEW c \in Callers, ExecutorStep(c)
  PROVE  /\ exec' \in Store!Record
         /\ seen' = seen \/ seen' = [seen EXCEPT ![c] = exec']
         /\ put' = put \/ put' = [put EXCEPT ![c] = "inflight"]
         /\ \/ \E step \in {"observe", "reread", "request", "await"} :
                 run' = [run EXCEPT ![c] = step] /\ UNCHANGED answer
            \/ \E kind \in Kinds : Reply(c, kind)
         /\ UNCHANGED <<incident, serving, desired, local, faults>>
<1>1. exec \in Store!Record /\ seen[c] \in Store!Record
  BY DEF TypeInv, ExecutionTyped
<1>2. /\ Store!LapsedRecord(exec) \in Store!Record /\ Store!AcquiredRecord(exec, c) \in Store!Record
      /\ \A s \in ExecStates, p \in BOOLEAN : Store!AdvancedRecord(exec, s, p) \in Store!Record
      /\ \A doc \in Store!Record : Released(c, doc) \in Store!Record
      /\ exec.state \in ExecStates /\ exec.predates \in BOOLEAN /\ seen[c].predates \in BOOLEAN
  BY <1>1, StoreKeepsRecords DEF Released
<1>3. {"MUTATED", "STALE", "PRECONDITION_CHECKED", "MUTATION_REQUESTED"} \subseteq ExecStates
  BY DEF ExecStates, Store!OPEN_STATES, Store!TERMINAL_STATES
<1>4. CASE Acquire(c)
  BY <1>1, <1>2, <1>4 DEF Acquire, Kinds
<1>5. CASE Observe(c)
  <2>1. exec' \in Store!Record
    <3>1. /\ Store!AdvancedRecord(exec, "MUTATED", seen[c].predates \/ ~Attempted(c)) \in Store!Record
          /\ Store!AdvancedRecord(exec, "STALE", exec.predates) \in Store!Record
          /\ Store!AdvancedRecord(exec, "PRECONDITION_CHECKED", exec.predates) \in Store!Record
      BY <1>2, <1>3
    <3>. QED
      BY <1>1, <1>2, <1>5, <3>1 DEF Observe
  <2>2. UNCHANGED <<incident, seen, put, serving, desired, local, faults>>
    BY <1>5 DEF Observe
  <2>3. \/ \E step \in {"observe", "reread", "request", "await"} :
             run' = [run EXCEPT ![c] = step] /\ UNCHANGED answer
        \/ \E kind \in Kinds : Reply(c, kind)
    <3>1. {"RECONCILED", "DID_NOT_HOLD", "STALE", "UNHEALTHY", "REFUSED"} \subseteq Kinds
      BY DEF Kinds
    <3>. QED
      BY <1>5, <3>1, Zenon DEF Observe
  <2>. QED
    BY <2>1, <2>2, <2>3
<1>6. CASE RereadIncident(c)
  BY <1>1, <1>2, <1>6 DEF RereadIncident, Kinds
<1>7. CASE RequestMutation(c)
  <2>1. Store!AdvancedRecord(exec, "MUTATION_REQUESTED", exec.predates) \in Store!Record
    BY <1>2, <1>3
  <2>. QED
    BY <1>1, <1>7, <2>1 DEF RequestMutation, Kinds
<1>8. CASE Conclude(c)
  <2>1. exec' \in Store!Record
    <3>. DEFINE held == IF exec.lease = "live" THEN exec ELSE Store!AcquiredRecord(exec, c)
    <3>1. held \in Store!Record
      BY <1>1, <1>2
    <3>. HIDE DEF held
    <3>2. /\ Store!AdvancedRecord(held, "MUTATED", exec.predates) \in Store!Record
          /\ Store!AdvancedRecord(exec, "PRECONDITION_CHECKED", exec.predates) \in Store!Record
      BY <1>2, <1>3, <3>1, StoreKeepsRecords
    <3>3. Store!LapsedRecord(Store!AdvancedRecord(exec, "PRECONDITION_CHECKED", exec.predates))
            \in Store!Record
      BY <3>2, StoreKeepsRecords
    <3>4. exec' \in {exec, Store!AdvancedRecord(held, "MUTATED", exec.predates),
                     Released(c, exec),
                     Store!LapsedRecord(Store!AdvancedRecord(exec, "PRECONDITION_CHECKED",
                                                             exec.predates))}
      BY <1>8 DEF Conclude, held
    <3>. QED
      BY <1>1, <1>2, <3>2, <3>3, <3>4
  <2>2. UNCHANGED <<incident, seen, put, serving, desired, local, faults>>
    BY <1>8 DEF Conclude
  <2>3. \E kind \in Kinds : Reply(c, kind)
    BY <1>8 DEF Conclude, Kinds
  <2>. QED
    BY <2>1, <2>2, <2>3
<1>. QED
  BY <1>4, <1>5, <1>6, <1>7, <1>8 DEF ExecutorStep

(* The executor keeps the types.                                           *)
LEMMA ExecutorTyped ==
  ASSUME TypeInv, NEW c \in Callers, ExecutorStep(c)
  PROVE  TypeInv'
<1>1. UNCHANGED <<incident, serving, desired, local, faults>> /\ exec' \in Store!Record
  BY ExecutorWrites
<1>2. IncidentTyped' /\ LocalTyped'
  BY <1>1 DEF TypeInv, IncidentTyped, LocalTyped, incident, local
<1>3. seen' \in [Callers -> Store!Record]
  BY ExecutorWrites DEF TypeInv, ExecutionTyped
<1>4. put' \in [Callers -> PutStates]
  BY ExecutorWrites DEF TypeInv, ExecutionTyped, PutStates
<1>5. run' \in [Callers -> RunStates] /\ answer' \in [Callers -> Answers]
  <2>1. CASE \E step \in {"observe", "reread", "request", "await"} :
               run' = [run EXCEPT ![c] = step] /\ UNCHANGED answer
    BY <2>1 DEF TypeInv, ExecutionTyped, RunStates
  <2>2. ASSUME NEW kind \in Kinds, Reply(c, kind)
        PROVE  run' \in [Callers -> RunStates] /\ answer' \in [Callers -> Answers]
    <3>1. run' \in [Callers -> RunStates]
      BY <2>2 DEF Reply, TypeInv, ExecutionTyped, RunStates
    <3>2. exec'.state \in ExecStates /\ exec'.predates \in BOOLEAN
      BY <1>1, StoreKeepsRecords
    <3>3. [kind |-> kind, state |-> exec'.state, predates |-> exec'.predates] \in Answers
      BY <3>2 DEF Answers
    <3>. QED
      BY <2>2, <3>1, <3>3 DEF Reply, TypeInv, ExecutionTyped
  <2>. QED
    BY <2>1, <2>2, ExecutorWrites
<1>6. ExecutionTyped'
  BY <1>1, <1>3, <1>4, <1>5 DEF TypeInv, ExecutionTyped
<1>. QED
  BY <1>2, <1>6 DEF TypeInv

(* So do Cloud Run, operators, the clock and faults.                       *)
LEMMA OutsideTyped ==
  ASSUME TypeInv,
         \/ Environment
         \/ \E c \in Callers : ExecutionDies(c) \/ CloudRunStep(c)
         \/ \E h \in Handlers : WriteRaises(h) \/ Crash(h)
  PROVE  TypeInv'
<1>1. ASSUME MigrateTraffic \/ ApprovalLapses \/ \E v \in Revisions : OperatorChange(v)
      PROVE  TypeInv'
  <2>1. UNCHANGED <<status, decision, approval, attached, handover, exec, run, seen, put, answer,
                    pc, cat, route, read, changed>>
    BY <1>1 DEF MigrateTraffic, ApprovalLapses, OperatorChange, incident, execution, local
  <2>2. IncidentTyped'
    <3>1. overdue' \in BOOLEAN
      BY <1>1 DEF MigrateTraffic, ApprovalLapses, OperatorChange, incident, TypeInv, IncidentTyped
    <3>. QED
      BY <2>1, <3>1 DEF TypeInv, IncidentTyped
  <2>3. ExecutionTyped'
    <3>1. serving' \in Revisions /\ desired' \in Revisions
      BY <1>1 DEF MigrateTraffic, ApprovalLapses, OperatorChange, execution, TypeInv, ExecutionTyped
    <3>. QED
      BY <2>1, <3>1 DEF TypeInv, ExecutionTyped
  <2>4. LocalTyped'
    <3>1. faults' \in 0..MaxFaults
      BY <1>1, OrchestratorAssumption DEF MigrateTraffic, ApprovalLapses, OperatorChange,
                                          TypeInv, LocalTyped
    <3>. QED
      BY <2>1, <3>1 DEF TypeInv, LocalTyped
  <2>. QED
    BY <2>2, <2>3, <2>4 DEF TypeInv
<1>2. ASSUME NEW c \in Callers, ExecutionDies(c) PROVE TypeInv'
  <2>1. faults' \in 0..MaxFaults
    BY <1>2, OrchestratorAssumption DEF ExecutionDies, TypeInv, LocalTyped
  <2>2. run' \in [Callers -> RunStates]
    BY <1>2 DEF ExecutionDies, TypeInv, ExecutionTyped, RunStates
  <2>. QED
    BY <1>2, <2>1, <2>2 DEF ExecutionDies, incident, local, TypeInv, IncidentTyped,
                            ExecutionTyped, LocalTyped
<1>3. ASSUME NEW c \in Callers, CloudRunStep(c) PROVE TypeInv'
  <2>1. PICK o \in {"accepted", "refused", "lost"} : PutSettles(c, o)
    BY <1>3 DEF CloudRunStep
  <2>2. put' \in [Callers -> PutStates]
    BY <2>1 DEF PutSettles, TypeInv, ExecutionTyped, PutStates
  <2>3. desired' \in Revisions
    BY <2>1 DEF PutSettles, TypeInv, ExecutionTyped, Revisions
  <2>. QED
    BY <2>1, <2>2, <2>3 DEF PutSettles, incident, local, TypeInv, IncidentTyped,
                            ExecutionTyped, LocalTyped
<1>4. ASSUME NEW h \in Handlers, WriteRaises(h) \/ Crash(h) PROVE TypeInv'
  <2>1. LocalTyped /\ faults' \in 0..MaxFaults /\ UNCHANGED <<incident, execution>>
    BY <1>4, OrchestratorAssumption DEF WriteRaises, Crash, TypeInv, LocalTyped
  <2>2. Goto(h, "lost") \/ Raise(h)
    BY <1>4 DEF WriteRaises, Crash
  <2>3. Serves(h, "lost") /\ "lost" # "walk"
    BY ServesNext DEF EndSteps
  <2>4. LocalTyped'
    BY <2>1, <2>2, <2>3, GotoTyped, RaiseTyped
  <2>. QED
    BY <2>1, <2>4 DEF TypeInv, IncidentTyped, ExecutionTyped, incident, execution
<1>5. ASSUME LeaseLapses PROVE TypeInv'
  <2>1. Store!LapsedRecord(exec) \in Store!Record
    BY StoreKeepsRecords DEF TypeInv, ExecutionTyped
  <2>. QED
    BY <1>5, <2>1 DEF LeaseLapses, incident, local, TypeInv, IncidentTyped, ExecutionTyped, LocalTyped
<1>. QED
  BY <1>1, <1>2, <1>3, <1>4, <1>5 DEF Environment

(* Every step keeps the types, and every run starts with them.             *)
LEMMA NextTyped ==
  ASSUME TypeInv, [Next]_vars
  PROVE  TypeInv'
<1>1. CASE UNCHANGED vars
  <2>1. UNCHANGED <<incident, execution, local, faults>>
    BY <1>1, Zenon DEF vars
  <2>2. IncidentTyped'
    BY <2>1 DEF incident, TypeInv, IncidentTyped
  <2>3. ExecutionTyped'
    BY <2>1 DEF execution, TypeInv, ExecutionTyped
  <2>4. LocalTyped'
    BY <2>1 DEF local, TypeInv, LocalTyped
  <2>. QED
    BY <2>2, <2>3, <2>4 DEF TypeInv
<1>2. ASSUME NEW h \in Handlers, HandlerStep(h) PROVE TypeInv'
  BY <1>2, HandlerCases, HopTyped, OpensTyped, CallsTyped, ClosesTyped, ReceivesTyped, FailingTyped
<1>3. ASSUME NEW c \in Callers, ExecutorStep(c) PROVE TypeInv'
  BY <1>3, ExecutorTyped
<1>. QED
  BY <1>1, <1>2, <1>3, OutsideTyped DEF Next

(* The initial state is typed.                                             *)
LEMMA InitTyped ==
  ASSUME Init
  PROVE  TypeInv
<1>1. NoAnswer \in Answers /\ Store!NoRecord \in Store!Record
  BY DEF Answers, Store!NoRecord, Store!Record, Store!Leases
<1>2. ExecutionTyped
  BY <1>1 DEF Init, ExecutionTyped, RunStates, PutStates, Revisions
<1>3. IncidentTyped
  BY DEF Init, IncidentTyped, Statuses, NoHandover, Categories
<1>4. LocalTyped
  <2>1. pc \in [Handlers -> Steps] /\ \A h \in Handlers : Serves(h, pc[h])
    BY DEF Init, Serves, Steps, ReportSteps, PipelineSteps, CallSteps, CloseSteps, FailureSteps,
           EndSteps
  <2>2. <<>> \in Seq(RestingStatuses) /\ 0 \in 0..MaxFaults
    BY EmptySeq, OrchestratorAssumption
  <2>. QED
    BY <2>1, <2>2 DEF Init, LocalTyped, Categories, Statuses, Beliefs
<1>. QED
  BY <1>2, <1>3, <1>4 DEF TypeInv

-----------------------------------------------------------------------------
(* What the steps leave alone.                                             *)

(* A handler's step is its own.                                            *)
LEMMA OthersStay ==
  ASSUME TypeInv, NEW h \in Handlers, HandlerStep(h) \/ WriteRaises(h) \/ Crash(h)
  PROVE  /\ \A g \in Handlers \ {h} :
              /\ pc'[g] = pc[g] /\ route'[g] = route[g]
              /\ cat'[g] = cat[g] /\ changed'[g] = changed[g]
         /\ UNCHANGED <<seen, put, serving, desired, answer>>
<1>. DEFINE Stay == \A g \in Handlers \ {h} :
                      /\ pc'[g] = pc[g] /\ route'[g] = route[g]
                      /\ cat'[g] = cat[g] /\ changed'[g] = changed[g]
<1>1. /\ pc \in [Handlers -> Steps] /\ cat \in [Handlers -> Categories]
      /\ changed \in [Handlers -> Beliefs] /\ route \in [Handlers -> Seq(RestingStatuses)]
  BY DEF TypeInv, LocalTyped
<1>2. \A step : Goto(h, step) => Stay
  BY <1>1 DEF Goto
<1>3. \A category, step : Report(h, category, step) => Stay
  BY <1>1 DEF Report
<1>4. Raise(h) => Stay
  BY <1>2, <1>3 DEF Raise, Fail
<1>5. Hop(h) => Stay
  BY <1>2, <1>4 DEF Hop, Transition
<1>6. Opens(h) \/ Verify(h) \/ Terminalize(h) => Stay
  <2>. HIDE DEF Stay
  <2>. QED
    BY <1>2, <1>3 DEF Opens, Screen, Consult, Investigate, SaveDecision, CreateApproval,
                      AttachApproval, Verify, Terminalize, Fail
<1>7. Calls(h) => Stay
  <2>1. CallExecutor(h) \/ UnreadableReceipt(h) \/ ExecutorUnreachable(h) => Stay
    <3>. HIDE DEF Stay
    <3>. QED
      BY <1>2, <1>3 DEF CallExecutor, UnreadableReceipt, ExecutorUnreachable, Fail
  <2>2. ReadReceipt(h) => Stay
    BY <1>1 DEF ReadReceipt
  <2>. QED
    BY <2>1, <2>2 DEF Calls
<1>8. Receives(h) => Stay
  <2>1. ReceiveResume(h) \/ ReceiveReconcile(h) \/ ReconcileReceipt(h) => Stay
    BY <1>1 DEF ReceiveResume, ReceiveReconcile, ReconcileReceipt
  <2>2. CheckApproval(h) \/ Decide(h) \/ CloseUnapproved(h) \/ ReconcileUnanswered(h) => Stay
    <3>. HIDE DEF Stay
    <3>. QED
      BY <1>2, <1>3 DEF CheckApproval, Decide, CloseUnapproved, ReconcileUnanswered
  <2>. QED
    BY <2>1, <2>2 DEF Receives
<1>9. Failing(h) => Stay
  <2>1. \A target : Depart(h, target) => Stay
    BY <1>1 DEF Depart
  <2>2. BeginFailure(h) \/ SettleFailure(h) \/ Escalate(h) \/ SaveHandover(h) => Stay
    <3>. HIDE DEF Stay
    <3>. QED
      BY <1>2, <2>1 DEF BeginFailure, SettleFailure, Escalate, SaveHandover
  <2>3. WalkFailure(h) => Stay
    BY <1>1, <1>4 DEF WalkFailure
  <2>. QED
    BY <2>2, <2>3 DEF Failing
<1>10. WriteRaises(h) \/ Crash(h) => Stay
  <2>. HIDE DEF Stay
  <2>. QED
    BY <1>2, <1>4 DEF WriteRaises, Crash
<1>11. Stay
  <2>. HIDE DEF Stay
  <2>. QED
    BY <1>5, <1>6, <1>7, <1>8, <1>9, <1>10, HandlerCases
<1>12. UNCHANGED <<seen, put, serving, desired, answer>>
  <2>1. Hop(h) \/ Failing(h) => UNCHANGED execution
    BY DEF Hop, Transition, Failing, BeginFailure, SettleFailure, Escalate, WalkFailure,
           SaveHandover, Locally
  <2>2. Opens(h) \/ Receives(h) \/ WriteRaises(h) \/ Crash(h) \/ Verify(h) => UNCHANGED execution
    BY DEF Opens, Screen, Consult, Investigate, SaveDecision, CreateApproval, AttachApproval,
           Receives, ReceiveResume, CheckApproval, Decide, CloseUnapproved, ReceiveReconcile,
           ReconcileReceipt, ReconcileUnanswered, Verify, WriteRaises, Crash, Locally
  <2>3. Calls(h) \/ Terminalize(h) => UNCHANGED <<seen, put, serving, desired, answer>>
    BY DEF Calls, CallExecutor, ReadReceipt, UnreadableReceipt, ExecutorUnreachable,
           Terminalize, Locally, execution
  <2>. QED
    BY <2>1, <2>2, <2>3, HandlerCases DEF execution
<1>. QED
  BY <1>11, <1>12

(* What no handler does, nothing of the incident and of handlers changes   *)
(* by, the approval's lifetime apart.                                      *)
LEMMA OutsideStays ==
  ASSUME TypeInv,
         \/ UNCHANGED vars
         \/ \E c \in Callers : ExecutorStep(c) \/ ExecutionDies(c) \/ CloudRunStep(c)
         \/ Environment
  PROVE  /\ UNCHANGED <<status, decision, approval, attached, handover, local>>
         /\ \A c \in Callers : run[c] = "none" => run'[c] = "none"
<1>1. CASE UNCHANGED vars
  BY <1>1 DEF vars, incident, local, execution
<1>2. CASE Environment
  BY <1>2 DEF Environment, MigrateTraffic, LeaseLapses, ApprovalLapses, OperatorChange,
              incident, execution
<1>3. ASSUME NEW c \in Callers, ExecutorStep(c) \/ ExecutionDies(c) \/ CloudRunStep(c)
      PROVE  UNCHANGED <<status, decision, approval, attached, handover, local>>
  BY <1>3, ExecutorWrites DEF ExecutionDies, CloudRunStep, PutSettles, incident
<1>4. ASSUME NEW c \in Callers, ExecutorStep(c) \/ ExecutionDies(c) \/ CloudRunStep(c),
             NEW d \in Callers, run[d] = "none"
      PROVE  run'[d] = "none"
  <2>1. ExecutorStep(c) => run[c] # "none"
    BY DEF ExecutorStep, Acquire, Observe, RereadIncident, RequestMutation, Conclude
  <2>2. ExecutorStep(c) => \E step : run' = [run EXCEPT ![c] = step]
    BY ExecutorWrites DEF Reply
  <2>3. ExecutionDies(c) => run[c] # "none" /\ \E step : run' = [run EXCEPT ![c] = step]
    BY DEF ExecutionDies
  <2>4. CloudRunStep(c) => run' = run
    BY DEF CloudRunStep, PutSettles
  <2>. QED
    BY <1>3, <1>4, <2>1, <2>2, <2>3, <2>4 DEF TypeInv, ExecutionTyped
<1>. QED
  BY <1>1, <1>2, <1>3, <1>4

-----------------------------------------------------------------------------
(* Decisions and approvals.                                                *)

(* The transitions of a report, up to its decision, are legal.             *)
LEMMA OpeningIsLegal ==
  /\ can_transition("INTAKE", "INVESTIGATING") /\ can_transition("INVESTIGATING", "ESCALATED")
  /\ can_transition("INVESTIGATING", "PROPOSED")
  /\ can_transition("PROPOSED", "POLICY_EVALUATED")
  /\ can_transition("POLICY_EVALUATED", "DENIED")
  BY DEF can_transition, LEGAL_TRANSITIONS, Statuses, TERMINAL_STATES

(* A handler that moves without the policy or an approver leaves the       *)
(* decision and the approval as they are.                                  *)
LEMMA HopDecides ==
  ASSUME TypeInv, DecisionInv, NEW h \in Handlers, Hop(h)
  PROVE  DecisionInv'
<1>1. PICK hop \in Hops : Transition(h, hop[1], hop[2], hop[3])
  BY DEF Hop
<1>2. /\ UNCHANGED <<decision, approval, attached, run>> /\ pc[h] = hop[1]
      /\ \/ can_transition(status, hop[2]) /\ status' = hop[2] /\ pc' = [pc EXCEPT ![h] = hop[3]]
         \/ ~can_transition(status, hop[2]) /\ status' = status
              /\ \E step \in {"done", "fail"} : pc' = [pc EXCEPT ![h] = step]
  BY <1>1 DEF Transition, At, Goto, Raise, Fail, Report, execution
<1>3. pc \in [Handlers -> Steps] /\ Serves(h, hop[1]) /\ Workflow \in Handlers
  BY <1>2 DEF TypeInv, LocalTyped, Handlers
<1>4. CASE h = Workflow
  <2>1. hop[1] \in {"route", "hand_off", "propose", "evaluate", "deny"} =>
          can_transition(status, hop[2])
    BY <1>2, <1>4, OpeningIsLegal DEF DecisionInv, OpeningStatus, Hops
  <2>2. hop[1] \in {"route", "hand_off", "propose", "evaluate", "deny"} =>
          pc'[h] = hop[3] /\ status' = hop[2]
    BY <1>2, <1>3, <2>1
  <2>3. hop[1] \notin {"route", "hand_off", "propose", "evaluate", "deny"} =>
          /\ pc'[h] \in {"done", "fail", "enter", "call", "verifying", "verify"}
          /\ decision \notin {"none", "DENIED"}
    BY <1>2, <1>3, <1>4 DEF DecisionInv, Hops, BeforeDecision, FailureSteps, EndSteps
  <2>4. /\ pc'[Workflow] \in BeforeDecision => decision' = "none"
        /\ decision' \in {"none", "DENIED"} =>
             pc'[Workflow] \in BeforeDecision \cup {"deny"} \cup FailureSteps \cup EndSteps
        /\ pc'[Workflow] \notin {"deny", "ask", "attach"}
        /\ decision' = "DENIED" => status' \in {"POLICY_EVALUATED", "DENIED", "ESCALATED"}
    BY <1>2, <1>4, <2>2, <2>3 DEF DecisionInv, Hops, BeforeDecision, FailureSteps, EndSteps
  <2>5. OpeningStatus'
    BY <1>4, <2>2, <2>3 DEF OpeningStatus, Hops
  <2>6. decision' \in {"none", "DENIED"} =>
          /\ \A g \in Handlers \ {Workflow} : pc'[g] \in Bystanding
          /\ \A c \in Callers : run'[c] = "none"
    BY <1>2, <1>3, <1>4 DEF DecisionInv
  <2>. QED
    BY <1>2, <2>4, <2>5, <2>6 DEF DecisionInv
<1>5. CASE h # Workflow
  <2>1. decision \notin {"none", "DENIED"}
    BY <1>2, <1>3, <1>5 DEF DecisionInv, Bystanding, Hops
  <2>2. pc'[Workflow] = pc[Workflow] /\ pc[Workflow] \notin BeforeDecision \cup {"deny"}
    BY <1>2, <1>3, <1>5, <2>1 DEF DecisionInv
  <2>. QED
    BY <1>2, <2>1, <2>2 DEF DecisionInv, OpeningStatus, BeforeDecision
<1>. QED
  BY <1>4, <1>5

(* The policy's decision, and the approval it asks for.                    *)
LEMMA OpensDecides ==
  ASSUME TypeInv, DecisionInv, NEW h \in Handlers, Opens(h)
  PROVE  DecisionInv'
<1>1. pc \in [Handlers -> Steps] /\ Workflow \in Handlers /\ h = Workflow
  <2>1. pc[h] \in ReportSteps /\ Serves(h, pc[h])
    BY DEF Opens, Screen, Consult, Investigate, SaveDecision, CreateApproval, AttachApproval,
           At, ReportSteps, TypeInv, LocalTyped
  <2>. QED
    BY <2>1, ServesNext DEF TypeInv, LocalTyped, Handlers
<1>2. /\ \A step : Goto(h, step) => pc' = [pc EXCEPT ![h] = step]
      /\ \A category, step : Report(h, category, step) => pc' = [pc EXCEPT ![h] = step]
  BY DEF Goto, Report
<1>3. UNCHANGED <<status, run>>
  BY DEF Opens, Screen, Consult, Investigate, SaveDecision, CreateApproval, AttachApproval,
         Locally, incident, execution
<1>4. CASE Screen(h) \/ Consult(h) \/ Investigate(h)
  <2>1. UNCHANGED <<decision, approval, attached>> /\ decision = "none"
    BY <1>1, <1>4 DEF Screen, Consult, Investigate, At, Locally, incident, DecisionInv,
                      BeforeDecision
  <2>2. \/ pc[h] = "screen" /\ pc' = [pc EXCEPT ![h] = "route"]
        \/ pc[h] = "consult" /\ pc' = [pc EXCEPT ![h] = "investigate"]
        \/ pc[h] = "consult" /\ pc' = [pc EXCEPT ![h] = "hand_off"]
        \/ pc[h] = "investigate" /\ pc' = [pc EXCEPT ![h] = "propose"]
        \/ pc' = [pc EXCEPT ![h] = "fail"]
    BY <1>2, <1>4 DEF Screen, Consult, Investigate, Fail, At
  <2>3. /\ \A g \in Handlers \ {Workflow} : pc'[g] = pc[g]
        /\ \/ pc[h] = "screen" /\ pc'[h] = "route"
           \/ pc[h] = "consult" /\ pc'[h] = "investigate"
           \/ pc[h] = "consult" /\ pc'[h] = "hand_off"
           \/ pc[h] = "investigate" /\ pc'[h] = "propose"
           \/ pc'[h] = "fail"
    BY <1>1, <2>2
  <2>. QED
    BY <1>1, <1>3, <2>1, <2>3 DEF DecisionInv, OpeningStatus, BeforeDecision, FailureSteps
<1>5. CASE SaveDecision(h)
  <2>1. /\ UNCHANGED <<approval, attached>> /\ pc[h] = "decide" /\ decision = "none"
        /\ status = "POLICY_EVALUATED"
    BY <1>1, <1>5 DEF SaveDecision, At, DecisionInv, OpeningStatus, BeforeDecision
  <2>2. \/ decision' = "AUTO_ALLOWED" /\ pc' = [pc EXCEPT ![h] = "allow"]
        \/ decision' = "APPROVAL_REQUIRED" /\ pc' = [pc EXCEPT ![h] = "ask"]
        \/ decision' = "DENIED" /\ pc' = [pc EXCEPT ![h] = "deny"]
    BY <1>2, <1>5 DEF SaveDecision
  <2>3. /\ \A g \in Handlers \ {Workflow} : pc'[g] = pc[g]
        /\ \/ decision' = "AUTO_ALLOWED" /\ pc'[h] = "allow"
           \/ decision' = "APPROVAL_REQUIRED" /\ pc'[h] = "ask"
           \/ decision' = "DENIED" /\ pc'[h] = "deny"
    BY <1>1, <2>2
  <2>. QED
    BY <1>1, <1>3, <2>1, <2>3 DEF DecisionInv, OpeningStatus, BeforeDecision
<1>6. CASE CreateApproval(h) \/ AttachApproval(h)
  <2>1. /\ decision' = decision /\ approval' # "none" /\ decision = "APPROVAL_REQUIRED"
        /\ \E step \in {"attach", "park"} : pc' = [pc EXCEPT ![h] = step]
    BY <1>1, <1>2, <1>6 DEF CreateApproval, AttachApproval, At, DecisionInv
  <2>2. pc'[h] \in {"attach", "park"}
    BY <1>1, <2>1
  <2>. QED
    BY <1>1, <1>3, <2>1, <2>2 DEF DecisionInv, OpeningStatus, BeforeDecision
<1>. QED
  BY <1>4, <1>5, <1>6 DEF Opens

(* Nobody calls the executor, or closes, before a decision that lets them. *)
LEMMA CallsDecides ==
  ASSUME TypeInv, DecisionInv, NEW h \in Handlers, Calls(h) \/ Verify(h) \/ Terminalize(h)
  PROVE  DecisionInv' /\ decision \notin {"none", "DENIED"}
<1>1. pc \in [Handlers -> Steps] /\ Workflow \in Handlers
  BY DEF TypeInv, LocalTyped, Handlers
<1>2. pc[h] \in {"call", "wait", "verify", "terminalize"}
  BY DEF Calls, CallExecutor, ReadReceipt, UnreadableReceipt, ExecutorUnreachable, Answered,
         Verify, Terminalize, At
<1>3. decision \notin {"none", "DENIED"}
  BY <1>1, <1>2 DEF DecisionInv, Bystanding, BeforeDecision, FailureSteps, EndSteps
<1>4. UNCHANGED <<status, decision, approval, attached>>
  BY DEF Calls, CallExecutor, ReadReceipt, UnreadableReceipt, ExecutorUnreachable,
         Verify, Terminalize, Locally, incident
<1>5. \E step \in {"wait", "executed", "mark_failed", "fail", "terminalize", "reject", "resolve"} :
        pc' = [pc EXCEPT ![h] = step]
  BY DEF Calls, CallExecutor, ReadReceipt, UnreadableReceipt, ExecutorUnreachable,
         Verify, Terminalize, Goto, Report, Fail
<1>6. pc'[Workflow] = pc[Workflow] \/ pc'[Workflow] \notin BeforeDecision \cup {"ask", "attach", "deny"}
  BY <1>1, <1>5 DEF BeforeDecision
<1>. QED
  BY <1>1, <1>3, <1>4, <1>6 DEF DecisionInv, OpeningStatus, BeforeDecision

(* Nor does a request that comes before it begin one.                      *)
LEMMA ReceivesDecides ==
  ASSUME TypeInv, DecisionInv, NEW h \in Handlers, Receives(h)
  PROVE  DecisionInv'
<1>1. pc \in [Handlers -> Steps] /\ Workflow \in Handlers /\ Serves(h, pc[h])
  BY DEF TypeInv, LocalTyped, Handlers
<1>2. pc[h] \in {"idle", "check", "close"} \/ (pc[h] = "wait" /\ h \in Reconciles)
  BY DEF Receives, ReceiveResume, CheckApproval, Decide, CloseUnapproved,
         ReceiveReconcile, ReconcileReceipt, ReconcileUnanswered, At, Answered
<1>3. h # Workflow
  BY <1>1, <1>2, OrchestratorAssumption DEF Serves
<1>4. UNCHANGED <<status, decision, attached, run>>
  BY DEF Receives, ReceiveResume, CheckApproval, Decide, CloseUnapproved,
         ReceiveReconcile, ReconcileReceipt, ReconcileUnanswered, Locally, incident, execution
<1>5. approval' = approval \/ (approval # "none" /\ approval' # "none")
  BY DEF Receives, ReceiveResume, CheckApproval, Decide, CloseUnapproved, DecideApproval,
         CanBeAnswered, ReceiveReconcile, ReconcileReceipt, ReconcileUnanswered, Locally, incident
<1>6. /\ pc'[Workflow] = pc[Workflow]
      /\ \A g \in Handlers \ {h} : pc'[g] = pc[g]
  <2>1. HandlerStep(h)
    BY DEF Receives, HandlerStep, Resume, Answer, Reconcile
  <2>. QED
    BY <1>1, <1>3, <2>1, OthersStay
<1>7. ASSUME decision \in {"none", "DENIED"} PROVE pc'[h] \in Bystanding
  <2>1. /\ pc[h] \in {"idle", "check"} /\ approval = "none"
        /\ decision = "none" \/ status \notin RECONCILABLE_STATES
    BY <1>2, <1>3, <1>7 DEF DecisionInv, Bystanding, RECONCILABLE_STATES
  <2>2. CASE ReceiveResume(h) \/ CheckApproval(h) \/ ReceiveReconcile(h)
    <3>1. \E step \in Bystanding : pc' = [pc EXCEPT ![h] = step]
      BY <1>7, <2>1, <2>2 DEF ReceiveResume, CheckApproval, ReceiveReconcile, Goto, Bystanding
    <3>. QED
      BY <1>1, <3>1
  <2>3. ~(ReceiveResume(h) \/ CheckApproval(h) \/ ReceiveReconcile(h)) => FALSE
    BY <2>1 DEF Receives, Decide, CloseUnapproved, CanBeAnswered, ReconcileReceipt,
                ReconcileUnanswered, At, Answered
  <2>. QED
    BY <2>2, <2>3
<1>. QED
  BY <1>1, <1>3, <1>4, <1>5, <1>6, <1>7 DEF DecisionInv, OpeningStatus

(* A failure of a denied incident cannot make it look executed.            *)
LEMMA FailingDecides ==
  ASSUME TypeInv, DecisionInv, NEW h \in Handlers, Failing(h)
  PROVE  DecisionInv'
<1>1. pc \in [Handlers -> Steps] /\ Workflow \in Handlers
  BY DEF TypeInv, LocalTyped, Handlers
<1>2. pc[h] \in FailureSteps /\ UNCHANGED <<decision, approval, attached, run>>
  BY DEF Failing, BeginFailure, SettleFailure, Escalate, WalkFailure, SaveHandover, Locally,
         incident, execution, At, FailureSteps
<1>3. \E step \in FailureSteps \cup EndSteps : pc' = [pc EXCEPT ![h] = step]
  <2>1. BeginFailure(h) \/ SettleFailure(h) \/ Escalate(h) =>
          \E step \in {"settle", "save", "walk", "escalate"} : pc' = [pc EXCEPT ![h] = step]
    BY DEF BeginFailure, SettleFailure, Escalate, Depart, Goto
  <2>2. WalkFailure(h) \/ SaveHandover(h) =>
          \E step \in {"save", "walk", "done", "fail"} : pc' = [pc EXCEPT ![h] = step]
    BY DEF WalkFailure, SaveHandover, Raise, Fail, Report, Goto
  <2>. QED
    BY <2>1, <2>2 DEF Failing, FailureSteps, EndSteps
<1>4. pc'[h] \in FailureSteps \cup EndSteps /\ \A g \in Handlers \ {h} : pc'[g] = pc[g]
  BY <1>1, <1>3
<1>5. \/ status' = status
      \/ status' \in RestingStatuses /\ can_transition(status, status')
  <2>1. CASE WalkFailure(h)
    <3>1. route[h] \in Seq(RestingStatuses) /\ route[h] # <<>>
      BY <2>1 DEF WalkFailure, At, TypeInv, LocalTyped
    <3>2. Head(route[h]) \in RestingStatuses
      BY <3>1, HeadTailProperties
    <3>. QED
      BY <2>1, <3>2 DEF WalkFailure
  <2>2. CASE ~WalkFailure(h)
    BY <2>2 DEF Failing, BeginFailure, SettleFailure, Escalate, SaveHandover, Locally, incident
  <2>. QED
    BY <2>1, <2>2
<1>6. decision = "DENIED" => status' \in {"POLICY_EVALUATED", "DENIED", "ESCALATED"}
  <2>1. status \in Statuses
    BY DEF TypeInv, IncidentTyped
  <2>. QED
    BY <1>5, <2>1, WaysToRest DEF DecisionInv, RestingStatuses, RECONCILABLE_STATES
<1>7. CASE h = Workflow
  <2>1. pc'[Workflow] \notin BeforeDecision \cup {"ask", "attach", "deny"}
    BY <1>4, <1>7 DEF FailureSteps, EndSteps, BeforeDecision
  <2>. QED
    BY <1>1, <1>2, <1>4, <1>6, <1>7, <2>1 DEF DecisionInv, OpeningStatus, BeforeDecision
<1>8. CASE h # Workflow
  <2>1. decision \notin {"none", "DENIED"}
    BY <1>2, <1>8 DEF DecisionInv, FailureSteps, Bystanding
  <2>2. pc'[Workflow] = pc[Workflow] /\ pc[Workflow] \notin BeforeDecision \cup {"deny"}
    BY <1>1, <1>4, <1>8, <2>1 DEF DecisionInv
  <2>. QED
    BY <1>2, <2>1, <2>2 DEF DecisionInv, OpeningStatus, BeforeDecision
<1>. QED
  BY <1>7, <1>8

(* Nor does a fault.                                                       *)
LEMMA FaultsDecide ==
  ASSUME TypeInv, DecisionInv, NEW h \in Handlers, WriteRaises(h) \/ Crash(h)
  PROVE  DecisionInv'
<1>1. pc \in [Handlers -> Steps] /\ Workflow \in Handlers
  BY DEF TypeInv, LocalTyped, Handlers
<1>2. UNCHANGED <<status, decision, approval, attached, run>>
  BY DEF WriteRaises, Crash, incident, execution
<1>3. pc' = [pc EXCEPT ![h] = "lost"] \/ (pc[h] \in WriteSteps /\ pc' = [pc EXCEPT ![h] = "fail"])
  BY DEF WriteRaises, Crash, Goto, Raise, Fail, Report
<1>4. /\ \A g \in Handlers \ {h} : pc'[g] = pc[g]
      /\ pc'[h] = "lost" \/ (pc[h] \in WriteSteps /\ pc'[h] = "fail")
  BY <1>1, <1>3
<1>5. decision \in {"none", "DENIED"} /\ h # Workflow => pc[h] \notin WriteSteps
  BY DEF DecisionInv, Bystanding, WriteSteps
<1>6. CASE h = Workflow
  BY <1>1, <1>2, <1>4, <1>6 DEF DecisionInv, OpeningStatus, BeforeDecision, FailureSteps, EndSteps
<1>7. CASE h # Workflow
  BY <1>1, <1>2, <1>4, <1>5, <1>7 DEF DecisionInv, OpeningStatus, Bystanding
<1>. QED
  BY <1>6, <1>7

(* Every step keeps what is known of the decision.                         *)
LEMMA NextDecides ==
  ASSUME TypeInv, DecisionInv, [Next]_vars
  PROVE  DecisionInv'
<1>1. ASSUME NEW h \in Handlers, HandlerStep(h) PROVE DecisionInv'
  BY <1>1, HandlerCases, HopDecides, OpensDecides, CallsDecides, ReceivesDecides, FailingDecides
<1>2. ASSUME \/ UNCHANGED vars
             \/ \E c \in Callers : ExecutorStep(c) \/ ExecutionDies(c) \/ CloudRunStep(c)
             \/ Environment
      PROVE  DecisionInv'
  <2>1. /\ UNCHANGED <<status, decision, approval, attached, pc>>
        /\ \A c \in Callers : run[c] = "none" => run'[c] = "none"
    BY <1>2, OutsideStays DEF local
  <2>. QED
    BY <2>1 DEF DecisionInv, OpeningStatus
<1>. QED
  BY <1>1, <1>2, FaultsDecide DEF Next

-----------------------------------------------------------------------------
(* What was authorized stays so, and what was verified too.                *)

(* A decision is made once, and an approval is answered once.              *)
LEMMA HandlersKeepDecisions ==
  ASSUME TypeInv, DecisionInv, NEW h \in Handlers, HandlerStep(h) \/ WriteRaises(h) \/ Crash(h)
  PROVE  /\ decision' = decision \/ decision = "none"
         /\ approval' = approval \/ approval \in {"none", "PENDING"}
<1>1. Hop(h) \/ Calls(h) \/ Verify(h) \/ Terminalize(h) \/ WriteRaises(h) \/ Crash(h)
        => UNCHANGED <<decision, approval>>
  BY DEF Hop, Transition, Calls, CallExecutor, ReadReceipt, UnreadableReceipt,
         ExecutorUnreachable, Verify, Terminalize, WriteRaises, Crash, Locally, incident
<1>2. Failing(h) => UNCHANGED <<decision, approval>>
  BY DEF Failing, BeginFailure, SettleFailure, Escalate, WalkFailure, SaveHandover, Locally, incident
<1>3. Receives(h) => /\ decision' = decision
                     /\ approval' = approval \/ approval = "PENDING"
  BY DEF Receives, ReceiveResume, CheckApproval, Decide, CloseUnapproved, DecideApproval,
         ReceiveReconcile, ReconcileReceipt, ReconcileUnanswered, Locally, incident
<1>4. Opens(h) => /\ decision' = decision \/ decision = "none"
                  /\ approval' = approval \/ approval = "none"
  <2>1. Opens(h) => h = Workflow
    <3>1. Opens(h) => pc[h] \in ReportSteps /\ Serves(h, pc[h])
      BY DEF Opens, Screen, Consult, Investigate, SaveDecision, CreateApproval, AttachApproval,
             At, ReportSteps, TypeInv, LocalTyped
    <3>. QED
      BY <3>1, ServesNext
  <2>2. Screen(h) \/ Consult(h) \/ Investigate(h) \/ AttachApproval(h)
          => UNCHANGED <<decision, approval>>
    BY DEF Screen, Consult, Investigate, AttachApproval, Locally, incident
  <2>3. SaveDecision(h) => pc[h] = "decide" /\ approval' = approval
    BY DEF SaveDecision, At
  <2>4. CreateApproval(h) => pc[h] = "ask" /\ decision' = decision
    BY DEF CreateApproval, At
  <2>. QED
    BY <2>1, <2>2, <2>3, <2>4 DEF Opens, DecisionInv, BeforeDecision
<1>. QED
  BY <1>1, <1>2, <1>3, <1>4, HandlerCases

(* What was authorized once stays authorized: no step takes a decision or its*)
(* approval back.                                                          *)
LEMMA AuthorizedForGood ==
  ASSUME TypeInv, DecisionInv, [Next]_vars, Authorized
  PROVE  Authorized'
<1>1. \/ \E h \in Handlers : HandlerStep(h) \/ WriteRaises(h) \/ Crash(h)
      \/ UNCHANGED <<decision, approval>>
  BY OutsideStays DEF Next
<1>. QED
  BY <1>1, HandlersKeepDecisions DEF Authorized

(* A handler's step calls the executor, or leaves the executions alone.    *)
LEMMA HandlersCall ==
  ASSUME TypeInv, NEW h \in Handlers, HandlerStep(h) \/ WriteRaises(h) \/ Crash(h)
  PROVE  \/ run' = run
         \/ /\ h \in Callers /\ pc[h] = "call" /\ pc'[h] = "wait"
            /\ run' = [run EXCEPT ![h] = "called"]
<1>1. Hop(h) \/ Verify(h) \/ Terminalize(h) \/ WriteRaises(h) \/ Crash(h) \/ Opens(h)
        => run' = run
  BY DEF Hop, Transition, Verify, Terminalize, WriteRaises, Crash, Locally, execution,
         Opens, Screen, Consult, Investigate, SaveDecision, CreateApproval, AttachApproval
<1>2. Failing(h) \/ Receives(h) => run' = run
  BY DEF Failing, BeginFailure, SettleFailure, Escalate, WalkFailure, SaveHandover, Locally,
         Receives, ReceiveResume, CheckApproval, Decide, CloseUnapproved,
         ReceiveReconcile, ReconcileReceipt, ReconcileUnanswered, execution
<1>3. ReadReceipt(h) \/ UnreadableReceipt(h) \/ ExecutorUnreachable(h) => run' = run
  BY DEF ReadReceipt, UnreadableReceipt, ExecutorUnreachable, Locally, execution
<1>4. ASSUME CallExecutor(h)
      PROVE  /\ h \in Callers /\ pc[h] = "call" /\ pc'[h] = "wait"
             /\ run' = [run EXCEPT ![h] = "called"]
  <2>1. pc[h] = "call" /\ Serves(h, pc[h]) /\ pc' = [pc EXCEPT ![h] = "wait"]
    BY <1>4 DEF CallExecutor, At, Goto, TypeInv, LocalTyped
  <2>2. h \in Callers
    BY <2>1, ServesNext DEF CallSteps
  <2>. QED
    BY <1>4, <2>1, <2>2 DEF CallExecutor, TypeInv, LocalTyped
<1>. QED
  BY <1>1, <1>2, <1>3, <1>4, HandlerCases DEF Calls

(* A call reaches the lease, and a write is sent, only when authorized.    *)
LEMMA NextAuthorizes ==
  ASSUME TypeInv, DecisionInv, AuthorizedInv, [Next]_vars
  PROVE  AuthorizedInv'
<1>. DEFINE Engaged == {"observe", "reread", "request", "await"}
<1>1. ASSUME NEW d \in Callers
      PROVE  \/ Authorized
             \/ run'[d] \notin Engaged /\ put'[d] = "none"
  <2>1. ~Authorized => run[d] \notin Engaged /\ put[d] = "none"
    BY DEF AuthorizedInv
  <2>2. run \in [Callers -> RunStates] /\ put \in [Callers -> PutStates]
    BY DEF TypeInv, ExecutionTyped
  <2>3. ASSUME NEW h \in Handlers, HandlerStep(h) \/ WriteRaises(h) \/ Crash(h)
        PROVE  put' = put /\ (run' = run \/ run' = [run EXCEPT ![h] = "called"])
    BY <2>3, OthersStay, HandlersCall
  <2>4. CASE \E h \in Handlers : HandlerStep(h) \/ WriteRaises(h) \/ Crash(h)
    BY <2>1, <2>2, <2>3, <2>4
  <2>5. ASSUME NEW c \in Callers, ExecutorStep(c)
        PROVE  Authorized \/ (run'[d] \notin Engaged /\ put'[d] = "none")
    <3>1. ~Authorized => run[c] = "called"
      BY <2>5 DEF ExecutorStep, Acquire, Observe, RereadIncident, RequestMutation, Conclude,
                  AuthorizedInv
    <3>2. ~Authorized => Acquire(c)
      BY <2>5, <3>1 DEF ExecutorStep, Acquire, Observe, RereadIncident, RequestMutation, Conclude
    <3>3. ~Authorized => run' = [run EXCEPT ![c] = "ended"] /\ put' = put
      BY <3>2 DEF Acquire, Reply, IsAuthorized, Authorized
    <3>. QED
      BY <2>1, <2>2, <3>3
  <2>6. ASSUME NEW c \in Callers, ExecutionDies(c) \/ CloudRunStep(c)
        PROVE  Authorized \/ (run'[d] \notin Engaged /\ put'[d] = "none")
    <3>1. ~Authorized /\ CloudRunStep(c) => FALSE
      BY DEF CloudRunStep, PutSettles, AuthorizedInv
    <3>2. ExecutionDies(c) => run' = [run EXCEPT ![c] = "ended"] /\ put' = put
      BY DEF ExecutionDies
    <3>. QED
      BY <2>1, <2>2, <2>6, <3>1, <3>2
  <2>7. Environment \/ UNCHANGED vars => run' = run /\ put' = put
    BY DEF Environment, MigrateTraffic, LeaseLapses, ApprovalLapses, OperatorChange, vars, execution
  <2>. QED
    BY <2>1, <2>4, <2>5, <2>6, <2>7 DEF Next
<1>2. ASSUME Authorized PROVE Authorized'
  BY <1>2, AuthorizedForGood
<1>. QED
  BY <1>1, <1>2 DEF AuthorizedInv

(* No step reopens an execution that was closed as verified.               *)
LEMMA VerifiedForGood ==
  ASSUME TypeInv, [Next]_vars, exec.state = "VERIFIED"
  PROVE  exec'.state = "VERIFIED"
<1>1. /\ Store!LapsedRecord(exec).state = "VERIFIED" /\ ~Store!Takeable(exec)
      /\ \A c \in Callers : ~Owned(c) /\ \A expect : ~Owns(c, expect)
  BY DEF Store!LapsedRecord, Store!Takeable, Store!AcquireOutcome, Store!TERMINAL_STATES,
         Store!OPEN_STATES, Owned, Owns, Store!OwnedOutcome, Store!AdvanceOutcome
<1>2. \A c \in Callers : \A doc : Released(c, doc) = exec
  BY <1>1 DEF Released
<1>3. ASSUME NEW h \in Handlers, HandlerStep(h) \/ WriteRaises(h) \/ Crash(h)
      PROVE  exec' = exec
  <2>1. Hop(h) \/ Calls(h) \/ Verify(h) \/ WriteRaises(h) \/ Crash(h) \/ Opens(h) => exec' = exec
    BY DEF Hop, Transition, Calls, CallExecutor, ReadReceipt, UnreadableReceipt,
           ExecutorUnreachable, Verify, WriteRaises, Crash, Locally, execution,
           Opens, Screen, Consult, Investigate, SaveDecision, CreateApproval, AttachApproval
  <2>2. Failing(h) \/ Receives(h) => exec' = exec
    BY DEF Failing, BeginFailure, SettleFailure, Escalate, WalkFailure, SaveHandover, Locally,
           Receives, ReceiveResume, CheckApproval, Decide, CloseUnapproved,
           ReceiveReconcile, ReconcileReceipt, ReconcileUnanswered, execution
  <2>3. Terminalize(h) => exec' = exec
    BY DEF Terminalize, Closable
  <2>. QED
    BY <1>3, <2>1, <2>2, <2>3, HandlerCases
<1>4. ASSUME NEW c \in Callers, ExecutorStep(c) PROVE exec' = exec
  <2>1. CASE Acquire(c)
    BY <1>1, <2>1 DEF Acquire
  <2>2. CASE Observe(c)
    BY <1>1, <1>2, <2>2 DEF Observe
  <2>3. CASE RereadIncident(c)
    BY <1>2, <2>3 DEF RereadIncident
  <2>4. CASE RequestMutation(c)
    BY <1>1, <2>4 DEF RequestMutation
  <2>5. CASE Conclude(c)
    BY <1>1, <1>2, <2>5 DEF Conclude
  <2>. QED
    BY <1>4, <2>1, <2>2, <2>3, <2>4, <2>5 DEF ExecutorStep
<1>5. ASSUME NEW c \in Callers, ExecutionDies(c) \/ CloudRunStep(c) PROVE exec' = exec
  BY <1>5 DEF ExecutionDies, CloudRunStep, PutSettles
<1>6. Environment \/ UNCHANGED vars => exec' = exec \/ exec' = Store!LapsedRecord(exec)
  BY DEF Environment, MigrateTraffic, LeaseLapses, ApprovalLapses, OperatorChange, vars, execution
<1>. QED
  BY <1>1, <1>3, <1>4, <1>5, <1>6 DEF Next

(* Only a closed execution is on its way to RESOLVED.                      *)
LEMMA NextVerifies ==
  ASSUME TypeInv, VerifiedInv, [Next]_vars
  PROVE  VerifiedInv'
<1>1. pc \in [Handlers -> Steps]
  BY DEF TypeInv, LocalTyped
<1>2. ASSUME status' = "RESOLVED" \/ \E h \in Handlers : pc'[h] = "resolve",
             ~(status = "RESOLVED" \/ \E h \in Handlers : pc[h] = "resolve")
      PROVE  exec'.state = "VERIFIED"
  <2>1. PICK h \in Handlers : HandlerStep(h) \/ WriteRaises(h) \/ Crash(h)
    BY <1>2, OutsideStays DEF Next, local
  <2>2. \A g \in Handlers \ {h} : pc'[g] = pc[g]
    BY <2>1, OthersStay
  <2>3. status' = "RESOLVED" \/ pc'[h] = "resolve"
    BY <1>2, <2>2
  <2>4. /\ \A step : Goto(h, step) => pc'[h] = step
        /\ \A category, step : Report(h, category, step) => pc'[h] = step
        /\ Raise(h) => pc'[h] \in {"done", "fail"}
    BY <1>1 DEF Goto, Report, Raise, Fail
  <2>5. CASE Hop(h)
    <3>1. PICK hop \in Hops : Transition(h, hop[1], hop[2], hop[3])
      BY <2>5 DEF Hop
    <3>2. /\ pc[h] = hop[1] /\ hop[1] # "resolve"
          /\ status' \in {status, hop[2]} /\ pc'[h] \in {hop[3], "done", "fail"}
      BY <1>2, <2>4, <3>1 DEF Transition, At
    <3>. QED
      BY <1>2, <2>3, <3>2 DEF Hops
  <2>6. CASE Failing(h)
    <3>1. pc'[h] # "resolve"
      <4>1. \A target : Depart(h, target) => pc'[h] \in {"save", "walk"}
        BY <1>1 DEF Depart
      <4>2. BeginFailure(h) \/ SettleFailure(h) \/ Escalate(h) \/ SaveHandover(h)
              => pc'[h] # "resolve"
        BY <2>4, <4>1 DEF BeginFailure, SettleFailure, Escalate, SaveHandover
      <4>3. WalkFailure(h) => pc'[h] \in {"save", "walk", "done", "fail"}
        BY <1>1, <2>4 DEF WalkFailure
      <4>. QED
        BY <2>6, <4>2, <4>3 DEF Failing
    <3>2. status' # "RESOLVED"
      <4>1. CASE WalkFailure(h)
        <5>1. route[h] \in Seq(RestingStatuses) /\ route[h] # <<>>
          BY <4>1 DEF WalkFailure, At, TypeInv, LocalTyped
        <5>2. Head(route[h]) \in RestingStatuses
          BY <5>1, HeadTailProperties
        <5>. QED
          BY <1>2, <4>1, <5>2 DEF WalkFailure, RestingStatuses, RECONCILABLE_STATES
      <4>. QED
        BY <1>2, <2>6, <4>1 DEF Failing, BeginFailure, SettleFailure, Escalate, SaveHandover,
                                Locally, incident
    <3>. QED
      BY <2>3, <3>1, <3>2
  <2>7. CASE Opens(h) \/ Calls(h) \/ Verify(h) \/ Receives(h) \/ WriteRaises(h) \/ Crash(h)
    <3>1. status' = status
      BY <2>7 DEF Opens, Screen, Consult, Investigate, SaveDecision, CreateApproval, AttachApproval,
           Calls, CallExecutor, ReadReceipt, UnreadableReceipt, ExecutorUnreachable, Verify,
           Receives, ReceiveResume, CheckApproval, Decide, CloseUnapproved, ReceiveReconcile,
           ReconcileReceipt, ReconcileUnanswered, WriteRaises, Crash, Locally, incident
    <3>2. Opens(h) \/ Verify(h) \/ WriteRaises(h) \/ Crash(h) => pc'[h] # "resolve"
      BY <2>4 DEF Opens, Screen, Consult, Investigate, SaveDecision, CreateApproval, AttachApproval,
           Verify, Fail, WriteRaises, Crash
    <3>3. Calls(h) => pc'[h] # "resolve"
      BY <1>1, <2>4 DEF Calls, CallExecutor, ReadReceipt, UnreadableReceipt, ExecutorUnreachable, Fail
    <3>4. Receives(h) => pc'[h] # "resolve"
      <4>1. ReceiveResume(h) \/ ReceiveReconcile(h) => pc'[h] # "resolve"
        BY <1>1 DEF ReceiveResume, ReceiveReconcile
      <4>2. CheckApproval(h) \/ Decide(h) \/ CloseUnapproved(h) \/ ReconcileUnanswered(h)
              => pc'[h] # "resolve"
        BY <2>4 DEF CheckApproval, Decide, CloseUnapproved, ReconcileUnanswered
      <4>3. ReconcileReceipt(h) => pc'[h] # "resolve"
        BY <1>1 DEF ReconcileReceipt
      <4>. QED
        BY <4>1, <4>2, <4>3 DEF Receives
    <3>. QED
      BY <1>2, <2>3, <2>7, <3>1, <3>2, <3>3, <3>4
  <2>8. CASE Terminalize(h)
    <3>1. status' = status
      BY <2>8 DEF Terminalize, incident
    <3>2. pc'[h] = "resolve" => \/ exec.state = "VERIFIED" /\ exec' = exec
                                \/ exec' = Store!AdvancedRecord(exec, "VERIFIED", exec.predates)
      BY <2>4, <2>8 DEF Terminalize, Fail
    <3>. QED
      BY <1>2, <2>3, <3>1, <3>2 DEF Store!AdvancedRecord
  <2>. QED
    BY <2>1, <2>5, <2>6, <2>7, <2>8, HandlerCases
<1>. QED
  BY <1>2, VerifiedForGood DEF VerifiedInv

-----------------------------------------------------------------------------
(* Nobody is stranded.                                                     *)

(* A failure's walk sets out on a legal transition, or the incident is     *)
(* closed.                                                                 *)
LEMMA DepartCarries ==
  ASSUME TypeInv, NEW h \in Handlers, NEW target \in RestingStatuses, Depart(h, target),
         target = "ESCALATED" \/ Routes[target][status] # <<>>,
         UNCHANGED status, status \notin Movable
  PROVE  Carries(h)'
<1>. DEFINE path == Routes[target][status]
<1>1. /\ path # <<>> => can_transition(status, Head(path))
      /\ target = "ESCALATED" /\ status \notin TERMINAL_STATES => path # <<>>
  BY RoutesRest DEF TypeInv, IncidentTyped
<1>. HIDE DEF path
<1>2. path # <<>> /\ can_transition(status, Head(path))
  BY <1>1 DEF Movable, path
<1>3. route' = [route EXCEPT ![h] = path] /\ pc' = [pc EXCEPT ![h] = "walk"]
  BY <1>2 DEF Depart, path
<1>4. route'[h] = path /\ pc'[h] = "walk"
  BY <1>3 DEF TypeInv, LocalTyped
<1>. QED
  BY <1>2, <1>4 DEF Carries

(* A handler that leaves the status alone leaves nobody's walk behind.     *)
LEMMA OthersCarry ==
  ASSUME TypeInv, NEW h \in Handlers, HandlerStep(h) \/ WriteRaises(h) \/ Crash(h),
         UNCHANGED status, NEW g \in Handlers \ {h}, Carries(g)
  PROVE  Carries(g)'
<1>1. pc'[g] = pc[g] /\ route'[g] = route[g]
  BY OthersStay
<1>. QED
  BY <1>1 DEF Carries

(* Whoever carries an incident goes on, or leaves it where an endpoint can *)
(* move it.                                                                *)
LEMMA CarriersGoOn ==
  ASSUME TypeInv, DecisionInv, NEW h \in Handlers, HandlerStep(h) \/ WriteRaises(h) \/ Crash(h),
         UNCHANGED status, status \notin Movable, Carries(h)
  PROVE  Carries(h)'
<1>1. pc \in [Handlers -> Steps] /\ Serves(h, pc[h])
  BY DEF TypeInv, LocalTyped
<1>2. /\ \A step : Goto(h, step) => pc'[h] = step
      /\ \A category, step : Report(h, category, step) => pc'[h] = step
      /\ Raise(h) => pc'[h] = IF pc[h] \in UnguardedSteps THEN "done" ELSE "fail"
  BY <1>1 DEF Goto, Report, Raise, Fail
<1>3. pc'[h] \in CarryingSteps => Carries(h)'
  BY DEF Carries
<1>4. CASE Hop(h)
  <2>1. PICK hop \in Hops : Transition(h, hop[1], hop[2], hop[3])
    BY <1>4 DEF Hop
  <2>2. pc[h] = hop[1] /\ hop[1] \in CarryingSteps
    <3>1. pc[h] = hop[1] /\ hop[1] \notin {"call", "wait", "walk"}
      BY <2>1 DEF Transition, At, Hops
    <3>. QED
      BY <3>1 DEF Carries
  <2>3. hop[1] \in {"route", "hand_off"} => can_transition(status, hop[2])
    <3>1. hop[1] \in {"route", "hand_off"} => h = Workflow
      BY <1>1, <2>2 DEF Serves, ReportSteps
    <3>. QED
      BY <2>2, <3>1, OpeningIsLegal DEF DecisionInv, OpeningStatus, Hops
  <2>4. CASE can_transition(status, hop[2])
    <3>1. status' = hop[2] /\ pc'[h] = hop[3]
      BY <1>2, <2>1, <2>4 DEF Transition
    <3>2. hop[3] \in CarryingSteps \/ (hop[3] = "call" /\ hop[1] = "enter")
      BY <2>2, <3>1 DEF Hops, Movable, TERMINAL_STATES, RECONCILABLE_STATES, RESUMABLE_STATES,
                        CarryingSteps, ReportSteps, PipelineSteps, CloseSteps
    <3>3. hop[1] = "enter" => h \notin Reconciles
      BY <1>1, <2>2 DEF Serves, PipelineSteps
    <3>. QED
      BY <1>3, <3>1, <3>2, <3>3 DEF Carries
  <2>5. CASE ~can_transition(status, hop[2])
    <3>1. pc[h] \notin UnguardedSteps
      BY <2>2, <2>3, <2>5 DEF UnguardedSteps, Hops, CarryingSteps, ReportSteps, PipelineSteps,
                              CloseSteps
    <3>2. pc'[h] = "fail"
      BY <1>2, <2>1, <2>5, <3>1 DEF Transition
    <3>. QED
      BY <1>3, <3>2 DEF CarryingSteps
  <2>. QED
    BY <2>4, <2>5
<1>5. CASE Opens(h)
  <2>1. pc'[h] \in ReportSteps \cup {"fail"}
    BY <1>2, <1>5 DEF Opens, Screen, Consult, Investigate, SaveDecision, CreateApproval,
                      AttachApproval, Fail, ReportSteps
  <2>. QED
    BY <1>3, <2>1 DEF CarryingSteps
<1>6. CASE Calls(h)
  <2>1. h \notin Reconciles
    BY <1>6 DEF Carries, Calls, CallExecutor, ReadReceipt, UnreadableReceipt,
                ExecutorUnreachable, At, Answered, CarryingSteps, ReportSteps, PipelineSteps,
                CloseSteps
  <2>2. ReadReceipt(h) => pc'[h] \in {"executed", "mark_failed"}
    BY <1>1 DEF ReadReceipt
  <2>3. pc'[h] \in {"wait", "executed", "mark_failed", "fail"}
    BY <1>2, <1>6, <2>2 DEF Calls, CallExecutor, UnreadableReceipt, ExecutorUnreachable, Fail
  <2>. QED
    BY <2>1, <2>3 DEF Carries, CarryingSteps, PipelineSteps
<1>7. CASE Verify(h) \/ Terminalize(h)
  <2>1. pc'[h] \in CloseSteps \cup {"fail"}
    BY <1>2, <1>7 DEF Verify, Terminalize, Fail, CloseSteps
  <2>. QED
    BY <1>3, <2>1 DEF CarryingSteps
<1>8. CASE Receives(h)
  <2>1. pc[h] \in {"idle", "check", "close"} \/ (pc[h] = "wait" /\ h \in Reconciles)
    BY <1>8 DEF Receives, ReceiveResume, CheckApproval, Decide, CloseUnapproved,
         ReceiveReconcile, ReconcileReceipt, ReconcileUnanswered, At, Answered
  <2>. QED
    BY <2>1 DEF Carries, CarryingSteps, ReportSteps, PipelineSteps, CloseSteps
<1>9. CASE Failing(h)
  <2>1. "ESCALATED" \in RestingStatuses /\ RestingStatus(cat[h]) \in RestingStatuses
        /\ (cat[h] \notin ReconcilableFailures => RestingStatus(cat[h]) = "ESCALATED")
    BY DEF RestingStatus, RestingStatuses, RECONCILABLE_STATES
  <2>2. CASE BeginFailure(h)
    <3>1. \/ Goto(h, "settle")
          \/ /\ Depart(h, RestingStatus(cat[h]))
             /\ \/ RestingStatus(cat[h]) = "ESCALATED"
                \/ Routes[RestingStatus(cat[h])][status] # <<>>
      BY <2>1, <2>2 DEF BeginFailure
    <3>2. Goto(h, "settle") => pc'[h] \in CarryingSteps
      BY <1>2 DEF CarryingSteps
    <3>. QED
      BY <1>3, <2>1, <3>1, <3>2, DepartCarries
  <2>3. CASE SettleFailure(h)
    <3>1. pc'[h] = "escalate"
      BY <1>2, <2>3 DEF SettleFailure, Movable
    <3>. QED
      BY <1>3, <3>1 DEF CarryingSteps
  <2>4. CASE Escalate(h)
    BY <2>1, <2>4, DepartCarries DEF Escalate
  <2>5. CASE WalkFailure(h)
    <3>1. pc[h] = "walk" /\ route[h] \in Seq(RestingStatuses) /\ route[h] # <<>>
      BY <2>5 DEF WalkFailure, At, TypeInv, LocalTyped
    <3>2. Head(route[h]) \in RestingStatuses
      BY <3>1, HeadTailProperties
    <3>3. can_transition(status, Head(route[h]))
      BY <3>1 DEF Carries, CarryingSteps, ReportSteps, PipelineSteps, CloseSteps
    <3>4. status' = Head(route[h])
      BY <2>5, <3>3 DEF WalkFailure
    <3>. QED
      BY <3>2, <3>4 DEF RestingStatuses, Movable, TERMINAL_STATES
  <2>6. CASE SaveHandover(h)
    BY <2>6 DEF SaveHandover, At, Carries, CarryingSteps, ReportSteps, PipelineSteps, CloseSteps
  <2>. QED
    BY <1>9, <2>2, <2>3, <2>4, <2>5, <2>6 DEF Failing
<1>10. CASE WriteRaises(h) \/ Crash(h)
  <2>1. pc'[h] \in {"lost", "fail"}
    BY <1>2, <1>10 DEF WriteRaises, Crash
  <2>. QED
    BY <1>3, <2>1 DEF CarryingSteps
<1>. QED
  BY <1>4, <1>5, <1>6, <1>7, <1>8, <1>9, <1>10, HandlerCases

(* Whoever moves an incident to where no endpoint can move it carries it.  *)
LEMMA MoversCarry ==
  ASSUME TypeInv, NEW h \in Handlers, HandlerStep(h) \/ WriteRaises(h) \/ Crash(h),
         status' # status, status' \notin Movable
  PROVE  Carries(h)'
<1>1. pc \in [Handlers -> Steps] /\ Serves(h, pc[h])
  BY DEF TypeInv, LocalTyped
<1>2. ~(Opens(h) \/ Calls(h) \/ Verify(h) \/ Terminalize(h) \/ Receives(h) \/ WriteRaises(h)
          \/ Crash(h))
  BY DEF Opens, Screen, Consult, Investigate, SaveDecision, CreateApproval, AttachApproval,
         Calls, CallExecutor, ReadReceipt, UnreadableReceipt, ExecutorUnreachable, Verify,
         Terminalize, Receives, ReceiveResume, CheckApproval, Decide, CloseUnapproved,
         ReceiveReconcile, ReconcileReceipt, ReconcileUnanswered, WriteRaises, Crash, Locally,
         incident
<1>3. CASE Hop(h)
  <2>1. PICK hop \in Hops : Transition(h, hop[1], hop[2], hop[3])
    BY <1>3 DEF Hop
  <2>2. status' = hop[2] /\ pc[h] = hop[1] /\ pc'[h] = hop[3]
    BY <1>1, <2>1 DEF Transition, At, Goto
  <2>3. hop[3] \in CarryingSteps \/ (hop[3] = "call" /\ hop[1] = "enter")
    BY <2>2 DEF Hops, Movable, TERMINAL_STATES, RECONCILABLE_STATES, RESUMABLE_STATES,
                CarryingSteps, ReportSteps, PipelineSteps, CloseSteps
  <2>4. hop[1] = "enter" => h \notin Reconciles
    BY <1>1, <2>2 DEF Serves, PipelineSteps
  <2>. QED
    BY <2>2, <2>3, <2>4 DEF Carries
<1>4. ASSUME Failing(h) PROVE FALSE
  <2>1. WalkFailure(h)
    BY <1>4 DEF Failing, BeginFailure, SettleFailure, Escalate, SaveHandover, Locally, incident
  <2>2. route[h] \in Seq(RestingStatuses) /\ route[h] # <<>>
    BY <2>1 DEF WalkFailure, At, TypeInv, LocalTyped
  <2>3. Head(route[h]) \in RestingStatuses
    BY <2>2, HeadTailProperties
  <2>. QED
    BY <2>1, <2>3 DEF WalkFailure, RestingStatuses, Movable, TERMINAL_STATES
<1>. QED
  BY <1>2, <1>3, <1>4, HandlerCases

(* While the incident is on its way, some handler carries it, after every  *)
(* step.                                                                   *)
LEMMA NextCarries ==
  ASSUME TypeInv, DecisionInv, CarriedInv, [Next]_vars
  PROVE  CarriedInv'
<1>. SUFFICES ASSUME status' \notin Movable PROVE \E h \in Handlers : Carries(h)'
  BY DEF CarriedInv
<1>1. ASSUME NEW h \in Handlers, HandlerStep(h) \/ WriteRaises(h) \/ Crash(h)
      PROVE  \E g \in Handlers : Carries(g)'
  <2>1. CASE status' = status
    <3>1. PICK g \in Handlers : Carries(g)
      BY <2>1 DEF CarriedInv
    <3>. QED
      BY <1>1, <2>1, <3>1, OthersCarry, CarriersGoOn
  <2>2. CASE status' # status
    BY <1>1, <2>2, MoversCarry
  <2>. QED
    BY <2>1, <2>2
<1>2. ASSUME \/ UNCHANGED vars
             \/ \E c \in Callers : ExecutorStep(c) \/ ExecutionDies(c) \/ CloudRunStep(c)
             \/ Environment
      PROVE  \E g \in Handlers : Carries(g)'
  <2>1. UNCHANGED <<status, pc, route>>
    BY <1>2, OutsideStays DEF local
  <2>. QED
    BY <2>1 DEF CarriedInv, Carries
<1>. QED
  BY <1>1, <1>2 DEF Next

-----------------------------------------------------------------------------
(* The inductive invariant, over all steps.                                *)
LEMMA InitIInv == Init => IInv
<1>. SUFFICES ASSUME Init PROVE IInv
  OBVIOUS
<1>1. TypeInv
  BY InitTyped
<1>2. pc[Workflow] = "screen" /\ Workflow \in Handlers
      /\ \A h \in Handlers \ {Workflow} : pc[h] = "idle"
  BY DEF Init, Handlers
<1>3. DecisionInv
  BY <1>2 DEF Init, DecisionInv, OpeningStatus, BeforeDecision, Bystanding
<1>4. AuthorizedInv
  BY DEF Init, AuthorizedInv
<1>5. VerifiedInv
  BY <1>2 DEF Init, VerifiedInv
<1>6. CarriedInv
  BY <1>2 DEF CarriedInv, Carries, CarryingSteps, ReportSteps
<1>. QED
  BY <1>1, <1>3, <1>4, <1>5, <1>6 DEF IInv

(* It is kept by every step.                                               *)
LEMMA NextIInv == IInv /\ [Next]_vars => IInv'
  BY NextTyped, NextDecides, NextAuthorizes, NextVerifies, NextCarries DEF IInv

(* It holds of every state.                                                *)
LEMMA Invariant == Spec => []IInv
  BY InitIInv, NextIInv, PTL DEF Spec

(* Every variable keeps its type, and no decision names an approval that   *)
(* was not created (main.py 1124-1216).                                    *)
THEOREM Typed == Spec => []TypeOK
<1>1. IInv => TypeOK
  <2>. SUFFICES ASSUME IInv PROVE TypeOK
    OBVIOUS
  <2>1. \A h \in Handlers : route[h] \in Seq(Statuses)
    <3>. SUFFICES ASSUME NEW h \in Handlers PROVE route[h] \in Seq(Statuses)
      OBVIOUS
    <3>1. route[h] \in Seq(RestingStatuses) /\ RestingStatuses \subseteq Statuses
      BY DEF IInv, TypeInv, LocalTyped, RestingStatuses, RECONCILABLE_STATES, Statuses
    <3>2. route[h] \in [1..Len(route[h]) -> RestingStatuses] /\ Len(route[h]) \in Nat
      BY <3>1, LenProperties
    <3>3. route[h] \in [1..Len(route[h]) -> Statuses]
      BY <3>1, <3>2
    <3>. QED
      BY <3>2, <3>3, SeqDef
  <2>2. attached => approval # "none"
    BY DEF IInv, DecisionInv
  <2>. QED
    BY <2>1, <2>2 DEF IInv, TypeInv, IncidentTyped, ExecutionTyped, LocalTyped, TypeOK
<1>. QED
  BY <1>1, Invariant, PTL

(* An incident is resolved only once its execution is closed as VERIFIED,  *)
(* whoever else is handling it (main.py 1375-1380).                        *)
THEOREM Resolution == Spec => []ResolvedIsVerified
<1>1. IInv => ResolvedIsVerified
  BY DEF IInv, VerifiedInv, ResolvedIsVerified
<1>. QED
  BY <1>1, Invariant, PTL

(* Nothing is asked of the service for a decision that was denied,         *)
(* rejected, left unanswered or not answered yet, whichever handler asks   *)
(* (main.py 2293-2340, executor.py 247-283).                               *)
THEOREM Authorization == Spec => []OnlyAuthorizedEffects
<1>1. IInv => OnlyAuthorizedEffects
  BY DEF IInv, AuthorizedInv, Authorized, OnlyAuthorizedEffects
<1>. QED
  BY <1>1, Invariant, PTL

(* When every handler has ended without being lost, the incident is closed,*)
(* waits for a person or a resume, or rests where reconciliation accepts it*)
(* (main.py 734-739, 959-962, 1894-1901, 2576).                            *)
THEOREM NobodyStranded == Spec => []NothingStranded
<1>1. IInv => NothingStranded
  <2>. SUFFICES ASSUME IInv, Quiet, NEW h \in Handlers, Carries(h) PROVE FALSE
    BY DEF IInv, CarriedInv, NothingStranded
  <2>1. pc[h] \in {"idle", "done"}
    BY DEF Quiet
  <2>. QED
    BY <2>1 DEF Carries, CarryingSteps, ReportSteps, PipelineSteps, CloseSteps
<1>. QED
  BY <1>1, Invariant, PTL

-----------------------------------------------------------------------------
(* Legal moves, and what lasts.                                            *)

(* Whoever moves an incident makes a legal transition.                     *)
LEMMA LegalStep ==
  ASSUME TypeInv, [Next]_vars
  PROVE  status' = status \/ can_transition(status, status')
<1>1. ASSUME NEW h \in Handlers, HandlerStep(h) \/ WriteRaises(h) \/ Crash(h)
      PROVE  status' = status \/ can_transition(status, status')
  <2>1. Hop(h) => status' = status \/ can_transition(status, status')
    BY DEF Hop, Transition
  <2>2. Failing(h) => status' = status \/ can_transition(status, status')
    BY DEF Failing, BeginFailure, SettleFailure, Escalate, WalkFailure, SaveHandover, Locally,
           incident
  <2>3. Opens(h) \/ Calls(h) \/ Verify(h) \/ Terminalize(h) \/ Receives(h) \/ WriteRaises(h)
          \/ Crash(h) => status' = status
    BY DEF Opens, Screen, Consult, Investigate, SaveDecision, CreateApproval, AttachApproval,
         Calls, CallExecutor, ReadReceipt, UnreadableReceipt, ExecutorUnreachable, Verify,
         Terminalize, Receives, ReceiveResume, CheckApproval, Decide, CloseUnapproved,
         ReceiveReconcile, ReconcileReceipt, ReconcileUnanswered, WriteRaises, Crash, Locally,
         incident
  <2>. QED
    BY <1>1, <2>1, <2>2, <2>3, HandlerCases
<1>. QED
  BY <1>1, OutsideStays DEF Next

(* A handler creates no execution.                                         *)
LEMMA HandlersCreateNothing ==
  ASSUME TypeInv, NEW h \in Handlers, HandlerStep(h) \/ WriteRaises(h) \/ Crash(h),
         exec.state = "ABSENT"
  PROVE  exec' = exec
<1>1. Hop(h) \/ Calls(h) \/ Verify(h) \/ WriteRaises(h) \/ Crash(h) \/ Opens(h) => exec' = exec
  BY DEF Hop, Transition, Calls, CallExecutor, ReadReceipt, UnreadableReceipt,
         ExecutorUnreachable, Verify, WriteRaises, Crash, Locally, execution,
         Opens, Screen, Consult, Investigate, SaveDecision, CreateApproval, AttachApproval
<1>2. Failing(h) \/ Receives(h) => exec' = exec
  BY DEF Failing, BeginFailure, SettleFailure, Escalate, WalkFailure, SaveHandover, Locally,
         Receives, ReceiveResume, CheckApproval, Decide, CloseUnapproved,
         ReceiveReconcile, ReconcileReceipt, ReconcileUnanswered, execution
<1>3. Terminalize(h) => exec' = exec
  BY DEF Terminalize, Closable
<1>. QED
  BY <1>1, <1>2, <1>3, HandlerCases

(* What a call that found no execution does at each of its steps.          *)
LEMMA OnlyExecution ==
  ASSUME TypeInv, RunsInv, NEW c \in Callers, ~Attempted(c),
         run[c] = "called" => exec.state = "ABSENT", ExecutorStep(c)
  PROVE  /\ run[c] \notin {"none", "ended"} /\ answer[c] = NoAnswer
         /\ run'[c] \notin {"none", "called"}
         /\ seen'[c].state \notin {"MUTATION_REQUESTED", "MUTATED"}
         /\ put'[c] # "none" => run'[c] \in {"await", "ended"}
         /\ run'[c] # "ended" => answer'[c] = answer[c]
         /\ answer'[c].kind # "DUPLICATE"
         /\ answer'[c].kind = "MUTATED" => put'[c] = "accepted"
         /\ answer'[c].kind = "RECONCILED" => answer'[c].predates
         /\ answer'[c].kind \in {"STALE", "UNHEALTHY"} => put'[c] = "none"
         /\ answer'[c].kind = "CONFLICT_RETRYABLE" => put'[c] = "refused"
<1>1. /\ run \in [Callers -> RunStates] /\ put \in [Callers -> PutStates]
      /\ answer \in [Callers -> Answers] /\ seen \in [Callers -> Store!Record]
      /\ exec \in Store!Record
  BY DEF TypeInv, ExecutionTyped
<1>2. run[c] \in {"called", "observe", "reread", "request", "await"}
  BY DEF ExecutorStep, Acquire, Observe, RereadIncident, RequestMutation, Conclude
<1>3. /\ answer[c] = NoAnswer /\ answer[c].kind = "none"
      /\ ~Attempted(c) /\ seen[c].state \notin {"MUTATION_REQUESTED", "MUTATED"}
  BY <1>2 DEF RunsInv, NoAnswer, Attempted
<1>4. \A kind : Reply(c, kind) => /\ run'[c] = "ended" /\ answer'[c].kind = kind
                                  /\ answer'[c].predates = exec'.predates
  BY <1>1 DEF Reply
<1>5. CASE Acquire(c)
  <2>1. run[c] = "called" /\ put' = put /\ put[c] = "none"
    BY <1>5 DEF Acquire, RunsInv
  <2>2. exec.state = "ABSENT"
    BY <2>1
  <2>3. Store!Takeable(exec) /\ Store!AcquiredRecord(exec, c).state = "CLAIMED"
    BY <2>2 DEF Store!Takeable, Store!AcquireOutcome, Store!AcquiredRecord,
                Store!TERMINAL_STATES, Store!OPEN_STATES
  <2>4. CASE Reply(c, "REFUSED") /\ seen' = seen
    BY <1>2, <1>3, <1>4, <2>1, <2>4
  <2>5. CASE /\ exec' = Store!AcquiredRecord(exec, c) /\ seen' = [seen EXCEPT ![c] = exec']
             /\ run' = [run EXCEPT ![c] = "observe"] /\ UNCHANGED answer
    <3>1. run'[c] = "observe" /\ seen'[c].state = "CLAIMED"
      BY <1>1, <2>3, <2>5
    <3>. QED
      BY <1>2, <1>3, <2>1, <2>5, <3>1
  <2>. QED
    BY <1>5, <2>3, <2>4, <2>5 DEF Acquire
<1>6. CASE Observe(c)
  <2>1. run[c] = "observe" /\ put' = put /\ put[c] = "none" /\ seen' = seen
    BY <1>6 DEF Observe, RunsInv
  <2>2. \/ Reply(c, "RECONCILED") /\ exec'.predates = TRUE
        \/ \E kind \in {"STALE", "UNHEALTHY", "REFUSED"} : Reply(c, kind)
        \/ run' = [run EXCEPT ![c] = "reread"] /\ UNCHANGED answer
    <3>1. Reply(c, "RECONCILED") =>
            exec' = Store!AdvancedRecord(exec, "MUTATED", seen[c].predates \/ ~Attempted(c))
      BY <1>3, <1>4, <1>6 DEF Observe
    <3>2. (seen[c].predates \/ ~Attempted(c)) = TRUE
      BY <1>3
    <3>3. Store!AdvancedRecord(exec, "MUTATED", TRUE).predates = TRUE
      BY DEF Store!AdvancedRecord
    <3>4. Reply(c, "RECONCILED") => exec'.predates = TRUE
      BY <3>1, <3>2, <3>3, Zenon
    <3>. QED
      BY <1>3, <1>6, <3>4 DEF Observe
  <2>3. CASE Reply(c, "RECONCILED") /\ exec'.predates = TRUE
    BY <1>2, <1>3, <1>4, <2>1, <2>3
  <2>4. CASE \E kind \in {"STALE", "UNHEALTHY", "REFUSED"} : Reply(c, kind)
    BY <1>2, <1>3, <1>4, <2>1, <2>4
  <2>5. CASE run' = [run EXCEPT ![c] = "reread"] /\ UNCHANGED answer
    <3>1. run'[c] = "reread"
      BY <1>1, <2>5
    <3>. QED
      BY <1>2, <1>3, <2>1, <2>5, <3>1
  <2>. QED
    BY <2>2, <2>3, <2>4, <2>5
<1>7. CASE RereadIncident(c)
  <2>1. run[c] = "reread" /\ put' = put /\ put[c] = "none" /\ seen' = seen
    BY <1>7 DEF RereadIncident, RunsInv
  <2>2. CASE Reply(c, "REFUSED")
    BY <1>2, <1>3, <1>4, <2>1, <2>2
  <2>3. CASE run' = [run EXCEPT ![c] = "request"] /\ UNCHANGED answer
    <3>1. run'[c] = "request"
      BY <1>1, <2>3
    <3>. QED
      BY <1>2, <1>3, <2>1, <2>3, <3>1
  <2>. QED
    BY <1>7, <2>2, <2>3 DEF RereadIncident
<1>8. CASE RequestMutation(c)
  <2>1. run[c] = "request" /\ put[c] = "none" /\ seen' = seen
    BY <1>8 DEF RequestMutation, RunsInv
  <2>2. CASE Reply(c, "REFUSED") /\ put' = put
    BY <1>2, <1>3, <1>4, <2>1, <2>2
  <2>3. CASE run' = [run EXCEPT ![c] = "await"] /\ UNCHANGED answer
    <3>1. run'[c] = "await"
      BY <1>1, <2>3
    <3>. QED
      BY <1>2, <1>3, <2>1, <2>3, <3>1
  <2>. QED
    BY <1>8, <2>2, <2>3 DEF RequestMutation
<1>9. CASE Conclude(c)
  <2>1. put' = put /\ seen' = seen
    BY <1>9 DEF Conclude
  <2>2. \/ put[c] = "accepted" /\ Reply(c, "MUTATED")
        \/ put[c] = "refused" /\ Reply(c, "CONFLICT_RETRYABLE")
        \/ \E kind \in {"CONFLICT", "OUTCOME_UNKNOWN"} : Reply(c, kind)
    BY <1>9 DEF Conclude
  <2>. QED
    BY <1>2, <1>3, <1>4, <2>1, <2>2
<1>. QED
  BY <1>5, <1>6, <1>7, <1>8, <1>9 DEF ExecutorStep

(* A write that was accepted stays accepted.                               *)
LEMMA AcceptedForGood ==
  ASSUME TypeInv, RunsInv, [Next]_vars, NEW c \in Callers, put[c] = "accepted"
  PROVE  put'[c] = "accepted"
<1>1. put \in [Callers -> PutStates]
  BY DEF TypeInv, ExecutionTyped
<1>2. ASSUME NEW h \in Handlers, HandlerStep(h) \/ WriteRaises(h) \/ Crash(h) PROVE put' = put
  BY <1>2, OthersStay
<1>3. ASSUME NEW d \in Callers, ExecutorStep(d) PROVE put'[c] = put[c]
  <2>1. run[c] # "request"
    BY DEF RunsInv
  <2>2. put' = put \/ (run[d] = "request" /\ put' = [put EXCEPT ![d] = "inflight"])
    BY <1>3 DEF ExecutorStep, Acquire, Observe, RereadIncident, RequestMutation, Conclude
  <2>. QED
    BY <1>1, <2>1, <2>2
<1>4. ASSUME NEW d \in Callers, ExecutionDies(d) \/ CloudRunStep(d) PROVE put'[c] = put[c]
  <2>1. put' = put \/ (put[d] = "inflight" /\ \E o : put' = [put EXCEPT ![d] = o])
    BY <1>4 DEF ExecutionDies, CloudRunStep, PutSettles
  <2>. QED
    BY <1>1, <2>1
<1>5. Environment \/ UNCHANGED vars => put' = put
  BY DEF Environment, MigrateTraffic, LeaseLapses, ApprovalLapses, OperatorChange, vars, execution
<1>. QED
  BY <1>2, <1>3, <1>4, <1>5 DEF Next

(* Whatever the handlers do to each other, the incident's status moves by  *)
(* declared transitions alone (firestore_repo.py, transition).             *)
THEOREM OnlyLegalMoves == Spec => [][status' # status => can_transition(status, status')]_vars
<1>1. TypeInv /\ [Next]_vars => [status' # status => can_transition(status, status')]_vars
  BY LegalStep
<1>2. IInv => TypeInv
  BY DEF IInv
<1>. QED
  BY <1>1, <1>2, Invariant, PTL DEF Spec

-----------------------------------------------------------------------------
(* The workflow's own call.                                                *)

(* The ways that lead towards a call.                                      *)
Forward ==
  {<<"screen", "route">>, <<"route", "consult">>, <<"consult", "investigate">>,
   <<"consult", "hand_off">>, <<"investigate", "propose">>, <<"propose", "evaluate">>,
   <<"evaluate", "decide">>, <<"decide", "allow">>, <<"decide", "ask">>,
   <<"decide", "deny">>, <<"ask", "attach">>, <<"attach", "park">>,
   <<"idle", "check">>, <<"check", "approve">>, <<"check", "enter">>,
   <<"approve", "enter">>, <<"allow", "enter">>, <<"enter", "call">>,
   <<"idle", "call">>, <<"call", "wait">>}

(* A handler comes before its call, or to wait for it, by no other way.    *)
LEMMA WaysForward ==
  ASSUME TypeInv, NEW h \in Handlers, HandlerStep(h) \/ WriteRaises(h) \/ Crash(h),
         pc'[h] \in BeforeCall \cup {"wait"}
  PROVE  <<pc[h], pc'[h]>> \in Forward
<1>. USE DEF BeforeCall, ReportSteps
<1>1. pc \in [Handlers -> Steps]
  BY DEF TypeInv, LocalTyped
<1>2. /\ \A step : Goto(h, step) => pc'[h] = step
      /\ \A category, step : Report(h, category, step) => pc'[h] = step
      /\ Raise(h) => pc'[h] \in {"done", "fail"}
  BY <1>1 DEF Goto, Report, Raise, Fail
<1>3. CASE Hop(h)
  <2>1. PICK hop \in Hops : Transition(h, hop[1], hop[2], hop[3])
    BY <1>3 DEF Hop
  <2>2. pc[h] = hop[1] /\ pc'[h] = hop[3]
    BY <1>2, <2>1 DEF Transition, At
  <2>. QED
    BY <2>2 DEF Hops, Forward
<1>4. ~Failing(h)
  <2>1. \A target : Depart(h, target) => pc'[h] \in {"save", "walk"}
    BY <1>1 DEF Depart
  <2>2. ~(BeginFailure(h) \/ SettleFailure(h) \/ Escalate(h) \/ SaveHandover(h))
    BY <1>2, <2>1 DEF BeginFailure, SettleFailure, Escalate, SaveHandover
  <2>3. WalkFailure(h) => pc'[h] \in {"save", "walk", "done", "fail"}
    BY <1>1, <1>2 DEF WalkFailure
  <2>. QED
    BY <2>2, <2>3 DEF Failing
<1>5. CASE Opens(h)
  BY <1>2, <1>5 DEF Opens, Screen, Consult, Investigate, SaveDecision, CreateApproval,
     AttachApproval, Fail, At, Forward
<1>6. ~(Verify(h) \/ Terminalize(h) \/ WriteRaises(h) \/ Crash(h))
  BY <1>2 DEF Verify, Terminalize, Fail, WriteRaises, Crash
<1>7. CASE Calls(h)
  <2>1. ReadReceipt(h) => pc'[h] \in {"executed", "mark_failed"}
    BY <1>1 DEF ReadReceipt
  <2>2. CallExecutor(h)
    BY <1>2, <1>7, <2>1 DEF Calls, UnreadableReceipt, ExecutorUnreachable, Fail
  <2>. QED
    BY <1>2, <2>2 DEF CallExecutor, At, Forward
<1>8. CASE Receives(h)
  <2>1. ReceiveResume(h) => pc[h] = "idle" /\ pc'[h] = "check"
    BY <1>1 DEF ReceiveResume, At
  <2>2. ReceiveReconcile(h) => pc[h] = "idle" /\ pc'[h] \in {"call", "done"}
    BY <1>1 DEF ReceiveReconcile, At
  <2>3. ~ReconcileReceipt(h)
    <3>1. ReconcileReceipt(h) => pc'[h] \in {"verifying", "executed", "done", "give_up"}
      BY <1>1 DEF ReconcileReceipt
    <3>. QED
      BY <3>1
  <2>4. CheckApproval(h) => pc[h] = "check" /\ pc'[h] \in {"approve", "enter", "done"}
    BY <1>2 DEF CheckApproval, At
  <2>5. ~(Decide(h) \/ CloseUnapproved(h) \/ ReconcileUnanswered(h))
    BY <1>2 DEF Decide, CloseUnapproved, ReconcileUnanswered
  <2>. QED
    BY <1>8, <2>1, <2>2, <2>3, <2>4, <2>5 DEF Receives, Forward
<1>. QED
  BY <1>3, <1>4, <1>5, <1>6, <1>7, <1>8, HandlerCases

(* No way leads back to a second call.                                     *)
LEMMA NextCallsOnce ==
  ASSUME TypeInv, CallsOnceInv, [Next]_vars
  PROVE  CallsOnceInv'
<1>1. /\ pc \in [Handlers -> Steps] /\ run \in [Callers -> RunStates]
      /\ Callers \subseteq Handlers
  BY DEF TypeInv, LocalTyped, ExecutionTyped, Callers
<1>2. ASSUME NEW h \in Handlers, HandlerStep(h) \/ WriteRaises(h) \/ Crash(h)
      PROVE  CallsOnceInv'
  <2>1. \A g \in Handlers \ {h} : pc'[g] = pc[g]
    BY <1>2, OthersStay
  <2>2. pc'[h] \in BeforeCall => pc[h] \in BeforeCall
    <3>1. pc'[h] \in BeforeCall => <<pc[h], pc'[h]>> \in Forward
      BY <1>2, WaysForward
    <3>2. \A way \in Forward : way[1] \in BeforeCall
      BY DEF Forward, BeforeCall, ReportSteps
    <3>. QED
      BY <3>1, <3>2
  <2>3. \/ run' = run
        \/ h \in Callers /\ pc'[h] \notin BeforeCall /\ run' = [run EXCEPT ![h] = "called"]
    BY <1>2, HandlersCall DEF BeforeCall, ReportSteps
  <2>. QED
    BY <1>1, <2>1, <2>2, <2>3 DEF CallsOnceInv
<1>3. ASSUME \/ UNCHANGED vars
             \/ \E c \in Callers : ExecutorStep(c) \/ ExecutionDies(c) \/ CloudRunStep(c)
             \/ Environment
      PROVE  CallsOnceInv'
  <2>1. pc' = pc /\ \A c \in Callers : run[c] = "none" => run'[c] = "none"
    BY <1>3, OutsideStays DEF local
  <2>. QED
    BY <2>1 DEF CallsOnceInv
<1>. QED
  BY <1>2, <1>3 DEF Next

(* A call's own execution leaves something only once it has the lease.     *)
LEMMA ExecutionLeaves ==
  ASSUME TypeInv, RunsInv, NEW c \in Callers, ExecutorStep(c)
  PROVE  /\ run[c] \notin {"none", "ended"} /\ run'[c] \notin {"none", "called"}
         /\ put'[c] # "none" => run'[c] \in {"await", "ended"}
         /\ run'[c] # "ended" => answer'[c] = NoAnswer
<1>1. /\ run \in [Callers -> RunStates] /\ put \in [Callers -> PutStates]
      /\ answer \in [Callers -> Answers]
  BY DEF TypeInv, ExecutionTyped
<1>2. run[c] \in {"called", "observe", "reread", "request", "await"} /\ answer[c] = NoAnswer
  BY DEF ExecutorStep, Acquire, Observe, RereadIncident, RequestMutation, Conclude, RunsInv
<1>3. /\ put' = put \/ (run[c] = "request" /\ put' = [put EXCEPT ![c] = "inflight"])
      /\ run[c] = "request" => run'[c] \in {"await", "ended"}
      /\ run[c] = "await" => run'[c] = "ended"
      /\ \/ run'[c] = "ended"
         \/ run'[c] \in {"observe", "reread", "request", "await"} /\ answer' = answer
  BY <1>1 DEF ExecutorStep, Acquire, Observe, RereadIncident, RequestMutation, Conclude, Reply
<1>. QED
  BY <1>1, <1>2, <1>3 DEF RunsInv

(* RunsInv is kept by every step.                                          *)
LEMMA NextRuns ==
  ASSUME TypeInv, CallsOnceInv, RunsInv, [Next]_vars
  PROVE  RunsInv'
<1>1. /\ run \in [Callers -> RunStates] /\ put \in [Callers -> PutStates]
      /\ answer \in [Callers -> Answers] /\ seen \in [Callers -> Store!Record]
  BY DEF TypeInv, ExecutionTyped
<1>2. ASSUME NEW h \in Handlers, HandlerStep(h) \/ WriteRaises(h) \/ Crash(h)
      PROVE  RunsInv'
  <2>1. UNCHANGED <<seen, put, answer>>
    BY <1>2, OthersStay
  <2>2. \/ run' = run
        \/ h \in Callers /\ run[h] = "none" /\ run' = [run EXCEPT ![h] = "called"]
    BY <1>2, HandlersCall DEF CallsOnceInv, BeforeCall
  <2>3. \A c \in Callers : run'[c] = run[c] \/ (run[c] = "none" /\ run'[c] = "called")
    BY <1>1, <2>2
  <2>4. exec'.state # "ABSENT" => exec.state # "ABSENT"
    BY <1>2, HandlersCreateNothing
  <2>. QED
    BY <2>1, <2>3, <2>4 DEF RunsInv, Attempted
<1>3. ASSUME NEW c \in Callers, ExecutorStep(c) PROVE RunsInv'
  <2>1. \A d \in Callers \ {c} : /\ run'[d] = run[d] /\ seen'[d] = seen[d] /\ put'[d] = put[d]
                                 /\ answer'[d] = answer[d]
    BY <1>1, <1>3, ExecutorWrites DEF Reply
  <2>. QED
    BY <1>3, <2>1, ExecutionLeaves DEF RunsInv, Attempted
<1>4. ASSUME NEW c \in Callers, ExecutionDies(c) PROVE RunsInv'
  <2>1. /\ UNCHANGED <<exec, seen, put, answer>> /\ run[c] \notin {"none", "ended"}
        /\ run' = [run EXCEPT ![c] = "ended"]
    BY <1>4 DEF ExecutionDies
  <2>2. run'[c] = "ended" /\ \A d \in Callers \ {c} : run'[d] = run[d]
    BY <1>1, <2>1
  <2>. QED
    BY <2>1, <2>2 DEF RunsInv, Attempted
<1>5. ASSUME NEW c \in Callers, CloudRunStep(c) PROVE RunsInv'
  <2>1. PICK o \in {"accepted", "refused", "lost"} : PutSettles(c, o)
    BY <1>5 DEF CloudRunStep
  <2>2. /\ UNCHANGED <<exec, seen, run, answer>> /\ put[c] = "inflight"
        /\ put' = [put EXCEPT ![c] = o]
    BY <2>1 DEF PutSettles
  <2>3. \A d \in Callers : put'[d] = put[d] \/ (put[d] = "inflight" /\ put'[d] # "none")
    BY <1>1, <2>2
  <2>. QED
    BY <2>2, <2>3 DEF RunsInv, Attempted
<1>6. ASSUME Environment \/ UNCHANGED vars PROVE RunsInv'
  <2>1. UNCHANGED <<run, seen, put, answer>> /\ exec'.state = exec.state
    BY <1>6 DEF Environment, MigrateTraffic, LeaseLapses, ApprovalLapses, OperatorChange, vars,
                execution, Store!LapsedRecord
  <2>. QED
    BY <2>1 DEF RunsInv, Attempted
<1>. QED
  BY <1>2, <1>3, <1>4, <1>5, <1>6 DEF Next

(* Before the workflow reads an answer, nobody else has anything to do.    *)
LEMMA OthersStandBy ==
  ASSUME TypeInv, DecisionInv, OwnCallInv, pc[Workflow] \in FirstSteps,
         NEW h \in Handlers \ {Workflow}, HandlerStep(h) \/ WriteRaises(h) \/ Crash(h)
  PROVE  /\ UNCHANGED <<status, decision, execution>>
         /\ pc'[h] \in Bystanding
<1>1. /\ pc[h] \in Bystanding /\ decision = "AUTO_ALLOWED" /\ approval = "none"
      /\ status \in {"POLICY_EVALUATED", "AUTO_ALLOWED", "EXECUTING"}
  BY DEF OwnCallInv, FirstSteps, DecisionInv, TypeInv, IncidentTyped
<1>2. pc \in [Handlers -> Steps]
  BY DEF TypeInv, LocalTyped
<1>3. \A step : Goto(h, step) => pc'[h] = step
  BY <1>2 DEF Goto
<1>. USE DEF Bystanding
<1>4. ~(Hop(h) \/ Opens(h) \/ Calls(h) \/ Verify(h) \/ Terminalize(h) \/ Failing(h)
          \/ WriteRaises(h))
  BY <1>1 DEF Hop, Hops, Transition, Opens, Screen, Consult, Investigate, SaveDecision,
     CreateApproval, AttachApproval, Calls, CallExecutor, ReadReceipt, UnreadableReceipt,
     ExecutorUnreachable, Answered, Verify, Terminalize, Failing, BeginFailure, SettleFailure,
     Escalate, WalkFailure, SaveHandover, WriteRaises, WriteSteps, At
<1>5. ~(Decide(h) \/ CloseUnapproved(h) \/ ReconcileReceipt(h) \/ ReconcileUnanswered(h))
  BY <1>1 DEF Decide, CanBeAnswered, CloseUnapproved, ReconcileReceipt, ReconcileUnanswered,
     Answered, At
<1>6. CASE ReceiveResume(h)
  BY <1>2, <1>6 DEF ReceiveResume, Locally, incident
<1>7. CASE ReceiveReconcile(h)
  BY <1>1, <1>2, <1>7 DEF ReceiveReconcile, RECONCILABLE_STATES, Locally, incident
<1>8. CASE CheckApproval(h)
  BY <1>1, <1>3, <1>8 DEF CheckApproval, Locally, incident
<1>9. CASE Crash(h)
  BY <1>3, <1>9 DEF Crash, incident
<1>. QED
  BY <1>4, <1>5, <1>6, <1>7, <1>8, <1>9, HandlerCases DEF Receives

(* The workflow's own way to its call.                                     *)
LEMMA WorkflowCalls ==
  ASSUME TypeInv, DecisionInv, OwnCallInv, pc'[Workflow] \in FirstSteps,
         HandlerStep(Workflow) \/ WriteRaises(Workflow) \/ Crash(Workflow)
  PROVE  /\ pc[Workflow] \in FirstSteps \cup {"decide"} /\ pc[Workflow] # "wait"
         /\ decision' = "AUTO_ALLOWED"
         /\ status' = CASE pc'[Workflow] = "allow" -> "POLICY_EVALUATED"
                        [] pc'[Workflow] = "enter" -> "AUTO_ALLOWED"
                        [] pc'[Workflow] \in {"call", "wait"} -> "EXECUTING"
         /\ UNCHANGED changed
<1>1. pc \in [Handlers -> Steps] /\ Workflow \in Handlers /\ Serves(Workflow, pc[Workflow])
  BY DEF TypeInv, LocalTyped, Handlers
<1>2. <<pc[Workflow], pc'[Workflow]>> \in Forward
  BY <1>1, WaysForward DEF FirstSteps, BeforeCall, ReportSteps
<1>3. pc[Workflow] \notin {"idle", "check", "approve"}
  BY <1>1, OrchestratorAssumption DEF Serves
<1>4. <<pc[Workflow], pc'[Workflow]>> \in {<<"decide", "allow">>, <<"allow", "enter">>,
                                           <<"enter", "call">>, <<"call", "wait">>}
  BY <1>2, <1>3 DEF Forward, FirstSteps
<1>5. /\ \A step : Goto(Workflow, step) => pc'[Workflow] = step
      /\ \A category, step : Report(Workflow, category, step) => pc'[Workflow] = step
      /\ Raise(Workflow) => pc'[Workflow] \in {"done", "fail"}
  BY <1>1 DEF Goto, Report, Raise, Fail
<1>6. CASE Hop(Workflow)
  <2>1. PICK hop \in Hops : Transition(Workflow, hop[1], hop[2], hop[3])
    BY <1>6 DEF Hop
  <2>2. /\ pc[Workflow] = hop[1] /\ pc'[Workflow] = hop[3] /\ status' = hop[2]
        /\ decision' = decision /\ UNCHANGED changed
    BY <1>4, <1>5, <2>1 DEF Transition, At, Goto
  <2>3. hop \in {<<"allow", "AUTO_ALLOWED", "enter">>, <<"enter", "EXECUTING", "call">>}
    BY <1>4, <2>2 DEF Hops
  <2>. QED
    BY <2>2, <2>3 DEF OwnCallInv, FirstSteps
<1>7. CASE Opens(Workflow)
  <2>1. SaveDecision(Workflow)
    BY <1>4, <1>7 DEF Opens, Screen, Consult, Investigate, CreateApproval, AttachApproval, At
  <2>2. pc[Workflow] = "decide" /\ pc'[Workflow] = "allow"
    BY <1>4, <2>1 DEF SaveDecision, At
  <2>3. decision' = "AUTO_ALLOWED" /\ UNCHANGED changed /\ status' = status
    BY <1>5, <2>1, <2>2 DEF SaveDecision, Goto
  <2>. QED
    BY <2>2, <2>3 DEF DecisionInv, OpeningStatus, FirstSteps
<1>8. CASE CallExecutor(Workflow)
  BY <1>5, <1>8 DEF CallExecutor, At, Goto, OwnCallInv, FirstSteps, incident
<1>9. ~(Failing(Workflow) \/ Verify(Workflow) \/ Terminalize(Workflow) \/ Receives(Workflow)
          \/ ReadReceipt(Workflow) \/ UnreadableReceipt(Workflow)
          \/ ExecutorUnreachable(Workflow) \/ WriteRaises(Workflow) \/ Crash(Workflow))
  <2>1. ~(WriteRaises(Workflow) \/ Crash(Workflow))
    BY <1>4, <1>5 DEF WriteRaises, Crash
  <2>. QED
    BY <1>4, <2>1 DEF Failing, BeginFailure, SettleFailure, Escalate, WalkFailure, SaveHandover,
       Verify, Terminalize, Receives, ReceiveResume, CheckApproval, Decide, CloseUnapproved,
       ReceiveReconcile, ReconcileReceipt, ReconcileUnanswered, ReadReceipt, UnreadableReceipt,
       ExecutorUnreachable, Answered, At
<1>. QED
  BY <1>1, <1>6, <1>7, <1>8, <1>9, HandlerCases DEF Calls

(* What the workflow comes to believe it changed, it has changed.          *)
LEMMA WorkflowBelieves ==
  ASSUME TypeInv, OwnCallInv, NEW h \in Handlers,
         HandlerStep(h) \/ WriteRaises(h) \/ Crash(h)
  PROVE  changed'[Workflow] = changed[Workflow] \/ put[Workflow] = "accepted"
<1>1. /\ changed \in [Handlers -> Beliefs] /\ Workflow \in Handlers
      /\ Serves(Workflow, pc[Workflow])
  BY DEF TypeInv, LocalTyped, Handlers
<1>2. CASE h # Workflow
  BY <1>1, <1>2, OthersStay
<1>3. CASE ReadReceipt(Workflow)
  <2>. DEFINE a == answer[Workflow]
  <2>1. pc[Workflow] = "wait"
    BY <1>3 DEF ReadReceipt, Answered, At
  <2>2. \/ changed' = changed
        \/ EffectIsPresent(a) # "no"
    <3>1. EffectIsPresent(a) = "no" => changed' = [changed EXCEPT ![Workflow] = @]
      BY <1>3 DEF ReadReceipt
    <3>. QED
      BY <1>1, <3>1
  <2>3. EffectIsPresent(a) # "no" => a.kind = "MUTATED"
    BY <2>1 DEF EffectIsPresent, Landed, Progressed, AlreadyLanded, OwnCallInv
  <2>. QED
    BY <2>1, <2>2, <2>3 DEF OwnCallInv
<1>4. ~(ReceiveReconcile(Workflow) \/ ReconcileReceipt(Workflow) \/ ReconcileUnanswered(Workflow))
  BY OrchestratorAssumption DEF ReceiveReconcile, ReconcileReceipt, ReconcileUnanswered
<1>5. CASE Hop(Workflow) \/ Opens(Workflow) \/ Verify(Workflow) \/ Terminalize(Workflow)
             \/ WriteRaises(Workflow) \/ Crash(Workflow)
  <2>1. changed' = changed
    BY <1>5 DEF Hop, Transition, Raise, Goto, Report, Fail, Opens, Screen, Consult, Investigate,
       SaveDecision, CreateApproval, AttachApproval, Verify, Terminalize, WriteRaises, Crash
  <2>. QED
    BY <2>1
<1>6. CASE Failing(Workflow)
  <2>1. changed' = changed
    BY <1>6 DEF Failing, BeginFailure, SettleFailure, Escalate, WalkFailure, SaveHandover,
       Depart, Raise, Goto, Report, Fail
  <2>. QED
    BY <2>1
<1>7. CASE CallExecutor(Workflow) \/ UnreadableReceipt(Workflow) \/ ExecutorUnreachable(Workflow)
             \/ ReceiveResume(Workflow) \/ CheckApproval(Workflow) \/ Decide(Workflow)
             \/ CloseUnapproved(Workflow)
  <2>1. changed' = changed
    BY <1>7 DEF CallExecutor, UnreadableReceipt, ExecutorUnreachable, ReceiveResume,
       CheckApproval, Decide, CloseUnapproved, Goto, Report, Fail
  <2>. QED
    BY <2>1
<1>. QED
  BY <1>2, <1>3, <1>4, <1>5, <1>6, <1>7, HandlerCases DEF Calls, Receives

(* OwnCallInv is kept by every step.                                       *)
LEMMA NextOwnCall ==
  ASSUME TypeInv, DecisionInv, CallsOnceInv, RunsInv, OwnCallInv, [Next]_vars
  PROVE  OwnCallInv'
<1>1. /\ pc \in [Handlers -> Steps] /\ run \in [Callers -> RunStates]
      /\ put \in [Callers -> PutStates] /\ answer \in [Callers -> Answers]
      /\ Workflow \in Handlers /\ Workflow \in Callers
      /\ Callers \subseteq Handlers
  BY OrchestratorAssumption DEF TypeInv, LocalTyped, ExecutionTyped, Callers, Handlers
<1>2. put[Workflow] = "accepted" => put'[Workflow] = "accepted"
  BY <1>1, AcceptedForGood
<1>3. ASSUME NEW h \in Handlers \ {Workflow}, HandlerStep(h) \/ WriteRaises(h) \/ Crash(h)
      PROVE  OwnCallInv'
  <2>1. /\ pc'[Workflow] = pc[Workflow] /\ changed'[Workflow] = changed[Workflow]
        /\ UNCHANGED <<seen, put, answer>>
        /\ \A g \in Handlers \ {h} : pc'[g] = pc[g]
    BY <1>1, <1>3, OthersStay
  <2>2. pc[Workflow] \in FirstSteps =>
          UNCHANGED <<status, decision, execution>> /\ pc'[h] \in Bystanding
    BY <1>3, OthersStandBy
  <2>3. pc[Workflow] \in FirstSteps => UNCHANGED <<status, decision, run>>
    BY <2>2 DEF execution
  <2>. QED
    BY <2>1, <2>2, <2>3 DEF OwnCallInv, Attempted
<1>4. ASSUME HandlerStep(Workflow) \/ WriteRaises(Workflow) \/ Crash(Workflow)
      PROVE  OwnCallInv'
  <2>1. /\ UNCHANGED <<seen, put, answer>>
        /\ \A g \in Handlers \ {Workflow} : pc'[g] = pc[g]
    BY <1>1, <1>4, OthersStay
  <2>2. changed'[Workflow] # "absent" => put'[Workflow] = "accepted"
    BY <1>1, <1>2, <1>4, WorkflowBelieves DEF OwnCallInv
  <2>3. CASE pc'[Workflow] \notin FirstSteps
    BY <2>2, <2>3 DEF OwnCallInv, FirstSteps
  <2>4. CASE pc'[Workflow] \in FirstSteps
    <3>1. /\ pc[Workflow] \in FirstSteps \cup {"decide"} /\ pc[Workflow] # "wait"
          /\ decision' = "AUTO_ALLOWED"
          /\ status' = CASE pc'[Workflow] = "allow" -> "POLICY_EVALUATED"
                         [] pc'[Workflow] = "enter" -> "AUTO_ALLOWED"
                         [] pc'[Workflow] \in {"call", "wait"} -> "EXECUTING"
      BY <1>4, <2>4, WorkflowCalls
    <3>2. /\ \A h \in Handlers \ {Workflow} : pc[h] \in Bystanding
          /\ \A c \in Callers \ {Workflow} : run[c] = "none"
      BY <3>1 DEF OwnCallInv, DecisionInv, BeforeDecision
    <3>3. run' = run \/ run' = [run EXCEPT ![Workflow] = "called"]
      BY <1>1, <1>4, HandlersCall
    <3>4. \A c \in Callers \ {Workflow} : run'[c] = "none"
      BY <1>1, <3>2, <3>3
    <3>5. run[Workflow] = "none"
      BY <1>1, <3>1 DEF CallsOnceInv, BeforeCall, ReportSteps, FirstSteps
    <3>6. ~Attempted(Workflow) /\ answer[Workflow] = NoAnswer
      BY <1>1, <3>5 DEF RunsInv
    <3>7. ~Attempted(Workflow)' /\ answer'[Workflow] = NoAnswer
      BY <2>1, <3>6 DEF Attempted
    <3>. QED
      BY <2>1, <2>2, <3>1, <3>2, <3>4, <3>7 DEF OwnCallInv, NoAnswer
  <2>. QED
    BY <2>3, <2>4
<1>5. ASSUME \/ UNCHANGED vars
             \/ \E c \in Callers : ExecutorStep(c) \/ ExecutionDies(c) \/ CloudRunStep(c)
             \/ Environment
      PROVE  OwnCallInv'
  <2>1. /\ UNCHANGED <<status, decision, pc, changed>>
        /\ \A c \in Callers : run[c] = "none" => run'[c] = "none"
    BY <1>5, OutsideStays DEF local
  <2>2. ASSUME pc[Workflow] = "wait"
        PROVE  /\ ~Attempted(Workflow)' /\ answer'[Workflow].kind # "DUPLICATE"
               /\ answer'[Workflow].kind = "MUTATED" => put'[Workflow] = "accepted"
               /\ answer'[Workflow].kind = "RECONCILED" => answer'[Workflow].predates
    <3>1. \A c \in Callers \ {Workflow} : run[c] = "none"
      BY <2>2 DEF OwnCallInv, FirstSteps
    <3>2. ASSUME NEW c \in Callers, ExecutorStep(c) PROVE c = Workflow
      BY <3>1, <3>2 DEF ExecutorStep, Acquire, Observe, RereadIncident, RequestMutation, Conclude
    <3>3. CASE ExecutorStep(Workflow)
      <4>1. ~Attempted(Workflow) /\ (run[Workflow] = "called" => exec.state = "ABSENT")
        BY <2>2, <3>1 DEF OwnCallInv, RunsInv
      <4>. QED
        BY <1>1, <3>3, <4>1, OnlyExecution DEF Attempted
    <3>4. CASE ~\E c \in Callers : ExecutorStep(c)
      <4>1. UNCHANGED <<seen, answer>>
        BY <1>5, <3>4 DEF ExecutionDies, CloudRunStep, PutSettles, Environment, MigrateTraffic,
           LeaseLapses, ApprovalLapses, OperatorChange, vars, execution
      <4>. QED
        BY <1>2, <2>2, <4>1 DEF OwnCallInv, Attempted
    <3>. QED
      BY <3>2, <3>3, <3>4
  <2>. QED
    BY <1>2, <2>1, <2>2 DEF OwnCallInv, FirstSteps
<1>. QED
  BY <1>3, <1>4, <1>5 DEF Next

(* Nobody has called yet.                                                  *)
LEMMA InitOwnCall == Init => CallsOnceInv /\ RunsInv /\ OwnCallInv
<1>. SUFFICES ASSUME Init PROVE CallsOnceInv /\ RunsInv /\ OwnCallInv
  OBVIOUS
<1>1. CallsOnceInv /\ RunsInv
  BY DEF Init, CallsOnceInv, RunsInv, Attempted, Store!NoRecord
<1>2. pc[Workflow] = "screen" /\ changed[Workflow] = "absent"
  BY DEF Init, Handlers
<1>. QED
  BY <1>1, <1>2 DEF OwnCallInv, FirstSteps

(* The invariants of the calls hold throughout.                            *)
LEMMA OwnCallInvariant == Spec => [](CallsOnceInv /\ RunsInv /\ OwnCallInv)
<1>. DEFINE Own == CallsOnceInv /\ RunsInv /\ OwnCallInv
<1>1. IInv /\ Own /\ [Next]_vars => Own'
  BY NextCallsOnce, NextRuns, NextOwnCall DEF IInv
<1>2. Init => Own
  BY InitOwnCall
<1>. HIDE DEF Own
<1>3. Spec => []Own
  BY <1>1, <1>2, Invariant, PTL DEF Spec
<1>. QED
  BY <1>3 DEF Own



-----------------------------------------------------------------------------
(* One change for one incident, reconciles included.                       *)

PreMutation == {"CLAIMED", "PRECONDITION_CHECKED"}

(* A write of the call was sent, and Cloud Run has not refused it.         *)
Armed(c) == put[c] \in {"inflight", "accepted", "lost"}

(* One call at most is armed, and the record owns up to it; who holds the  *)
(* execution decides on what the record still says; and who is about to    *)
(* take a refused request back knows of no other.                          *)
WriteInv ==
  /\ \A c, d \in Callers : Armed(c) /\ Armed(d) => c = d
  /\ exec.state \in PreMutation \cup {"ABSENT", "MUTATION_REQUESTED"} => ~exec.predates
  /\ \A c \in Callers :
       /\ Armed(c) => /\ exec.state \in {"MUTATION_REQUESTED", "MUTATED", "VERIFIED"}
                      /\ ~exec.predates
       /\ run[c] = "observe" /\ exec.owner = c
            => seen[c].state = exec.state /\ seen[c].predates = exec.predates
       /\ run[c] = "await" /\ exec.owner = c /\ exec.state = "MUTATION_REQUESTED"
            => \A d \in Callers \ {c} : ~Armed(d)

(* What the writes of the store leave of a record.                         *)
LEMMA StoreWrites ==
  ASSUME NEW r, NEW c
  PROVE  /\ LET to == Store!LapsedRecord(r)
            IN  to.state = r.state /\ to.predates = r.predates /\ to.owner = r.owner
         /\ LET to == Store!AcquiredRecord(r, c)
            IN  /\ to.state = IF r.state = "ABSENT" THEN "CLAIMED" ELSE r.state
                /\ to.predates = r.predates /\ to.owner = c
BY DEF Store!LapsedRecord, Store!AcquiredRecord

(* An advance keeps the owner, unless it ends the execution.               *)
LEMMA AdvanceWrites ==
  ASSUME NEW r, NEW p
  PROVE  /\ \A s \in {"PRECONDITION_CHECKED", "MUTATION_REQUESTED", "MUTATED"} :
              /\ Store!AdvancedRecord(r, s, p).state = s
              /\ Store!AdvancedRecord(r, s, p).predates = p
              /\ Store!AdvancedRecord(r, s, p).owner = r.owner
         /\ \A s \in {"STALE", "VERIFIED"} :
              /\ Store!AdvancedRecord(r, s, p).state = s
              /\ Store!AdvancedRecord(r, s, p).predates = p
              /\ Store!AdvancedRecord(r, s, p).owner = NoOwner
BY DEF Store!AdvancedRecord, Store!TERMINAL_STATES

(* Only its owner writes an open record.                                   *)
LEMMA OwnerWrites ==
  ASSUME TypeInv, NEW c \in Callers
  PROVE  /\ Owned(c) => exec.owner = c /\ exec.state \in Store!OPEN_STATES
         /\ \A expect : Owns(c, expect) => /\ exec.owner = c /\ exec.state \in expect
                                           /\ exec.state \in Store!OPEN_STATES
<1>1. exec.state \in Store!OPEN_STATES \cup Store!TERMINAL_STATES \cup {"ABSENT"}
  BY StoreKeepsRecords DEF TypeInv, ExecutionTyped, ExecStates
<1>2. Owned(c) => exec.owner = c /\ exec.state \in Store!OPEN_STATES
  BY <1>1 DEF Owned, Store!OwnedOutcome, Store!Owns
<1>3. ASSUME NEW expect, Owns(c, expect)
      PROVE  Store!OwnedOutcome(exec, c, exec.epoch) = "ADVANCED" /\ exec.state \in expect
  BY <1>1, <1>3 DEF Owns, Store!AdvanceOutcome, Store!OwnedOutcome, Store!Owns,
                    Store!OPEN_STATES, Store!TERMINAL_STATES
<1>. QED
  BY <1>2, <1>3 DEF Owned

-----------------------------------------------------------------------------
(* The writes of an execution, by what they say of the change.             *)

Keeps     == exec'.state = exec.state /\ exec'.predates = exec.predates
Says(s)   == exec'.state = s /\ exec'.predates = exec.predates
KeepsAll  == Keeps /\ exec'.owner = exec.owner
Idles(c)  == put' = put /\ seen' = seen /\ run'[c] \in {"reread", "request", "ended"}

Takes(c) ==
  /\ run[c] = "called" /\ run'[c] = "observe" /\ put' = put
  /\ seen' = [seen EXCEPT ![c] = exec']
  /\ exec'.predates = exec.predates /\ exec'.owner = c
  /\ exec'.state = IF exec.state = "ABSENT" THEN "CLAIMED" ELSE exec.state

(* Before the request of a change: the premise is checked, or is stale.    *)
Checks(c) ==
  /\ exec.owner = c /\ exec.state \in PreMutation /\ Idles(c)
  /\ exec'.predates = exec.predates
  /\ \/ exec'.state = "PRECONDITION_CHECKED" /\ exec'.owner = exec.owner
     \/ exec'.state = "STALE" /\ exec'.owner = NoOwner

(* The authorized revision is there already.                               *)
Confirms(c) ==
  /\ run[c] = "observe" /\ run'[c] = "ended" /\ put' = put /\ seen' = seen
  /\ exec.owner = c /\ exec.state \in PreMutation \cup {"MUTATION_REQUESTED", "MUTATED"}
  /\ exec'.state = "MUTATED" /\ exec'.owner = exec.owner
  /\ exec'.predates = (exec.predates \/ exec.state \in PreMutation)

Requests(c) ==
  /\ run[c] = "request" /\ run'[c] = "await" /\ seen' = seen
  /\ exec.owner = c /\ exec'.owner = c
  /\ exec.state = "PRECONDITION_CHECKED" /\ Says("MUTATION_REQUESTED")
  /\ put' = [put EXCEPT ![c] = "inflight"]

(* What became of it is recorded, or it is taken back.                     *)
Concludes(c) ==
  /\ run[c] = "await" /\ run'[c] = "ended" /\ put' = put /\ seen' = seen
  /\ exec.owner = c /\ exec'.owner = c /\ exec.state = "MUTATION_REQUESTED"
  /\ \/ put[c] = "accepted" /\ Says("MUTATED")
     \/ put[c] = "refused" /\ Says("PRECONDITION_CHECKED")

(* Every step of a call's execution is one of these.                       *)
LEMMA ExecutorSays ==
  ASSUME TypeInv, WriteInv, NEW c \in Callers, ExecutorStep(c)
  PROVE  /\ \/ KeepsAll /\ Idles(c)
            \/ Takes(c) \/ Checks(c) \/ Confirms(c) \/ Requests(c) \/ Concludes(c)
         /\ \A d \in Callers \ {c} : run'[d] = run[d]
<1>0. /\ exec \in Store!Record /\ seen \in [Callers -> Store!Record]
      /\ run \in [Callers -> RunStates] /\ put \in [Callers -> PutStates]
      /\ exec.predates \in BOOLEAN /\ seen[c].predates \in BOOLEAN
  BY StoreKeepsRecords DEF TypeInv, ExecutionTyped
<1>1. \A step : run' = [run EXCEPT ![c] = step] =>
        run'[c] = step /\ \A d \in Callers \ {c} : run'[d] = run[d]
  BY <1>0
<1>2. \A kind : Reply(c, kind) =>
        run'[c] = "ended" /\ \A d \in Callers \ {c} : run'[d] = run[d]
  BY <1>1 DEF Reply
<1>3. \A d \in Callers \ {c} : run'[d] = run[d]
  BY <1>1, <1>2, ExecutorWrites
<1>4. exec' = Released(c, exec) => KeepsAll
  BY StoreWrites DEF Released, KeepsAll, Keeps
<1>5. exec' = exec => KeepsAll
  BY DEF KeepsAll, Keeps
<1>6. CASE Acquire(c)
  <2>1. CASE UNCHANGED <<exec, seen>> /\ Reply(c, "REFUSED")
    BY <1>2, <1>5, <1>6, <2>1 DEF Acquire, Idles
  <2>2. CASE UNCHANGED <<exec, seen>> /\ Reply(c, "DUPLICATE")
    BY <1>2, <1>5, <1>6, <2>2 DEF Acquire, Idles
  <2>3. CASE /\ exec' = Store!AcquiredRecord(exec, c)
             /\ seen' = [seen EXCEPT ![c] = exec']
             /\ run' = [run EXCEPT ![c] = "observe"]
    <3>1. exec'.predates = exec.predates /\ exec'.owner = c
          /\ exec'.state = IF exec.state = "ABSENT" THEN "CLAIMED" ELSE exec.state
      BY <2>3, StoreWrites
    <3>. QED
      BY <1>1, <1>6, <2>3, <3>1 DEF Acquire, Takes
  <2>. QED
    BY <1>6, <2>1, <2>2, <2>3 DEF Acquire
<1>7. CASE Observe(c)
  <2>0. UNCHANGED <<seen, put>> /\ run[c] = "observe"
    BY <1>7 DEF Observe
  <2>1. ASSUME Owns(c, Store!OPEN_STATES)
        PROVE  /\ exec.owner = c /\ exec.state \in Store!OPEN_STATES
               /\ seen[c].state = exec.state /\ seen[c].predates = exec.predates
    BY <2>0, <2>1, OwnerWrites DEF WriteInv
  <2>2. \A kind : Reply(c, kind) /\ KeepsAll => KeepsAll /\ Idles(c)
    BY <1>2, <2>0 DEF Idles
  <2>3. CASE /\ Owns(c, Store!OPEN_STATES) /\ Reply(c, "RECONCILED")
             /\ exec' = Store!AdvancedRecord(exec, "MUTATED",
                                             seen[c].predates \/ ~Attempted(c))
    <3>1. /\ exec'.state = "MUTATED" /\ exec'.owner = exec.owner
          /\ exec'.predates = (seen[c].predates \/ ~Attempted(c))
      BY <2>3, AdvanceWrites
    <3>2. /\ exec.state \in PreMutation \cup {"MUTATION_REQUESTED", "MUTATED"}
          /\ Attempted(c) <=> exec.state \notin PreMutation
      BY <2>1, <2>3 DEF Store!OPEN_STATES, PreMutation, Attempted
    <3>3. exec'.predates = (exec.predates \/ exec.state \in PreMutation)
      BY <1>0, <2>1, <2>3, <3>1, <3>2
    <3>. QED
      BY <1>2, <2>0, <2>1, <2>3, <3>1, <3>2, <3>3 DEF Confirms
  <2>4. CASE exec' = Released(c, exec) /\ \E kind : Reply(c, kind)
    BY <1>3, <1>4, <2>2, <2>4
  <2>5. CASE UNCHANGED exec /\ \E kind : Reply(c, kind)
    BY <1>3, <1>5, <2>2, <2>5
  <2>6. CASE /\ Owns(c, Store!OPEN_STATES) /\ ~Attempted(c) /\ Reply(c, "STALE")
             /\ exec' = Store!AdvancedRecord(exec, "STALE", exec.predates)
    <3>1. exec'.state = "STALE" /\ exec'.owner = NoOwner /\ exec'.predates = exec.predates
      BY <2>6, AdvanceWrites
    <3>2. exec.state \in PreMutation
      BY <2>1, <2>6 DEF Attempted, Store!OPEN_STATES, PreMutation
    <3>. QED
      BY <1>2, <2>0, <2>1, <2>6, <3>1, <3>2 DEF Checks, Idles
  <2>7. CASE /\ Owns(c, Store!OPEN_STATES) /\ ~Attempted(c)
             /\ run' = [run EXCEPT ![c] = "reread"]
             /\ exec' = Store!AdvancedRecord(exec, "PRECONDITION_CHECKED", exec.predates)
    <3>1. /\ exec'.state = "PRECONDITION_CHECKED" /\ exec'.owner = exec.owner
          /\ exec'.predates = exec.predates
      BY <2>7, AdvanceWrites
    <3>2. exec.state \in PreMutation
      BY <2>1, <2>7 DEF Attempted, Store!OPEN_STATES, PreMutation
    <3>. QED
      BY <1>1, <2>0, <2>1, <2>7, <3>1, <3>2 DEF Checks, Idles
  <2>. QED
    BY <1>3, <1>7, <2>3, <2>4, <2>5, <2>6, <2>7, Zenon DEF Observe
<1>8. CASE RereadIncident(c)
  BY <1>1, <1>2, <1>3, <1>4, <1>5, <1>8 DEF RereadIncident, Idles
<1>9. CASE RequestMutation(c)
  <2>1. CASE ~Owns(c, {"PRECONDITION_CHECKED"})
    BY <1>2, <1>3, <1>5, <1>9, <2>1 DEF RequestMutation, Idles
  <2>2. CASE Owns(c, {"PRECONDITION_CHECKED"})
    <3>1. exec' = Store!AdvancedRecord(exec, "MUTATION_REQUESTED", exec.predates)
      BY <1>9, <2>2 DEF RequestMutation
    <3>2. /\ exec'.state = "MUTATION_REQUESTED" /\ exec'.owner = exec.owner
          /\ exec'.predates = exec.predates
      BY <3>1, AdvanceWrites
    <3>3. exec.owner = c /\ exec.state = "PRECONDITION_CHECKED"
      BY <2>2, OwnerWrites
    <3>. QED
      BY <1>1, <1>9, <2>2, <3>2, <3>3 DEF RequestMutation, Requests, Says
  <2>. QED
    BY <2>1, <2>2
<1>10. CASE Conclude(c)
  <2>0. UNCHANGED <<seen, put>> /\ run[c] = "await" /\ \E kind : Reply(c, kind)
    BY <1>10 DEF Conclude
  <2>1. KeepsAll => KeepsAll /\ Idles(c)
    BY <1>2, <2>0 DEF Idles
  <2>2. CASE exec' = exec \/ exec' = Released(c, exec)
    BY <1>3, <1>4, <1>5, <2>1, <2>2
  <2>3. CASE /\ put[c] = "accepted" /\ Owned(c) /\ exec.state = "MUTATION_REQUESTED"
             /\ exec' = Store!AdvancedRecord(
                          IF exec.lease = "live" THEN exec ELSE Store!AcquiredRecord(exec, c),
                          "MUTATED", exec.predates)
    <3>. DEFINE held == IF exec.lease = "live" THEN exec ELSE Store!AcquiredRecord(exec, c)
    <3>1. exec.owner = c /\ held.owner = c
      BY <2>3, OwnerWrites, StoreWrites
    <3>2. exec' = Store!AdvancedRecord(held, "MUTATED", exec.predates)
      BY <2>3
    <3>. HIDE DEF held
    <3>3. exec'.state = "MUTATED" /\ exec'.owner = c /\ exec'.predates = exec.predates
      BY <3>1, <3>2, AdvanceWrites
    <3>. QED
      BY <1>2, <1>3, <2>0, <2>3, <3>1, <3>3 DEF Concludes, Says
  <2>4. CASE /\ put[c] = "refused" /\ Owns(c, {"MUTATION_REQUESTED"})
             /\ exec' = Store!LapsedRecord(Store!AdvancedRecord(exec, "PRECONDITION_CHECKED",
                                                                exec.predates))
    <3>. DEFINE back == Store!AdvancedRecord(exec, "PRECONDITION_CHECKED", exec.predates)
    <3>1. exec.owner = c /\ exec.state = "MUTATION_REQUESTED"
      BY <2>4, OwnerWrites
    <3>2. /\ back.state = "PRECONDITION_CHECKED" /\ back.owner = exec.owner
          /\ back.predates = exec.predates
      BY AdvanceWrites
    <3>3. exec' = Store!LapsedRecord(back)
      BY <2>4
    <3>. HIDE DEF back
    <3>4. Says("PRECONDITION_CHECKED") /\ exec'.owner = c
      BY <3>1, <3>2, <3>3, StoreWrites DEF Says
    <3>. QED
      BY <1>2, <1>3, <2>0, <2>4, <3>1, <3>4 DEF Concludes
  <2>. QED
    BY <1>10, <2>2, <2>3, <2>4 DEF Conclude
<1>. QED
  BY <1>3, <1>6, <1>7, <1>8, <1>9, <1>10 DEF ExecutorStep

-----------------------------------------------------------------------------
(* A handler writes the record once: it closes an execution as verified.   *)
LEMMA HandlersClose ==
  ASSUME TypeInv, NEW h \in Handlers, HandlerStep(h) \/ WriteRaises(h) \/ Crash(h)
  PROVE  \/ exec' = exec
         \/ /\ exec.state = "MUTATED" /\ Says("VERIFIED")
            /\ exec'.owner = NoOwner
<1>1. Hop(h) \/ Calls(h) \/ Verify(h) \/ WriteRaises(h) \/ Crash(h) \/ Opens(h) => exec' = exec
  BY DEF Hop, Transition, Calls, CallExecutor, ReadReceipt, UnreadableReceipt,
         ExecutorUnreachable, Verify, WriteRaises, Crash, Locally, execution,
         Opens, Screen, Consult, Investigate, SaveDecision, CreateApproval, AttachApproval
<1>2. Failing(h) \/ Receives(h) => exec' = exec
  BY DEF Failing, BeginFailure, SettleFailure, Escalate, WalkFailure, SaveHandover, Locally,
         Receives, ReceiveResume, CheckApproval, Decide, CloseUnapproved,
         ReceiveReconcile, ReconcileReceipt, ReconcileUnanswered, execution
<1>3. Terminalize(h) => \/ exec' = exec
                        \/ /\ exec.state = "MUTATED"
                           /\ exec' = Store!AdvancedRecord(exec, "VERIFIED", exec.predates)
  BY DEF Terminalize, Closable
<1>. QED
  BY <1>1, <1>2, <1>3, AdvanceWrites, HandlerCases DEF Says

(* WriteInv is kept by every step.                                         *)
LEMMA NextWrites ==
  ASSUME TypeInv, CallsOnceInv, RunsInv, WriteInv, [Next]_vars
  PROVE  WriteInv'
<1>0. /\ run \in [Callers -> RunStates] /\ put \in [Callers -> PutStates]
      /\ seen \in [Callers -> Store!Record] /\ exec.predates \in BOOLEAN
      /\ NoOwner \notin Callers
  BY StoreKeepsRecords, OrchestratorAssumption DEF TypeInv, ExecutionTyped
<1>1. ASSUME put' = put \/ \E c \in Callers : \E o : /\ put[c] = "inflight"
                                                    /\ put' = [put EXCEPT ![c] = o],
             seen' = seen, KeepsAll,
             \A c \in Callers : run'[c] = run[c] \/ run'[c] \in {"called", "ended"}
      PROVE  WriteInv'
  <2>1. \A c \in Callers : Armed(c)' => Armed(c)
    BY <1>0, <1>1 DEF Armed
  <2>. QED
    BY <1>1, <2>1 DEF WriteInv, KeepsAll, Keeps
<1>2. ASSUME NEW h \in Handlers, HandlerStep(h) \/ WriteRaises(h) \/ Crash(h)
      PROVE  WriteInv'
  <2>1. UNCHANGED <<seen, put>>
    BY <1>2, OthersStay
  <2>2. \A c \in Callers : run'[c] = run[c] \/ run'[c] = "called"
    BY <1>0, <1>2, HandlersCall
  <2>3. CASE exec' = exec
    BY <1>1, <2>1, <2>2, <2>3 DEF KeepsAll, Keeps
  <2>4. CASE exec.state = "MUTATED" /\ Says("VERIFIED") /\ exec'.owner = NoOwner
    <3>1. \A c \in Callers : Armed(c)' <=> Armed(c)
      BY <2>1 DEF Armed
    <3>. QED
      BY <1>0, <2>1, <2>4, <3>1 DEF WriteInv, Says, PreMutation
  <2>. QED
    BY <1>2, <2>3, <2>4, HandlersClose
<1>3. ASSUME NEW c \in Callers, ExecutorStep(c) PROVE WriteInv'
  <2>0. \A d \in Callers \ {c} : run'[d] = run[d]
    BY <1>3, ExecutorSays
  <2>1. put' = put => \A d \in Callers : Armed(d)' <=> Armed(d)
    BY DEF Armed
  <2>2. CASE KeepsAll /\ Idles(c)
    BY <2>0, <2>1, <2>2 DEF KeepsAll, Keeps, Idles, WriteInv
  <2>3. CASE Takes(c)
    <3>1. /\ exec'.state \in PreMutation \cup {"ABSENT", "MUTATION_REQUESTED"}
               => exec.state \in PreMutation \cup {"ABSENT", "MUTATION_REQUESTED"}
          /\ exec.state \in {"MUTATION_REQUESTED", "MUTATED", "VERIFIED"} => exec'.state = exec.state
      BY <2>3 DEF Takes, PreMutation
    <3>2. seen'[c] = exec' /\ \A d \in Callers \ {c} : seen'[d] = seen[d]
      BY <1>0, <2>3 DEF Takes
    <3>. QED
      BY <2>0, <2>1, <2>3, <3>1, <3>2 DEF Takes, WriteInv
  <2>4. CASE Checks(c)
    BY <1>0, <2>0, <2>1, <2>4 DEF Checks, Idles, WriteInv, PreMutation
  <2>5. CASE Confirms(c)
    BY <1>0, <2>0, <2>1, <2>5 DEF Confirms, WriteInv, PreMutation
  <2>6. CASE Requests(c)
    <3>1. \A d \in Callers : Armed(d)' => d = c
      BY <1>0, <2>6 DEF Requests, Says, Armed, WriteInv, PreMutation
    <3>. QED
      BY <1>0, <2>0, <2>6, <3>1 DEF Requests, Says, WriteInv, PreMutation
  <2>7. CASE Concludes(c)
    <3>1. put[c] = "refused" => \A d \in Callers : ~Armed(d)
      BY <2>7 DEF Concludes, Armed, WriteInv
    <3>2. ~exec.predates
      BY <2>7 DEF Concludes, WriteInv
    <3>. QED
      BY <1>0, <2>0, <2>1, <2>7, <3>1, <3>2 DEF Concludes, Says, WriteInv, PreMutation
  <2>. QED
    BY <1>3, <2>2, <2>3, <2>4, <2>5, <2>6, <2>7, ExecutorSays
<1>4. ASSUME NEW c \in Callers, ExecutionDies(c) \/ CloudRunStep(c) PROVE WriteInv'
  <2>1. CASE ExecutionDies(c)
    BY <1>0, <1>1, <2>1 DEF ExecutionDies, KeepsAll, Keeps
  <2>2. CASE CloudRunStep(c)
    <3>1. PICK o \in {"accepted", "refused", "lost"} : PutSettles(c, o)
      BY <2>2 DEF CloudRunStep
    <3>. QED
      BY <1>1, <3>1 DEF PutSettles, KeepsAll, Keeps
  <2>. QED
    BY <1>4, <2>1, <2>2
<1>5. ASSUME Environment \/ UNCHANGED vars PROVE WriteInv'
  <2>1. UNCHANGED <<run, seen, put>> /\ (exec' = exec \/ exec' = Store!LapsedRecord(exec))
    BY <1>5 DEF Environment, MigrateTraffic, LeaseLapses, ApprovalLapses, OperatorChange, vars,
                execution
  <2>2. KeepsAll
    BY <2>1, StoreWrites DEF KeepsAll, Keeps
  <2>. QED
    BY <1>1, <2>1, <2>2
<1>. QED
  BY <1>2, <1>3, <1>4, <1>5 DEF Next

(* Nothing is sent yet.                                                    *)
LEMMA InitWrites == Init => WriteInv
BY DEF Init, WriteInv, Armed, Store!NoRecord

(* The invariant of the writes holds throughout.                           *)
LEMMA WriteInvariant == Spec => []WriteInv
<1>1. IInv /\ CallsOnceInv /\ RunsInv /\ WriteInv /\ [Next]_vars => WriteInv'
  BY NextWrites DEF IInv
<1>2. Spec => [](CallsOnceInv /\ RunsInv)
  BY OwnCallInvariant, PTL
<1>. QED
  BY <1>1, <1>2, InitWrites, Invariant, PTL DEF Spec


-----------------------------------------------------------------------------
(* The refinement, step by step.                                           *)

Phase == [e \in {"execution"} |-> PhaseOf(exec)]
Spent == [a \in {"authorization"} |-> \E c \in Callers : put[c] = "accepted"]

(* What a step of the incident is, seen from outside.                      *)
Visible == Effect!Next \/ UNCHANGED <<Phase, Spent>>

(* The same calls were applied.                                            *)
SameCalls == \A c \in Callers : put'[c] = "accepted" <=> put[c] = "accepted"

(* The same calls spend the same authorization.                            *)
LEMMA SpentKept ==
  ASSUME SameCalls
  PROVE  Spent' = Spent
BY DEF SameCalls, Spent

(* The phase depends on the state and on the provenance only.              *)
LEMMA PhaseKept ==
  ASSUME SameCalls, PhaseOf(exec)' = PhaseOf(exec)
  PROVE  Visible
BY SpentKept DEF Phase, Visible

(* A step after which the execution is in another phase moves it.          *)
LEMMA PhaseMoves ==
  ASSUME SameCalls, NEW from, NEW to, PhaseOf(exec) = from, PhaseOf(exec)' = to
  PROVE  Effect!Moves("execution", from, to)
<1>1. Phase["execution"] = from /\ Phase' = [Phase EXCEPT !["execution"] = to]
  BY DEF Phase
<1>. QED
  BY <1>1, SpentKept DEF Effect!Moves, Phase, Spent

(* Any of these moves is a step of AuthorizedEffect.                       *)
LEMMA MovesAreVisible ==
  ASSUME \/ Effect!Moves("execution", "open", "attempted")
         \/ Effect!Moves("execution", "open", "foreign")
         \/ Effect!Moves("execution", "attempted", "mutated")
         \/ Effect!Moves("execution", "foreign", "verified_foreign")
         \/ Effect!Moves("execution", "mutated", "verified_mutated")
         \/ Effect!Moves("execution", "open", "stale")
  PROVE  Visible
<1>1. \E e \in {"execution"} : Effect!Attempt(e) \/ Effect!Disclaim(e) \/ Effect!Record(e)
                                 \/ Effect!Verify(e) \/ Effect!Abandon(e)
  BY DEF Effect!Attempt, Effect!Disclaim, Effect!Record, Effect!Verify, Effect!Abandon
<1>. QED
  BY <1>1 DEF Visible, Effect!Next

(* A step that keeps what the record says is not seen.                     *)
LEMMA KeepsAreHidden ==
  ASSUME SameCalls, Keeps
  PROVE  Visible
BY PhaseKept DEF Keeps, PhaseOf

(* Each step of an execution is one move of the authorization, or none.    *)
LEMMA ExecutionsAreVisible ==
  ASSUME TypeInv, RunsInv, WriteInv, NEW c \in Callers, ExecutorStep(c)
  PROVE  Visible
<1>0. /\ put \in [Callers -> PutStates] /\ exec.predates \in BOOLEAN
  BY StoreKeepsRecords DEF TypeInv, ExecutionTyped
<1>1. put' = put => SameCalls
  BY DEF SameCalls
<1>2. CASE KeepsAll /\ Idles(c)
  BY <1>1, <1>2, KeepsAreHidden DEF KeepsAll, Idles
<1>3. CASE Takes(c)
  <2>1. PhaseOf(exec)' = PhaseOf(exec)
    BY <1>3 DEF Takes, PhaseOf
  <2>. QED
    BY <1>1, <1>3, <2>1, PhaseKept DEF Takes
<1>4. CASE Checks(c)
  <2>1. SameCalls /\ PhaseOf(exec) = "open"
    BY <1>1, <1>4 DEF Checks, Idles, PreMutation, PhaseOf
  <2>2. PhaseOf(exec)' \in {"open", "stale"}
    BY <1>4 DEF Checks, PhaseOf
  <2>. QED
    BY <2>1, <2>2, PhaseKept, PhaseMoves, MovesAreVisible
<1>5. CASE Confirms(c)
  <2>1. SameCalls
    BY <1>1, <1>5 DEF Confirms
  <2>2. CASE exec.state \in PreMutation
    <3>1. PhaseOf(exec) = "open" /\ PhaseOf(exec)' = "foreign"
      BY <1>5, <2>2 DEF Confirms, PreMutation, PhaseOf
    <3>. QED
      BY <2>1, <3>1, PhaseMoves, MovesAreVisible
  <2>3. CASE exec.state = "MUTATION_REQUESTED"
    <3>1. exec'.predates = FALSE
      BY <1>0, <1>5, <2>3 DEF Confirms, PreMutation, WriteInv
    <3>2. PhaseOf(exec) = "attempted" /\ PhaseOf(exec)' = "mutated"
      BY <1>5, <2>3, <3>1 DEF Confirms, PhaseOf
    <3>. QED
      BY <2>1, <3>2, PhaseMoves, MovesAreVisible
  <2>4. CASE exec.state = "MUTATED"
    <3>1. Keeps
      BY <1>0, <1>5, <2>4 DEF Confirms, PreMutation, Keeps
    <3>. QED
      BY <2>1, <3>1, KeepsAreHidden
  <2>. QED
    BY <1>5, <2>2, <2>3, <2>4 DEF Confirms
<1>6. CASE Requests(c)
  <2>1. SameCalls
    <3>1. put[c] = "none"
      BY <1>0, <1>6 DEF Requests, RunsInv
    <3>. QED
      BY <1>0, <1>6, <3>1 DEF Requests, SameCalls
  <2>2. PhaseOf(exec) = "open" /\ PhaseOf(exec)' = "attempted"
    BY <1>6 DEF Requests, Says, PhaseOf
  <2>. QED
    BY <2>1, <2>2, PhaseMoves, MovesAreVisible
<1>7. CASE Concludes(c)
  <2>1. SameCalls /\ PhaseOf(exec) = "attempted"
    BY <1>1, <1>7 DEF Concludes, PhaseOf
  <2>2. CASE put[c] = "accepted" /\ Says("MUTATED")
    <3>1. exec'.predates = FALSE
      BY <1>0, <1>7, <2>2 DEF Concludes, Says, WriteInv
    <3>2. PhaseOf(exec)' = "mutated"
      BY <2>2, <3>1 DEF Says, PhaseOf
    <3>. QED
      BY <2>1, <3>2, PhaseMoves, MovesAreVisible
  <2>3. CASE put[c] = "refused" /\ Says("PRECONDITION_CHECKED")
    <3>1. \A d \in Callers : put[d] # "accepted"
      BY <1>7, <2>3 DEF Concludes, Armed, WriteInv
    <3>2. ~Spent["authorization"]
      BY <3>1 DEF Spent
    <3>3. PhaseOf(exec)' = "open"
      BY <2>3 DEF Says, PhaseOf
    <3>4. Effect!Moves("execution", "attempted", "open")
      BY <2>1, <3>3, PhaseMoves
    <3>5. Effect!Withdraw("execution")
      BY <3>2, <3>4 DEF Effect!Withdraw, Spent
    <3>. QED
      BY <3>5 DEF Visible, Effect!Next
  <2>. QED
    BY <1>7, <2>2, <2>3 DEF Concludes
<1>. QED
  BY <1>2, <1>3, <1>4, <1>5, <1>6, <1>7, ExecutorSays

(* Cloud Run applies the change of an execution that owns up to it, and    *)
(* has applied none before.                                                *)
LEMMA SettlingIsVisible ==
  ASSUME TypeInv, WriteInv, NEW c \in Callers, CloudRunStep(c)
  PROVE  Visible
<1>0. put \in [Callers -> PutStates]
  BY DEF TypeInv, ExecutionTyped
<1>1. PICK o \in {"accepted", "refused", "lost"} : PutSettles(c, o)
  BY DEF CloudRunStep
<1>2. exec' = exec /\ put[c] = "inflight" /\ put' = [put EXCEPT ![c] = o]
  BY <1>1 DEF PutSettles
<1>3. CASE o # "accepted"
  <2>1. SameCalls /\ Keeps
    BY <1>0, <1>2, <1>3 DEF SameCalls, Keeps
  <2>. QED
    BY <2>1, KeepsAreHidden
<1>4. CASE o = "accepted"
  <2>1. \A d \in Callers : put[d] # "accepted"
    BY <1>2 DEF WriteInv, Armed
  <2>2. exec.state \in {"MUTATION_REQUESTED", "MUTATED", "VERIFIED"} /\ ~exec.predates
    BY <1>2 DEF WriteInv, Armed
  <2>3. PhaseOf(exec) \in {"attempted", "mutated", "verified_mutated"}
    BY <2>2 DEF PhaseOf
  <2>4. Phase["execution"] \in {"attempted", "mutated", "verified_mutated"} /\ Phase' = Phase
    BY <1>2, <2>3 DEF Phase, PhaseOf
  <2>5. ~Spent["authorization"] /\ Spent' = [Spent EXCEPT !["authorization"] = TRUE]
    <3>1. put'[c] = "accepted"
      BY <1>0, <1>2, <1>4
    <3>. QED
      BY <2>1, <3>1 DEF Spent
  <2>6. Effect!Apply("execution")
    BY <2>4, <2>5 DEF Effect!Apply, Phase, Spent
  <2>. QED
    BY <2>6 DEF Visible, Effect!Next
<1>. QED
  BY <1>3, <1>4

(* Each step of the incident is one move of the authorization, or none.    *)
LEMMA NextIsVisible ==
  ASSUME TypeInv, RunsInv, WriteInv, [Next]_vars
  PROVE  Visible
<1>0. exec.predates \in BOOLEAN
  BY StoreKeepsRecords DEF TypeInv, ExecutionTyped
<1>1. ASSUME NEW h \in Handlers, HandlerStep(h) \/ WriteRaises(h) \/ Crash(h)
      PROVE  Visible
  <2>1. SameCalls
    BY <1>1, OthersStay DEF SameCalls
  <2>2. CASE exec' = exec
    BY <2>1, <2>2, KeepsAreHidden DEF Keeps
  <2>3. CASE exec.state = "MUTATED" /\ Says("VERIFIED")
    <3>1. CASE exec.predates
      <4>1. PhaseOf(exec) = "foreign" /\ PhaseOf(exec)' = "verified_foreign"
        BY <2>3, <3>1 DEF Says, PhaseOf
      <4>. QED
        BY <2>1, <4>1, PhaseMoves, MovesAreVisible
    <3>2. CASE ~exec.predates
      <4>1. PhaseOf(exec) = "mutated" /\ PhaseOf(exec)' = "verified_mutated"
        BY <2>3, <3>2 DEF Says, PhaseOf
      <4>. QED
        BY <2>1, <4>1, PhaseMoves, MovesAreVisible
    <3>. QED
      BY <3>1, <3>2
  <2>. QED
    BY <1>1, <2>2, <2>3, HandlersClose
<1>2. ASSUME NEW c \in Callers, ExecutionDies(c) PROVE Visible
  BY <1>2, KeepsAreHidden DEF ExecutionDies, Keeps, SameCalls
<1>3. ASSUME Environment \/ UNCHANGED vars PROVE Visible
  <2>1. put' = put /\ (exec' = exec \/ exec' = Store!LapsedRecord(exec))
    BY <1>3 DEF Environment, MigrateTraffic, LeaseLapses, ApprovalLapses, OperatorChange, vars,
                execution
  <2>2. Keeps /\ SameCalls
    BY <2>1, StoreWrites DEF Keeps, SameCalls
  <2>. QED
    BY <2>2, KeepsAreHidden
<1>. QED
  BY <1>1, <1>2, <1>3, ExecutionsAreVisible, SettlingIsVisible DEF Next

(* Nothing was attempted.                                                  *)
LEMMA InitVisible == Init => Effect!Init
<1>. SUFFICES ASSUME Init PROVE Effect!Init
  OBVIOUS
<1>1. PhaseOf(exec) = "open" /\ \A c \in Callers : put[c] # "accepted"
  BY DEF Init, Store!NoRecord, PhaseOf
<1>. QED
  BY <1>1 DEF Effect!Init

(* The workflow, its resumes and its reconciles together implement         *)
(* AuthorizedEffect: an incident's one authorization is spent on one       *)
(* change, wherever they meet or stop (main.py 1764-1790,                  *)
(* executor.py 111-121).                                                   *)
THEOREM SpentOnce == Spec => SpendsAuthorizationOnce
<1>1. /\ TypeInv /\ RunsInv /\ WriteInv /\ [Next]_vars
        => [Effect!Next]_<<Phase, Spent>>
  BY NextIsVisible DEF Visible
<1>2. Effect!Spec <=> Effect!Init /\ [][Effect!Next]_<<Phase, Spent>>
  BY DEF Effect!Spec, Phase, Spent
<1>3. Spec => [](TypeInv /\ RunsInv /\ WriteInv)
  <2>1. IInv => TypeInv
    BY DEF IInv
  <2>. QED
    BY <2>1, Invariant, OwnCallInvariant, WriteInvariant, PTL
<1>. QED
  BY <1>1, <1>2, <1>3, InitVisible, PTL DEF Spec, SpendsAuthorizationOnce

(* Of all the writes an incident's handlers asked for, one at most was     *)
(* applied, is under way or left its fate unknown                          *)
(* (executor.py 111-121, 622).                                             *)
THEOREM OneWriteAtMost ==
  Spec => [](\A c, d \in Callers :
               /\ put[c] \in {"inflight", "accepted", "lost"}
               /\ put[d] \in {"inflight", "accepted", "lost"}
               => c = d)
<1>. DEFINE One == \A c, d \in Callers :
                     /\ put[c] \in {"inflight", "accepted", "lost"}
                     /\ put[d] \in {"inflight", "accepted", "lost"}
                     => c = d
<1>1. WriteInv => One
  BY DEF WriteInv, Armed
<1>. HIDE DEF One
<1>2. Spec => []One
  BY <1>1, WriteInvariant, PTL
<1>. QED
  BY <1>2 DEF One



-----------------------------------------------------------------------------
(* Who closes an incident hands it over.                                   *)

(* A walk closes the incident with its last transition.  A reconcile of an *)
(* incident at REMEDIATION_FAILED does not give up.                        *)
ClosesLast(path) ==
  \A i \in 1..Len(path) : path[i] = "ESCALATED" => i = Len(path)

GivesUpInv ==
  /\ \A h \in Handlers : ClosesLast(route[h])
  /\ \A c \in Reconciles :
       /\ pc[c] \in {"call", "wait"} => read[c] \in RECONCILABLE_STATES
       /\ pc[c] = "give_up" => GaveUp(c)

(* Whoever closed the incident still has its handover to save, or gave up. *)
HandedInv ==
  status = "ESCALATED" /\ decision # "none"
    => \/ handover # NoHandover
       \/ \E h \in Handlers : pc[h] \in {"save", "lost"}
       \/ \E c \in Reconciles : GaveUp(c)

ClosingInv == GivesUpInv /\ HandedInv

(* A route of a failure is closed by its last transition: nothing leads out*)
(* of ESCALATED.                                                           *)
LEMMA RoutesCloseLast ==
  ASSUME NEW target \in RestingStatuses, NEW s \in Statuses
  PROVE  ClosesLast(Routes[target][s])
<1>. DEFINE path == path_to(s, target, ASSERTION_STATES)
            ends == Len(path)
<1>1. target \in Statuses /\ Routes[target][s] = path
  BY DEF RestingStatuses, RECONCILABLE_STATES, Statuses, Routes
<1>2. path \in Seq(Statuses) /\ IsShortestRoute(path, s, target, ASSERTION_STATES)
  BY <1>1, PathIsShortest
<1>. HIDE DEF path
<1>. SUFFICES ASSUME NEW i \in 1..ends, path[i] = "ESCALATED", i # ends PROVE FALSE
  BY <1>1 DEF ClosesLast
<1>3. i + 1 \in 1..ends /\ (i + 1) - 1 = i /\ i + 1 # 1 /\ ends \in Nat
  <2>1. ends \in Nat
    BY <1>2, LenProperties
  <2>. HIDE DEF ends
  <2>. QED
    BY <2>1
<1>4. path[i + 1] \in Statuses
  BY <1>2, <1>3, ElementOfSeq
<1>5. \A j \in 1..ends : j # 1 => can_transition(path[j-1], path[j])
  <2>1. path # <<>>
    BY <1>3, EmptySeq
  <2>. QED
    BY <1>2, <1>3, <2>1 DEF IsShortestRoute
<1>6. can_transition("ESCALATED", path[i + 1])
  BY <1>3, <1>5
<1>. QED
  BY <1>4, <1>6, WaysToRest DEF TERMINAL_STATES

(* What is left of a walk closes with its last transition too, and a step  *)
(* that closes is the last.                                                *)
LEMMA WalksCloseLast ==
  ASSUME NEW path \in Seq(RestingStatuses), path # <<>>, ClosesLast(path)
  PROVE  /\ ClosesLast(Tail(path))
         /\ Head(path) = "ESCALATED" => Tail(path) = <<>>
<1>. DEFINE ends == Len(path)
<1>1. /\ ends \in Nat \ {0} /\ Tail(path) \in Seq(RestingStatuses) /\ Len(Tail(path)) = ends - 1
      /\ \A i \in 1..Len(Tail(path)) : Tail(path)[i] = path[i + 1]
      /\ Head(path) = path[1]
  BY HeadTailProperties, EmptySeq
<1>2. \A i \in 1..ends : path[i] = "ESCALATED" => i = ends
  BY DEF ClosesLast
<1>3. ASSUME NEW i \in 1..Len(Tail(path)), Tail(path)[i] = "ESCALATED" PROVE i = Len(Tail(path))
  <2>1. i \in 1..(ends - 1) /\ path[i + 1] = "ESCALATED"
    BY <1>1, <1>3
  <2>2. i + 1 \in 1..ends
    <3>. HIDE DEF ends
    <3>. QED
      BY <1>1, <2>1
  <2>3. i + 1 = ends
    BY <1>2, <2>1, <2>2
  <2>. HIDE DEF ends
  <2>. QED
    BY <1>1, <2>1, <2>3
<1>4. ASSUME Head(path) = "ESCALATED" PROVE Tail(path) = <<>>
  <2>1. 1 \in 1..ends /\ path[1] = "ESCALATED"
    <3>. HIDE DEF ends
    <3>. QED
      BY <1>1, <1>4
  <2>2. ends = 1
    BY <1>2, <2>1
  <2>3. Len(Tail(path)) = 0
    <3>. HIDE DEF ends
    <3>. QED
      BY <1>1, <2>2
  <2>. QED
    BY <1>1, <2>3, EmptySeq
<1>. QED
  BY <1>3, <1>4 DEF ClosesLast

(* A handler reads the status when it begins, and never again.             *)
LEMMA ReadOnce ==
  ASSUME TypeInv, NEW h \in Handlers, HandlerStep(h) \/ WriteRaises(h) \/ Crash(h)
  PROVE  \A g \in Handlers : read'[g] = read[g] \/ (g = h /\ pc[h] = "idle")
<1>1. /\ \A step : Goto(h, step) => read' = read
      /\ \A category, step : Report(h, category, step) => read' = read
  BY DEF Goto, Report
<1>2. Raise(h) => read' = read
  BY <1>1 DEF Raise, Fail
<1>3. Hop(h) \/ Opens(h) \/ Verify(h) \/ Terminalize(h) \/ WriteRaises(h) \/ Crash(h)
        => read' = read
  BY <1>1, <1>2 DEF Hop, Transition, Opens, Screen, Consult, Investigate, SaveDecision,
         CreateApproval, AttachApproval, Verify, Terminalize, WriteRaises, Crash, Fail
<1>4. Calls(h) => read' = read
  <2>1. ReadReceipt(h) => read' = read
    BY DEF ReadReceipt
  <2>. QED
    BY <1>1, <2>1 DEF Calls, CallExecutor, UnreadableReceipt, ExecutorUnreachable, Fail
<1>5. Failing(h) => read' = read
  BY <1>1, <1>2 DEF Failing, BeginFailure, SettleFailure, Escalate, WalkFailure, SaveHandover,
                    Depart
<1>6. Receives(h) => read' = read \/ (pc[h] = "idle" /\ read' = [read EXCEPT ![h] = status])
  <2>1. CheckApproval(h) \/ Decide(h) \/ CloseUnapproved(h) \/ ReconcileUnanswered(h)
          => read' = read
    BY <1>1 DEF CheckApproval, Decide, CloseUnapproved, ReconcileUnanswered
  <2>2. ReconcileReceipt(h) => read' = read
    BY DEF ReconcileReceipt
  <2>3. ReceiveResume(h) \/ ReceiveReconcile(h)
          => pc[h] = "idle" /\ read' = [read EXCEPT ![h] = status]
    BY DEF ReceiveResume, ReceiveReconcile, At
  <2>. QED
    BY <2>1, <2>2, <2>3 DEF Receives
<1>. QED
  BY <1>3, <1>4, <1>5, <1>6, HandlerCases DEF TypeInv, LocalTyped

(* A caller keeps what it read and was told.                               *)
LEMMA AnswersStand ==
  ASSUME TypeInv, CallsOnceInv, RunsInv, [Next]_vars, NEW c \in Callers, answer[c] # NoAnswer
  PROVE  answer'[c] = answer[c] /\ read'[c] = read[c] /\ run[c] = "ended"
<1>1. c \in Callers /\ c \in Handlers
  BY DEF Callers, Handlers
<1>2. run[c] = "ended" /\ pc[c] # "idle"
  BY <1>1 DEF RunsInv, CallsOnceInv, BeforeCall
<1>3. answer \in [Callers -> Answers]
  BY DEF TypeInv, ExecutionTyped
<1>4. ASSUME NEW h \in Handlers, HandlerStep(h) \/ WriteRaises(h) \/ Crash(h)
      PROVE  answer'[c] = answer[c] /\ read'[c] = read[c]
  BY <1>1, <1>2, <1>4, OthersStay, ReadOnce
<1>5. ASSUME NEW d \in Callers, ExecutorStep(d) PROVE answer'[c] = answer[c]
  <2>1. d # c
    BY <1>2, <1>5, ExecutionLeaves
  <2>. QED
    BY <1>1, <1>3, <1>5, <2>1, ExecutorWrites DEF Reply
<1>6. ASSUME \/ UNCHANGED vars
             \/ \E d \in Callers : ExecutorStep(d) \/ ExecutionDies(d) \/ CloudRunStep(d)
             \/ Environment
      PROVE  answer'[c] = answer[c] /\ read'[c] = read[c]
  <2>1. read' = read
    BY <1>6, OutsideStays DEF local
  <2>2. ASSUME NEW d \in Callers, ExecutionDies(d) \/ CloudRunStep(d) PROVE answer' = answer
    BY <2>2 DEF ExecutionDies, CloudRunStep, PutSettles
  <2>3. UNCHANGED vars \/ Environment => answer' = answer
    BY DEF vars, execution, Environment, MigrateTraffic, LeaseLapses, ApprovalLapses,
           OperatorChange
  <2>. QED
    BY <1>5, <1>6, <2>1, <2>2, <2>3
<1>. QED
  BY <1>2, <1>4, <1>6 DEF Next

(* So a reconcile that gave up did for good.                               *)
LEMMA GivenUpForGood ==
  ASSUME TypeInv, CallsOnceInv, RunsInv, [Next]_vars, NEW c \in Reconciles, GaveUp(c)
  PROVE  GaveUp(c)'
<1>1. c \in Callers
  BY OrchestratorAssumption DEF Callers, Handlers
<1>. QED
  BY <1>1, AnswersStand DEF GaveUp

(* A reconcile calls for a status that accepts it, and gives up on an      *)
(* answer.                                                                 *)
LEMMA ReconcilesGiveUp ==
  ASSUME TypeInv, GivesUpInv, NEW h \in Reconciles, HandlerStep(h) \/ WriteRaises(h) \/ Crash(h)
  PROVE  /\ pc'[h] \in {"call", "wait"} => read'[h] \in RECONCILABLE_STATES
         /\ pc'[h] = "give_up" => GaveUp(h)'
<1>1. /\ h \in Handlers /\ pc \in [Handlers -> Steps] /\ Serves(h, pc[h])
      /\ read \in [Handlers -> Statuses]
  BY DEF TypeInv, LocalTyped, Handlers
<1>2. /\ \A step : Goto(h, step) => pc'[h] = step /\ read' = read
      /\ \A category, step : Report(h, category, step) => pc'[h] = step
      /\ Raise(h) => pc'[h] \in {"done", "fail"}
  BY <1>1 DEF Goto, Report, Raise, Fail
<1>. DEFINE Elsewhere == pc'[h] \notin {"call", "wait", "give_up"}
<1>3. Hop(h) => Elsewhere
  <2>. SUFFICES ASSUME NEW hop \in Hops, Transition(h, hop[1], hop[2], hop[3]) PROVE Elsewhere
    BY DEF Hop
  <2>1. pc[h] = hop[1] /\ pc'[h] \in {hop[3], "done", "fail"}
    BY <1>2 DEF Transition, At
  <2>2. hop[1] # "enter"
    BY <1>1, <2>1 DEF Serves, PipelineSteps
  <2>. QED
    BY <2>1, <2>2 DEF Hops
<1>4. Opens(h) \/ Verify(h) \/ Terminalize(h) => Elsewhere
  BY <1>2 DEF Opens, Screen, Consult, Investigate, SaveDecision, CreateApproval, AttachApproval,
              Verify, Terminalize, Fail
<1>5. ASSUME Calls(h)
      PROVE  (pc[h] = "call" /\ pc'[h] = "wait" /\ read' = read) \/ Elsewhere
  BY <1>2, <1>5 DEF Calls, CallExecutor, ReadReceipt, UnreadableReceipt, ExecutorUnreachable,
                    Fail, At
<1>6. ASSUME Receives(h)
      PROVE  \/ Elsewhere
             \/ pc'[h] = "call" /\ read'[h] \in RECONCILABLE_STATES
             \/ pc'[h] = "give_up" /\ GaveUp(h)'
  <2>1. CASE ReceiveReconcile(h)
    <3>1. /\ read'[h] = status
          /\ pc'[h] = IF status \in RECONCILABLE_STATES /\ decision # "none"
                      THEN "call" ELSE "done"
      BY <1>1, <2>1 DEF ReceiveReconcile
    <3>. QED
      BY <3>1
  <2>2. CASE ReconcileReceipt(h)
    <3>1. read[h] \in RECONCILABLE_STATES
      BY <2>2 DEF ReconcileReceipt, Answered, At, GivesUpInv
    <3>2. /\ read' = read /\ answer' = answer /\ answer[h] # NoAnswer
          /\ pc'[h] = CASE read[h] = "REMEDIATION_FAILED" -> "verifying"
                        [] read[h] # "REMEDIATION_FAILED" /\ Landed(answer[h]) -> "executed"
                        [] read[h] # "REMEDIATION_FAILED" /\ ~Landed(answer[h]) ->
                             IF answer[h].kind = "CONFLICT_RETRYABLE" \/ MayStillLand(answer[h])
                             THEN "done" ELSE "give_up"
      BY <1>1, <2>2 DEF ReconcileReceipt, Answered, Locally, execution
    <3>3. pc'[h] = "give_up" => GaveUp(h)
      BY <3>1, <3>2 DEF GaveUp, RECONCILABLE_STATES
    <3>4. pc'[h] \in {"verifying", "executed", "done", "give_up"}
      BY <3>2
    <3>. QED
      BY <3>2, <3>3, <3>4 DEF GaveUp
  <2>3. CASE ReconcileUnanswered(h) \/ CheckApproval(h) \/ Decide(h) \/ CloseUnapproved(h)
                \/ ReceiveResume(h)
    BY <1>1, <1>2, <2>3 DEF ReconcileUnanswered, CheckApproval, Decide, CloseUnapproved,
                            ReceiveResume
  <2>. QED
    BY <1>6, <2>1, <2>2, <2>3 DEF Receives
<1>7. Failing(h) => Elsewhere
  <2>1. BeginFailure(h) \/ SettleFailure(h) \/ Escalate(h) =>
          \E step \in {"settle", "save", "walk", "escalate"} : pc' = [pc EXCEPT ![h] = step]
    BY DEF BeginFailure, SettleFailure, Escalate, Depart, Goto
  <2>2. WalkFailure(h) \/ SaveHandover(h) =>
          \E step \in {"save", "walk", "done", "fail"} : pc' = [pc EXCEPT ![h] = step]
    BY DEF WalkFailure, SaveHandover, Raise, Fail, Report, Goto
  <2>. QED
    BY <1>1, <2>1, <2>2 DEF Failing
<1>8. WriteRaises(h) \/ Crash(h) => Elsewhere
  BY <1>2 DEF WriteRaises, Crash
<1>9. pc[h] = "call" => read[h] \in RECONCILABLE_STATES
  BY DEF GivesUpInv
<1>. HIDE DEF Elsewhere
<1>10. Hop(h) \/ Opens(h) \/ Calls(h) \/ Verify(h) \/ Terminalize(h) \/ Receives(h)
         \/ Failing(h) \/ WriteRaises(h) \/ Crash(h)
  BY <1>1, HandlerCases
<1>. QED
  BY <1>3, <1>4, <1>5, <1>6, <1>7, <1>8, <1>9, <1>10 DEF Elsewhere

(* A handler's walk is chosen to close last, and goes on so.               *)
LEMMA HandlersCloseLast ==
  ASSUME TypeInv, GivesUpInv, NEW h \in Handlers, HandlerStep(h) \/ WriteRaises(h) \/ Crash(h)
  PROVE  ClosesLast(route'[h])
<1>1. /\ route \in [Handlers -> Seq(RestingStatuses)] /\ ClosesLast(route[h])
      /\ status \in Statuses
  BY DEF TypeInv, LocalTyped, IncidentTyped, GivesUpInv
<1>2. /\ \A step : Goto(h, step) => route' = route
      /\ \A category, step : Report(h, category, step) => route' = route
      /\ Raise(h) => route' = route
  BY DEF Goto, Report, Raise, Fail
<1>3. ASSUME NEW target \in RestingStatuses, Depart(h, target) PROVE ClosesLast(route'[h])
  <2>1. route'[h] = Routes[target][status]
    BY <1>1, <1>3 DEF Depart
  <2>. QED
    BY <1>1, <2>1, RoutesCloseLast
<1>4. ASSUME Failing(h) PROVE ClosesLast(route'[h])
  <2>1. "ESCALATED" \in RestingStatuses /\ RestingStatus(cat[h]) \in RestingStatuses
    BY DEF RestingStatus, RestingStatuses, RECONCILABLE_STATES
  <2>2. BeginFailure(h) \/ SettleFailure(h) \/ Escalate(h) \/ SaveHandover(h)
          => route' = route \/ ClosesLast(route'[h])
    BY <1>2, <1>3, <2>1 DEF BeginFailure, SettleFailure, Escalate, SaveHandover
  <2>3. CASE WalkFailure(h)
    <3>1. route[h] # <<>> /\ route[h] \in Seq(RestingStatuses)
      BY <1>1, <2>3 DEF WalkFailure, At, TypeInv, LocalTyped
    <3>2. route' = route \/ route'[h] = Tail(route[h])
      BY <1>1, <1>2, <2>3 DEF WalkFailure
    <3>. QED
      BY <1>1, <3>1, <3>2, WalksCloseLast
  <2>. QED
    BY <1>1, <1>4, <2>2, <2>3 DEF Failing
<1>5. Hop(h) \/ Opens(h) \/ Calls(h) \/ Verify(h) \/ Terminalize(h) \/ WriteRaises(h) \/ Crash(h)
        => route' = route
  <2>1. ReadReceipt(h) => route' = route
    BY DEF ReadReceipt
  <2>. QED
    BY <1>2, <2>1 DEF Hop, Transition, Opens, Screen, Consult, Investigate, SaveDecision,
         CreateApproval, AttachApproval, Calls, CallExecutor, UnreadableReceipt,
         ExecutorUnreachable, Verify, Terminalize, WriteRaises, Crash, Fail
<1>6. Receives(h) => route' = route
  <2>1. ReceiveResume(h) \/ ReceiveReconcile(h) \/ ReconcileReceipt(h) => route' = route
    BY DEF ReceiveResume, ReceiveReconcile, ReconcileReceipt
  <2>. QED
    BY <1>2, <2>1 DEF Receives, CheckApproval, Decide, CloseUnapproved, ReconcileUnanswered
<1>. QED
  BY <1>1, <1>4, <1>5, <1>6, HandlerCases

(* How reconciles give up is kept by every step.                           *)
LEMMA NextGivesUp ==
  ASSUME TypeInv, CallsOnceInv, RunsInv, GivesUpInv, [Next]_vars
  PROVE  GivesUpInv'
<1>1. ASSUME NEW h \in Handlers, HandlerStep(h) \/ WriteRaises(h) \/ Crash(h)
      PROVE  GivesUpInv'
  <2>1. ASSUME NEW g \in Handlers PROVE ClosesLast(route[g])'
    <3>1. CASE g = h
      <4>1. ClosesLast(route'[h])
        BY <1>1, HandlersCloseLast
      <4>. QED
        BY <3>1, <4>1 DEF ClosesLast
    <3>2. CASE g # h
      <4>1. route'[g] = route[g] /\ ClosesLast(route[g])
        BY <1>1, <3>2, OthersStay DEF GivesUpInv
      <4>. QED
        BY <4>1 DEF ClosesLast
    <3>. QED
      BY <3>1, <3>2
  <2>2. ASSUME NEW c \in Reconciles
        PROVE  /\ pc'[c] \in {"call", "wait"} => read'[c] \in RECONCILABLE_STATES
               /\ pc'[c] = "give_up" => GaveUp(c)'
    <3>1. CASE c = h
      BY <1>1, <2>2, <3>1, ReconcilesGiveUp
    <3>2. CASE c # h
      <4>1. c \in Handlers
        BY DEF Handlers
      <4>2. pc'[c] = pc[c] /\ read'[c] = read[c]
        BY <1>1, <3>2, <4>1, OthersStay, ReadOnce
      <4>. QED
        BY <2>2, <4>2, GivenUpForGood DEF GivesUpInv
    <3>. QED
      BY <3>1, <3>2
  <2>. QED
    BY <2>1, <2>2 DEF GivesUpInv
<1>2. ASSUME \/ UNCHANGED vars
             \/ \E c \in Callers : ExecutorStep(c) \/ ExecutionDies(c) \/ CloudRunStep(c)
             \/ Environment
      PROVE  GivesUpInv'
  <2>1. UNCHANGED <<pc, route, read>>
    BY <1>2, OutsideStays DEF local
  <2>2. \A h \in Handlers : ClosesLast(route[h])'
    BY <2>1 DEF GivesUpInv, ClosesLast
  <2>3. \A c \in Reconciles :
          /\ pc'[c] \in {"call", "wait"} => read'[c] \in RECONCILABLE_STATES
          /\ pc'[c] = "give_up" => GaveUp(c)'
    BY <2>1, GivenUpForGood DEF GivesUpInv
  <2>. QED
    BY <2>2, <2>3 DEF GivesUpInv
<1>. QED
  BY <1>1, <1>2 DEF Next

(* A handover is never withdrawn, and a handler at its save saves or stops.*)
LEMMA HandoversStand ==
  ASSUME TypeInv, NEW h \in Handlers, HandlerStep(h) \/ WriteRaises(h) \/ Crash(h)
  PROVE  /\ handover # NoHandover => handover' # NoHandover
         /\ pc[h] = "save" => handover' # NoHandover \/ pc'[h] = "lost"
         /\ pc[h] # "lost"
<1>1. pc \in [Handlers -> Steps] /\ changed[h] \in Beliefs
  BY DEF TypeInv, LocalTyped
<1>2. SaveHandover(h) => handover' # NoHandover
  <2>1. Mutated(h) \in {"unknown", "yes"}
    BY <1>1 DEF Mutated, Beliefs
  <2>2. Package(cat[h], Mutated(h)).changed # "no" /\ NoHandover.changed = "no"
    BY <2>1 DEF Package, NoHandover
  <2>. QED
    BY <2>2 DEF SaveHandover
<1>3. /\ Hop(h) => handover' = handover /\ pc[h] \notin {"save", "lost"}
      /\ Opens(h) => handover' = handover /\ pc[h] \notin {"save", "lost"}
  <2>1. Hop(h) => handover' = handover /\ pc[h] \notin {"save", "lost"}
    BY DEF Hop, Hops, Transition, At
  <2>2. Opens(h) => handover' = handover /\ pc[h] \notin {"save", "lost"}
    BY DEF Opens, Screen, Consult, Investigate, SaveDecision, CreateApproval, AttachApproval, At,
           Locally, incident
  <2>. QED
    BY <2>1, <2>2
<1>4. Calls(h) \/ Verify(h) \/ Terminalize(h)
        => handover' = handover /\ pc[h] \notin {"save", "lost"}
  BY DEF Calls, CallExecutor, ReadReceipt, UnreadableReceipt, ExecutorUnreachable, Verify,
         Terminalize, At, Answered, Locally, incident
<1>5. Receives(h) => handover' = handover /\ pc[h] \notin {"save", "lost"}
  BY DEF Receives, ReceiveResume, CheckApproval, Decide, CloseUnapproved, ReceiveReconcile,
         ReconcileReceipt, ReconcileUnanswered, At, Answered, Locally, incident
<1>6. BeginFailure(h) \/ SettleFailure(h) \/ Escalate(h) \/ WalkFailure(h)
        => handover' = handover /\ pc[h] \notin {"save", "lost"}
  BY DEF BeginFailure, SettleFailure, Escalate, WalkFailure, At, Locally, incident
<1>7. SaveHandover(h) => pc[h] = "save"
  BY DEF SaveHandover, At
<1>8. WriteRaises(h) \/ Crash(h)
        => /\ handover' = handover /\ pc[h] # "lost"
           /\ pc[h] = "save" => pc'[h] = "lost"
  BY <1>1 DEF WriteRaises, Crash, WriteSteps, UnguardedSteps, Goto, incident
<1>. QED
  BY <1>2, <1>3, <1>4, <1>5, <1>6, <1>7, <1>8, HandlerCases DEF Failing

(* Whoever closes the incident after the decision goes on to save its      *)
(* handover, or gave up.                                                   *)
LEMMA ClosersHandOver ==
  ASSUME TypeInv, DecisionInv, GivesUpInv, NEW h \in Handlers,
         HandlerStep(h) \/ WriteRaises(h) \/ Crash(h),
         status' = "ESCALATED", decision' # "none",
         status # "ESCALATED" \/ decision = "none"
  PROVE  pc'[h] = "save" \/ (h \in Reconciles /\ GaveUp(h))
<1>1. pc \in [Handlers -> Steps] /\ Serves(h, pc[h])
  BY DEF TypeInv, LocalTyped
<1>2. CASE Hop(h)
  <2>1. PICK hop \in Hops : Transition(h, hop[1], hop[2], hop[3])
    BY <1>2 DEF Hop
  <2>2. decision' = decision /\ pc[h] = hop[1] /\ (status' = status \/ status' = hop[2])
    BY <2>1 DEF Transition, At
  <2>3. hop[1] \in {"hand_off", "give_up"}
    BY <2>2 DEF Hops
  <2>4. hop[1] # "hand_off"
    <3>. SUFFICES ASSUME hop[1] = "hand_off" PROVE FALSE
      OBVIOUS
    <3>1. h = Workflow
      BY <1>1, <2>2 DEF Serves, ReportSteps
    <3>. QED
      BY <2>2, <3>1 DEF DecisionInv, BeforeDecision
  <2>. QED
    BY <1>1, <2>2, <2>3, <2>4 DEF Serves, GivesUpInv
<1>3. CASE Opens(h)
  <2>1. status' = status
    BY <1>3 DEF Opens, Screen, Consult, Investigate, SaveDecision, CreateApproval,
                AttachApproval, Locally, incident
  <2>2. decision = "none"
    BY <2>1
  <2>3. SaveDecision(h)
    BY <1>3, <2>2 DEF Opens, Screen, Consult, Investigate, CreateApproval, AttachApproval,
                      Locally, incident
  <2>4. pc[h] = "decide" /\ h = Workflow
    BY <1>1, <2>3 DEF SaveDecision, At, Serves, ReportSteps
  <2>. QED
    BY <2>1, <2>4 DEF DecisionInv, OpeningStatus
<1>4. CASE Failing(h)
  <2>1. decision' = decision
    BY <1>4 DEF Failing, BeginFailure, SettleFailure, Escalate, WalkFailure, SaveHandover,
                Locally, incident
  <2>2. WalkFailure(h)
    BY <1>4, <2>1 DEF Failing, BeginFailure, SettleFailure, Escalate, SaveHandover, Locally,
                      incident
  <2>3. route[h] \in Seq(RestingStatuses) /\ route[h] # <<>> /\ ClosesLast(route[h])
    BY <2>2 DEF WalkFailure, At, TypeInv, LocalTyped, GivesUpInv
  <2>4. /\ status' = Head(route[h])
        /\ pc' = [pc EXCEPT ![h] = IF Tail(route[h]) = <<>> THEN "save" ELSE "walk"]
    BY <2>1, <2>2 DEF WalkFailure
  <2>5. Tail(route[h]) = <<>>
    BY <2>3, <2>4, WalksCloseLast
  <2>. QED
    BY <1>1, <2>4, <2>5
<1>5. Calls(h) \/ Verify(h) \/ Terminalize(h) \/ WriteRaises(h) \/ Crash(h) \/ Receives(h)
        => UNCHANGED <<status, decision>>
  BY DEF Calls, CallExecutor, ReadReceipt, UnreadableReceipt, ExecutorUnreachable, Verify,
         Terminalize, WriteRaises, Crash, Receives, ReceiveResume, CheckApproval, Decide,
         CloseUnapproved, ReceiveReconcile, ReconcileReceipt, ReconcileUnanswered, Locally,
         incident
<1>. QED
  BY <1>2, <1>3, <1>4, <1>5, HandlerCases

(* HandedInv is kept by every step.                                        *)
LEMMA NextHands ==
  ASSUME TypeInv, DecisionInv, CallsOnceInv, RunsInv, GivesUpInv, HandedInv, [Next]_vars
  PROVE  HandedInv'
<1>1. ASSUME NEW c \in Reconciles, GaveUp(c) PROVE GaveUp(c)'
  BY <1>1, GivenUpForGood
<1>2. ASSUME NEW h \in Handlers, HandlerStep(h) \/ WriteRaises(h) \/ Crash(h)
      PROVE  HandedInv'
  <2>. SUFFICES ASSUME status' = "ESCALATED", decision' # "none"
                PROVE  \/ handover' # NoHandover
                       \/ \E g \in Handlers : pc'[g] \in {"save", "lost"}
                       \/ \E c \in Reconciles : GaveUp(c)'
    BY DEF HandedInv
  <2>1. CASE status # "ESCALATED" \/ decision = "none"
    <3>1. pc'[h] = "save" \/ (h \in Reconciles /\ GaveUp(h))
      BY <1>2, <2>1, ClosersHandOver
    <3>. QED
      BY <1>1, <3>1
  <2>2. CASE status = "ESCALATED" /\ decision # "none"
    <3>1. CASE handover # NoHandover
      BY <1>2, <3>1, HandoversStand
    <3>2. ASSUME NEW g \in Handlers, pc[g] \in {"save", "lost"}
          PROVE  handover' # NoHandover \/ pc'[g] \in {"save", "lost"}
      <4>1. CASE g = h
        BY <1>2, <3>2, <4>1, HandoversStand
      <4>2. CASE g # h
        BY <1>2, <3>2, <4>2, OthersStay
      <4>. QED
        BY <4>1, <4>2
    <3>. QED
      BY <1>1, <2>2, <3>1, <3>2 DEF HandedInv
  <2>. QED
    BY <2>1, <2>2
<1>3. ASSUME \/ UNCHANGED vars
             \/ \E c \in Callers : ExecutorStep(c) \/ ExecutionDies(c) \/ CloudRunStep(c)
             \/ Environment
      PROVE  HandedInv'
  <2>1. UNCHANGED <<status, decision, handover, pc>>
    BY <1>3, OutsideStays DEF local
  <2>. QED
    BY <1>1, <2>1 DEF HandedInv
<1>. QED
  BY <1>2, <1>3 DEF Next

(* Nothing is handed over, and nothing closed, in the beginning.           *)
LEMMA InitCloses == Init => ClosingInv
<1>. SUFFICES ASSUME Init PROVE ClosingInv
  OBVIOUS
<1>1. \A h \in Handlers : ClosesLast(route[h])
  <2>1. \A h \in Handlers : route[h] = <<>>
    BY DEF Init
  <2>2. ClosesLast(<<>>)
    BY DEF ClosesLast
  <2>. QED
    BY <2>1, <2>2
<1>2. \A c \in Reconciles : pc[c] = "idle"
  BY OrchestratorAssumption DEF Init, Handlers
<1>. QED
  BY <1>1, <1>2 DEF Init, ClosingInv, GivesUpInv, HandedInv

(* ClosingInv holds of every state.                                        *)
LEMMA ClosingInvariant == Spec => []ClosingInv
<1>. DEFINE Own == CallsOnceInv /\ RunsInv /\ OwnCallInv
<1>1. IInv /\ Own /\ ClosingInv /\ [Next]_vars => ClosingInv'
  BY NextGivesUp, NextHands DEF IInv, ClosingInv
<1>2. Spec => []Own
  BY OwnCallInvariant
<1>. HIDE DEF Own
<1>. QED
  BY <1>1, <1>2, InitCloses, Invariant, PTL DEF Spec

(* Once the policy has decided, nobody closes the incident unresolved      *)
(* without a handover, but a reconcile that gives an execution up          *)
(* (main.py 814-878, 1894-1901).                                           *)
THEOREM NobodyClosesSilently == Spec => []ClosedWithHandover
<1>1. ClosingInv => ClosedWithHandover
  <2>. SUFFICES ASSUME ClosingInv, Quiet, status = "ESCALATED", decision # "none"
                PROVE  handover # NoHandover \/ \E c \in Reconciles : GaveUp(c)
    BY DEF ClosedWithHandover
  <2>1. \A h \in Handlers : pc[h] \notin {"save", "lost"}
    BY DEF Quiet
  <2>. QED
    BY <2>1 DEF ClosingInv, HandedInv
<1>. QED
  BY <1>1, ClosingInvariant, PTL

-----------------------------------------------------------------------------
(* What is told of a change: that there was none, and that it was ours.    *)

(* From its execution on an incident stays here.                           *)
AfterEntry == {"EXECUTING", "EXECUTED", "EXECUTION_FAILED", "VERIFYING",
               "REMEDIATION_FAILED", "RESOLVED", "ESCALATED"}

Called(c) == pc[c] = "call" \/ run[c] # "none"

(* The workflow and its resumes call the executor once among them, and a   *)
(* reconcile calls it only after that call's handler wrote how it ended.   *)
EntryInv ==
  /\ \A c, d \in Callers \ Reconciles : Called(c) /\ Called(d) => c = d
  /\ \A c \in Callers : Called(c) => status \in AfterEntry
  /\ \A c \in Reconciles : Called(c) => status # "EXECUTING"

(* The change is on record as this automation's.                           *)
Ours == exec.state \in {"MUTATED", "VERIFIED"} /\ ~exec.predates

(* What a call's answer says of its write and of the record.               *)
SaysOurs(a) ==
  /\ ~a.predates
  /\ \/ a.kind = "RECONCILED"
     \/ a.kind = "DUPLICATE" /\ a.state \in {"MUTATED", "VERIFIED"}

AnswerInv ==
  \A c \in Callers :
    /\ answer[c].kind \in {"STALE", "UNHEALTHY"} => put[c] = "none"
    /\ answer[c].kind = "CONFLICT_RETRYABLE" => put[c] = "refused"
    /\ answer[c].kind = "MUTATED" => put[c] = "accepted"
    /\ SaysOurs(answer[c]) => Ours

(* A write stands behind a record of a change of ours.                     *)
Behind == \E c \in Callers : WriteStands(c)

RecordInv == Ours \/ exec.state = "MUTATION_REQUESTED" => Behind

(* No write of the workflow or of a resume is or will be applied.          *)
Untouched ==
  \/ decision \in {"none", "DENIED"} /\ pc[Workflow] \notin BeforeDecision
  \/ approval \in {"REJECTED", "EXPIRED"}
  \/ \E c \in Callers \ Reconciles :
       answer[c].kind \in {"STALE", "UNHEALTHY", "CONFLICT_RETRYABLE"}

(* A change was made, or is on record as ours: for good.                   *)
OursAtAll == Ours \/ \E c \in Callers : put[c] = "accepted"

TellsInv ==
  /\ \A h \in Handlers :
       /\ cat[h] \in NothingChanged => Untouched
       /\ changed[h] = "yes" => OursAtAll \/ (h \in Reconciles /\ InfersChange(h))
  /\ handover.category \in NothingChanged => Untouched
  /\ handover.changed = "yes" => OursAtAll \/ \E c \in Reconciles : InfersChange(c)

TalkInv == EntryInv /\ AnswerInv /\ RecordInv /\ TellsInv

(* What follows the beginning of an execution, and what comes before.      *)
LEMMA WaysAfterEntry ==
  /\ \A s \in AfterEntry, t \in Statuses : can_transition(s, t) => t \in AfterEntry \ {"EXECUTING"}
  /\ \A s \in Statuses : can_transition(s, "EXECUTING") => s \notin AfterEntry
  /\ RECONCILABLE_STATES \subseteq AfterEntry \ {"EXECUTING"}
  BY DEF can_transition, LEGAL_TRANSITIONS, Statuses, TERMINAL_STATES, AfterEntry,
         RECONCILABLE_STATES

(* A handler comes to its call by taking the incident to EXECUTING, or, as *)
(* a reconcile, by finding it where it may be reconciled.                  *)
LEMMA WaysToCall ==
  ASSUME TypeInv, NEW h \in Handlers,
         HandlerStep(h) \/ WriteRaises(h) \/ Crash(h), pc'[h] = "call"
  PROVE  /\ run' = run
         /\ \/ /\ h \notin Reconciles /\ status' = "EXECUTING"
               /\ can_transition(status, "EXECUTING")
            \/ h \in Reconciles /\ status \in RECONCILABLE_STATES /\ status' = status
<1>1. pc \in [Handlers -> Steps] /\ Serves(h, pc[h])
  BY DEF TypeInv, LocalTyped
<1>2. /\ \A step : Goto(h, step) => pc'[h] = step
      /\ \A category, step : Report(h, category, step) => pc'[h] = step
      /\ Raise(h) => pc'[h] \in {"done", "fail"}
  BY <1>1 DEF Goto, Report, Raise, Fail
<1>3. CASE Hop(h)
  <2>1. PICK hop \in Hops : Transition(h, hop[1], hop[2], hop[3])
    BY <1>3 DEF Hop
  <2>2. can_transition(status, hop[2]) /\ status' = hop[2] /\ hop[3] = "call" /\ run' = run
        /\ pc[h] = hop[1]
    BY <1>2, <2>1 DEF Transition, execution, At
  <2>3. hop[1] = "enter" /\ hop[2] = "EXECUTING"
    BY <2>2 DEF Hops
  <2>. QED
    BY <1>1, <2>2, <2>3 DEF Serves, PipelineSteps
<1>4. <<pc[h], "call">> \in Forward
  BY WaysForward DEF BeforeCall
<1>5. pc[h] \in {"enter", "idle"}
  BY <1>4 DEF Forward
<1>6. ~Failing(h) /\ ~Opens(h) /\ ~Verify(h) /\ ~Terminalize(h) /\ ~Calls(h)
  BY <1>5 DEF Failing, BeginFailure, SettleFailure, Escalate, WalkFailure, SaveHandover, Opens,
     Screen, Consult, Investigate, SaveDecision, CreateApproval, AttachApproval, Verify,
     Terminalize, Calls, CallExecutor, ReadReceipt, UnreadableReceipt, ExecutorUnreachable,
     Answered, At
<1>7. ~(WriteRaises(h) \/ Crash(h))
  BY <1>2 DEF WriteRaises, Crash
<1>8. CASE Receives(h)
  <2>1. ReceiveResume(h) => pc'[h] = "check"
    BY <1>1 DEF ReceiveResume
  <2>2. ~(CheckApproval(h) \/ CloseUnapproved(h) \/ ReconcileReceipt(h) \/ ReconcileUnanswered(h))
    BY <1>5 DEF CheckApproval, CloseUnapproved, ReconcileReceipt, ReconcileUnanswered, Answered, At
  <2>3. ~Decide(h)
    BY <1>2 DEF Decide
  <2>4. ReceiveReconcile(h)
    BY <1>8, <2>1, <2>2, <2>3 DEF Receives
  <2>5. pc' = [pc EXCEPT ![h] = IF status \in RECONCILABLE_STATES /\ decision # "none"
                                THEN "call" ELSE "done"]
    BY <2>4 DEF ReceiveReconcile
  <2>6. status \in RECONCILABLE_STATES
    BY <1>1, <2>5
  <2>. QED
    BY <2>4, <2>6 DEF ReceiveReconcile, Locally, incident, execution
<1>. QED
  BY <1>3, <1>6, <1>7, <1>8, HandlerCases

(* EntryInv is kept by every step.                                         *)
LEMMA NextEntry ==
  ASSUME TypeInv, CallsOnceInv, EntryInv, [Next]_vars
  PROVE  EntryInv'
<1>1. status \in Statuses /\ status' \in Statuses /\ pc \in [Handlers -> Steps]
      /\ run \in [Callers -> RunStates] /\ Callers \subseteq Handlers /\ Reconciles \subseteq Callers
  BY NextTyped, OrchestratorAssumption
  DEF TypeInv, IncidentTyped, ExecutionTyped, LocalTyped, Callers, Handlers
<1>2. status \in AfterEntry => /\ status' \in AfterEntry
                               /\ status # "EXECUTING" => status' # "EXECUTING"
  BY <1>1, LegalStep, WaysAfterEntry
<1>3. ASSUME \A c \in Callers : Called(c)' => Called(c) PROVE EntryInv'
  BY <1>1, <1>2, <1>3 DEF EntryInv
<1>4. ASSUME NEW h \in Handlers, HandlerStep(h) \/ WriteRaises(h) \/ Crash(h)
      PROVE  EntryInv'
  <2>1. \A g \in Handlers \ {h} : pc'[g] = pc[g]
    BY <1>4, OthersStay
  <2>2. CASE pc'[h] # "call"
    <3>1. \/ run' = run
          \/ h \in Callers /\ pc[h] = "call" /\ run' = [run EXCEPT ![h] = "called"]
      BY <1>4, HandlersCall
    <3>2. \A c \in Callers : Called(c)' => Called(c)
      BY <1>1, <2>1, <2>2, <3>1 DEF Called
    <3>. QED
      BY <1>3, <3>2
  <2>3. CASE pc'[h] = "call"
    <3>1. run' = run
      BY <1>4, <2>3, WaysToCall
    <3>2. \A c \in Callers \ {h} : Called(c)' <=> Called(c)
      BY <1>1, <2>1, <3>1 DEF Called
    <3>3. CASE h \notin Reconciles /\ status' = "EXECUTING" /\ can_transition(status, "EXECUTING")
      <4>1. \A c \in Callers : ~Called(c)
        BY <1>1, <3>3, WaysAfterEntry DEF EntryInv
      <4>. QED
        BY <1>1, <3>2, <3>3, <4>1 DEF EntryInv, AfterEntry
    <3>4. CASE h \in Reconciles /\ status \in RECONCILABLE_STATES /\ status' = status
      <4>1. status' \in AfterEntry /\ status' # "EXECUTING"
        BY <3>4, WaysAfterEntry
      <4>. QED
        BY <1>1, <3>2, <3>4, <4>1 DEF EntryInv
    <3>. QED
      BY <1>4, <2>3, <3>3, <3>4, WaysToCall
  <2>. QED
    BY <2>2, <2>3
<1>5. ASSUME \/ UNCHANGED vars
             \/ \E c \in Callers : ExecutorStep(c) \/ ExecutionDies(c) \/ CloudRunStep(c)
             \/ Environment
      PROVE  EntryInv'
  <2>1. pc' = pc /\ \A c \in Callers : run[c] = "none" => run'[c] = "none"
    BY <1>5, OutsideStays DEF local
  <2>2. \A c \in Callers : Called(c)' => Called(c)
    BY <2>1 DEF Called
  <2>. QED
    BY <1>3, <2>2
<1>. QED
  BY <1>4, <1>5 DEF Next

(* What an execution answers, and when.                                    *)
LEMMA ExecutorTells ==
  ASSUME TypeInv, RunsInv, NEW c \in Callers, ExecutorStep(c)
  PROVE  /\ answer'[c].kind \in {"STALE", "UNHEALTHY"} => put'[c] = "none"
         /\ answer'[c].kind = "CONFLICT_RETRYABLE" =>
              put'[c] = "refused" /\ exec'.state = "PRECONDITION_CHECKED"
         /\ answer'[c].kind = "MUTATED" => put'[c] = "accepted"
         /\ answer'[c].kind = "RECONCILED" =>
              exec'.state = "MUTATED" /\ answer'[c].predates = exec'.predates
         /\ answer'[c].kind = "DUPLICATE" =>
              /\ exec' = exec
              /\ answer'[c].state = exec.state /\ answer'[c].predates = exec.predates
<1>. DEFINE Telling ==
         /\ answer'[c].kind \in {"STALE", "UNHEALTHY"} => put'[c] = "none"
         /\ answer'[c].kind = "CONFLICT_RETRYABLE" =>
              put'[c] = "refused" /\ exec'.state = "PRECONDITION_CHECKED"
         /\ answer'[c].kind = "MUTATED" => put'[c] = "accepted"
         /\ answer'[c].kind = "RECONCILED" =>
              exec'.state = "MUTATED" /\ answer'[c].predates = exec'.predates
         /\ answer'[c].kind = "DUPLICATE" =>
              /\ exec' = exec
              /\ answer'[c].state = exec.state /\ answer'[c].predates = exec.predates
<1>. SUFFICES Telling
  OBVIOUS
<1>1. /\ run \in [Callers -> RunStates] /\ put \in [Callers -> PutStates]
      /\ answer \in [Callers -> Answers]
  BY DEF TypeInv, ExecutionTyped
<1>2. run[c] \in {"called", "observe", "reread", "request", "await"} /\ answer[c].kind = "none"
  BY DEF ExecutorStep, Acquire, Observe, RereadIncident, RequestMutation, Conclude, RunsInv,
         NoAnswer
<1>3. \A kind : Reply(c, kind) => /\ answer'[c].kind = kind
                                  /\ answer'[c].state = exec'.state
                                  /\ answer'[c].predates = exec'.predates
  BY <1>1 DEF Reply
<1>4. answer' = answer => Telling
  BY <1>2
<1>5. /\ Reply(c, "REFUSED") => Telling
      /\ Reply(c, "DID_NOT_HOLD") => Telling
      /\ Reply(c, "CONFLICT") => Telling
      /\ Reply(c, "OUTCOME_UNKNOWN") => Telling
  BY <1>3
<1>6. CASE Acquire(c)
  <2>1. CASE Reply(c, "DUPLICATE") /\ exec' = exec
    BY <1>3, <2>1
  <2>. QED
    BY <1>4, <1>5, <1>6, <2>1 DEF Acquire
<1>7. CASE Observe(c)
  <2>1. put' = put /\ put[c] = "none"
    BY <1>7 DEF Observe, RunsInv
  <2>2. Reply(c, "STALE") \/ Reply(c, "UNHEALTHY") => Telling
    BY <1>3, <2>1
  <2>3. CASE /\ exec' = Store!AdvancedRecord(exec, "MUTATED", seen[c].predates \/ ~Attempted(c))
             /\ Reply(c, "RECONCILED")
    <3>1. exec'.state = "MUTATED"
      BY <2>3, AdvanceWrites
    <3>. QED
      BY <1>3, <2>3, <3>1
  <2>. HIDE DEF Telling
  <2>. QED
    BY <1>4, <1>5, <1>7, <2>2, <2>3, Zenon DEF Observe
<1>8. CASE RereadIncident(c) \/ RequestMutation(c)
  <2>. HIDE DEF Telling
  <2>. QED
    BY <1>4, <1>5, <1>8 DEF RereadIncident, RequestMutation
<1>9. CASE Conclude(c)
  <2>1. put' = put
    BY <1>9 DEF Conclude
  <2>2. put[c] = "accepted" /\ Reply(c, "MUTATED") => Telling
    BY <1>3, <2>1
  <2>3. CASE /\ put[c] = "refused" /\ Reply(c, "CONFLICT_RETRYABLE")
             /\ exec' = Store!LapsedRecord(Store!AdvancedRecord(exec, "PRECONDITION_CHECKED",
                                                                exec.predates))
    <3>. DEFINE back == Store!AdvancedRecord(exec, "PRECONDITION_CHECKED", exec.predates)
    <3>1. back.state = "PRECONDITION_CHECKED" /\ exec' = Store!LapsedRecord(back)
      BY <2>3, AdvanceWrites
    <3>. HIDE DEF back
    <3>2. exec'.state = "PRECONDITION_CHECKED"
      BY <3>1, StoreWrites
    <3>. QED
      BY <1>3, <2>1, <2>3, <3>2
  <2>. HIDE DEF Telling
  <2>. QED
    BY <1>5, <1>9, <2>2, <2>3, Zenon DEF Conclude
<1>. QED
  BY <1>6, <1>7, <1>8, <1>9 DEF ExecutorStep

(* An answer is an execution's; a write is kept once its execution ended.  *)
LEMMA AnswersCome ==
  ASSUME TypeInv, RunsInv, [Next]_vars, NEW c \in Callers
  PROVE  /\ answer'[c] = answer[c] \/ ExecutorStep(c)
         /\ ~ExecutorStep(c) =>
              \/ put'[c] = put[c]
              \/ put[c] = "inflight" /\ put'[c] \in {"accepted", "refused", "lost"}
<1>1. answer \in [Callers -> Answers] /\ put \in [Callers -> PutStates]
  BY DEF TypeInv, ExecutionTyped
<1>2. ASSUME NEW h \in Handlers, HandlerStep(h) \/ WriteRaises(h) \/ Crash(h)
      PROVE  answer' = answer /\ put' = put
  BY <1>2, OthersStay
<1>3. ASSUME NEW d \in Callers \ {c}, ExecutorStep(d)
      PROVE  answer'[c] = answer[c] /\ put'[c] = put[c]
  BY <1>1, <1>3, ExecutorWrites DEF Reply
<1>4. ASSUME NEW d \in Callers, ExecutionDies(d) \/ CloudRunStep(d)
      PROVE  /\ answer' = answer
             /\ \/ put'[c] = put[c]
                \/ put[c] = "inflight" /\ put'[c] \in {"accepted", "refused", "lost"}
  BY <1>1, <1>4 DEF ExecutionDies, CloudRunStep, PutSettles
<1>5. ASSUME UNCHANGED vars \/ Environment PROVE answer' = answer /\ put' = put
  BY <1>5 DEF vars, execution, Environment, MigrateTraffic, LeaseLapses, ApprovalLapses,
              OperatorChange
<1>. QED
  BY <1>2, <1>3, <1>4, <1>5 DEF Next

(* The record keeps what it says, outside an execution and a closure.      *)
LEMMA RecordStays ==
  ASSUME TypeInv, WriteInv, [Next]_vars
  PROVE  \/ Keeps
         \/ exec.state = "MUTATED" /\ Says("VERIFIED")
         \/ \E c \in Callers : Takes(c) \/ Checks(c) \/ Confirms(c) \/ Requests(c) \/ Concludes(c)
<1>1. ASSUME NEW h \in Handlers, HandlerStep(h) \/ WriteRaises(h) \/ Crash(h)
      PROVE  Keeps \/ (exec.state = "MUTATED" /\ Says("VERIFIED"))
  BY <1>1, HandlersClose DEF Keeps
<1>2. ASSUME NEW c \in Callers, ExecutorStep(c)
      PROVE  Keeps \/ Takes(c) \/ Checks(c) \/ Confirms(c) \/ Requests(c) \/ Concludes(c)
  BY <1>2, ExecutorSays DEF KeepsAll
<1>3. ASSUME \/ \E c \in Callers : ExecutionDies(c) \/ CloudRunStep(c)
             \/ Environment \/ UNCHANGED vars
      PROVE  Keeps
  <2>1. exec' = exec \/ exec' = Store!LapsedRecord(exec)
    BY <1>3 DEF ExecutionDies, CloudRunStep, PutSettles, Environment, MigrateTraffic, LeaseLapses,
                ApprovalLapses, OperatorChange, vars, execution
  <2>. QED
    BY <2>1, StoreWrites DEF Keeps
<1>. QED
  BY <1>1, <1>2, <1>3 DEF Next

(* What is on record as ours stays so.                                     *)
LEMMA OursForGood ==
  ASSUME TypeInv, WriteInv, [Next]_vars, Ours
  PROVE  Ours'
<1>1. exec.predates \in BOOLEAN
  BY StoreKeepsRecords DEF TypeInv, ExecutionTyped
<1>2. CASE Keeps \/ (exec.state = "MUTATED" /\ Says("VERIFIED"))
  BY <1>2 DEF Keeps, Says, Ours
<1>3. ASSUME NEW c \in Callers,
             Takes(c) \/ Checks(c) \/ Confirms(c) \/ Requests(c) \/ Concludes(c)
      PROVE  Ours'
  BY <1>1, <1>3 DEF Takes, Checks, Confirms, Requests, Concludes, Ours, PreMutation
<1>. QED
  BY <1>2, <1>3, RecordStays

(* AnswerInv is kept by every step.                                        *)
LEMMA NextAnswers ==
  ASSUME TypeInv, CallsOnceInv, RunsInv, WriteInv, AnswerInv, [Next]_vars
  PROVE  AnswerInv'
<1>. SUFFICES ASSUME NEW c \in Callers
              PROVE  /\ answer'[c].kind \in {"STALE", "UNHEALTHY"} => put'[c] = "none"
                     /\ answer'[c].kind = "CONFLICT_RETRYABLE" => put'[c] = "refused"
                     /\ answer'[c].kind = "MUTATED" => put'[c] = "accepted"
                     /\ SaysOurs(answer'[c]) => Ours'
  BY DEF AnswerInv, SaysOurs
<1>1. CASE answer[c] # NoAnswer
  <2>1. answer'[c] = answer[c] /\ run[c] = "ended"
    BY <1>1, AnswersStand
  <2>2. ~ExecutorStep(c)
    BY <2>1, ExecutionLeaves
  <2>3. put[c] = "inflight" \/ put'[c] = put[c]
    BY <2>2, AnswersCome
  <2>4. SaysOurs(answer[c]) => Ours'
    BY OursForGood DEF AnswerInv
  <2>. QED
    BY <2>1, <2>3, <2>4 DEF AnswerInv
<1>2. CASE answer'[c] = answer[c] /\ answer[c] = NoAnswer
  BY <1>2 DEF NoAnswer, SaysOurs
<1>3. CASE ExecutorStep(c)
  <2>1. answer'[c].kind = "RECONCILED" /\ ~answer'[c].predates => Ours'
    BY <1>3, ExecutorTells DEF Ours
  <2>2. answer'[c].kind = "DUPLICATE" /\ ~answer'[c].predates
          /\ answer'[c].state \in {"MUTATED", "VERIFIED"} => Ours'
    <3>1. answer'[c].kind = "DUPLICATE" =>
            answer'[c].state = exec'.state /\ answer'[c].predates = exec'.predates
      BY <1>3, ExecutorTells
    <3>. SUFFICES ASSUME answer'[c].kind = "DUPLICATE", ~answer'[c].predates,
                         answer'[c].state \in {"MUTATED", "VERIFIED"}
                  PROVE  Ours'
      OBVIOUS
    <3>2. exec'.state \in {"MUTATED", "VERIFIED"}
      BY <3>1
    <3>3. ~exec'.predates
      BY <3>1, Zenon
    <3>. QED
      BY <3>2, <3>3 DEF Ours
  <2>. QED
    BY <1>3, <2>1, <2>2, ExecutorTells DEF SaysOurs
<1>. QED
  BY <1>1, <1>2, <1>3, AnswersCome

(* A write stands unless what follows Google's refusal takes it back.      *)
LEMMA StandsForGood ==
  ASSUME TypeInv, CallsOnceInv, RunsInv, AnswerInv, [Next]_vars, NEW c \in Callers, WriteStands(c)
  PROVE  WriteStands(c)' \/ exec'.state = "PRECONDITION_CHECKED"
<1>1. put \in [Callers -> PutStates] /\ put[c] # "none"
  BY DEF WriteStands, TypeInv, ExecutionTyped
<1>2. CASE ExecutorStep(c)
  <2>1. put'[c] = put[c] \/ put'[c] = "inflight"
    BY <1>1, <1>2, ExecutorWrites
  <2>2. answer'[c].kind # "CONFLICT_RETRYABLE" \/ exec'.state = "PRECONDITION_CHECKED"
    BY <1>2, ExecutorTells
  <2>. QED
    BY <2>1, <2>2 DEF WriteStands
<1>3. CASE ~ExecutorStep(c)
  <2>1. answer'[c] = answer[c]
        /\ \/ put'[c] = put[c]
           \/ put[c] = "inflight" /\ put'[c] \in {"accepted", "refused", "lost"}
    BY <1>3, AnswersCome
  <2>2. put[c] = "inflight" => answer[c].kind # "CONFLICT_RETRYABLE"
    BY DEF AnswerInv
  <2>. QED
    BY <2>1, <2>2 DEF WriteStands
<1>. QED
  BY <1>2, <1>3

(* RecordInv is kept by every step.                                        *)
LEMMA NextRecord ==
  ASSUME TypeInv, CallsOnceInv, RunsInv, WriteInv, AnswerInv, RecordInv, [Next]_vars
  PROVE  RecordInv'
<1>. SUFFICES ASSUME Ours' \/ exec'.state = "MUTATION_REQUESTED" PROVE Behind'
  BY DEF RecordInv
<1>1. exec.predates \in BOOLEAN /\ put \in [Callers -> PutStates]
  BY StoreKeepsRecords DEF TypeInv, ExecutionTyped
<1>2. CASE Ours \/ exec.state = "MUTATION_REQUESTED"
  <2>1. PICK c \in Callers : WriteStands(c)
    BY <1>2 DEF RecordInv, Behind
  <2>2. exec'.state # "PRECONDITION_CHECKED"
    BY DEF Ours
  <2>3. WriteStands(c)'
    BY <2>1, <2>2, StandsForGood
  <2>. QED
    BY <2>3 DEF Behind
<1>3. CASE ~Ours /\ exec.state # "MUTATION_REQUESTED"
  <2>1. ~Keeps /\ ~(exec.state = "MUTATED" /\ Says("VERIFIED"))
    BY <1>3 DEF Keeps, Says, Ours
  <2>2. ASSUME NEW c \in Callers, Takes(c) \/ Checks(c) \/ Confirms(c) \/ Concludes(c)
        PROVE  FALSE
    BY <1>1, <1>3, <2>2 DEF Takes, Checks, Confirms, Concludes, Ours, PreMutation
  <2>3. ASSUME NEW c \in Callers, Requests(c) PROVE Behind'
    <3>1. put'[c] = "inflight"
      BY <1>1, <2>3 DEF Requests
    <3>. QED
      BY <3>1 DEF Behind, WriteStands
  <2>. QED
    BY <2>1, <2>2, <2>3, RecordStays
<1>. QED
  BY <1>2, <1>3

(* What was concluded of the workflow and the resumes goes on being so.    *)
LEMMA UntouchedForGood ==
  ASSUME TypeInv, DecisionInv, CallsOnceInv, RunsInv, [Next]_vars, Untouched
  PROVE  Untouched'
<1>1. CASE decision \in {"none", "DENIED"} /\ pc[Workflow] \notin BeforeDecision
  <2>1. decision' = decision
    <3>1. ASSUME NEW h \in Handlers, HandlerStep(h) \/ WriteRaises(h) \/ Crash(h)
          PROVE  decision' = decision
      <4>1. ~Opens(h)
        <5>1. Opens(h) => pc[h] \in ReportSteps /\ Serves(h, pc[h])
          BY DEF Opens, Screen, Consult, Investigate, SaveDecision, CreateApproval,
                 AttachApproval, At, ReportSteps, TypeInv, LocalTyped
        <5>2. Opens(h) => h = Workflow /\ pc[h] \in BeforeDecision \cup {"ask", "attach"}
          BY <5>1, ServesNext DEF Opens, Screen, Consult, Investigate, SaveDecision,
                 CreateApproval, AttachApproval, At, BeforeDecision
        <5>. QED
          BY <1>1, <5>2 DEF DecisionInv
      <4>2. Hop(h) \/ Calls(h) \/ Verify(h) \/ Terminalize(h) \/ WriteRaises(h) \/ Crash(h)
              => decision' = decision
        BY DEF Hop, Transition, Calls, CallExecutor, ReadReceipt, UnreadableReceipt,
               ExecutorUnreachable, Verify, Terminalize, WriteRaises, Crash, Locally, incident
      <4>3. Failing(h) \/ Receives(h) => decision' = decision
        BY DEF Failing, BeginFailure, SettleFailure, Escalate, WalkFailure, SaveHandover, Locally,
               Receives, ReceiveResume, CheckApproval, Decide, CloseUnapproved,
               ReceiveReconcile, ReconcileReceipt, ReconcileUnanswered, incident
      <4>. QED
        BY <3>1, <4>1, <4>2, <4>3, HandlerCases
    <3>. QED
      BY <3>1, OutsideStays DEF Next
  <2>2. pc'[Workflow] \notin BeforeDecision
    <3>1. pc[Workflow] \in {"deny"} \cup FailureSteps \cup EndSteps
      BY <1>1 DEF DecisionInv
    <3>2. ASSUME NEW h \in Handlers, HandlerStep(h) \/ WriteRaises(h) \/ Crash(h), h # Workflow
          PROVE  pc'[Workflow] = pc[Workflow]
      BY <3>2, OthersStay DEF Handlers
    <3>3. ASSUME HandlerStep(Workflow) \/ WriteRaises(Workflow) \/ Crash(Workflow)
          PROVE  pc'[Workflow] \notin BeforeDecision
      <4>. USE DEF BeforeDecision
      <4>1. pc \in [Handlers -> Steps] /\ Workflow \in Handlers
        BY DEF TypeInv, LocalTyped, Handlers
      <4>2. /\ \A step : Goto(Workflow, step) => pc'[Workflow] = step
            /\ \A category, step : Report(Workflow, category, step) => pc'[Workflow] = step
            /\ Raise(Workflow) => pc'[Workflow] \in {"done", "fail"}
        BY <4>1 DEF Goto, Report, Raise, Fail
      <4>3. CASE Hop(Workflow)
        <5>1. PICK hop \in Hops : Transition(Workflow, hop[1], hop[2], hop[3])
          BY <4>3 DEF Hop
        <5>2. pc'[Workflow] \in {"done", "fail", hop[3]} /\ pc[Workflow] = hop[1]
          BY <4>2, <5>1 DEF Transition, At
        <5>. QED
          BY <3>1, <5>2 DEF Hops, FailureSteps, EndSteps
      <4>4. CASE Failing(Workflow)
        <5>1. \A target : Depart(Workflow, target) => pc'[Workflow] \in {"save", "walk"}
          BY <4>1 DEF Depart
        <5>2. BeginFailure(Workflow) \/ SettleFailure(Workflow) \/ Escalate(Workflow)
                \/ SaveHandover(Workflow) => pc'[Workflow] \notin BeforeDecision
          BY <4>2, <5>1 DEF BeginFailure, SettleFailure, Escalate, SaveHandover
        <5>3. WalkFailure(Workflow) => pc'[Workflow] \in {"save", "walk", "done", "fail"}
          BY <4>1, <4>2 DEF WalkFailure
        <5>. QED
          BY <4>4, <5>2, <5>3 DEF Failing
      <4>5. ~(Opens(Workflow) \/ Calls(Workflow) \/ Verify(Workflow) \/ Terminalize(Workflow)
                \/ Receives(Workflow))
        BY <3>1 DEF Opens, Screen, Consult, Investigate, SaveDecision, CreateApproval,
             AttachApproval, Calls, CallExecutor, ReadReceipt, UnreadableReceipt,
             ExecutorUnreachable, Answered, Verify, Terminalize, Receives, ReceiveResume,
             CheckApproval, Decide, CloseUnapproved, ReceiveReconcile, ReconcileReceipt,
             ReconcileUnanswered, At, FailureSteps, EndSteps
      <4>6. CASE WriteRaises(Workflow) \/ Crash(Workflow)
        BY <4>2, <4>6 DEF WriteRaises, Crash
      <4>. QED
        BY <3>3, <4>1, <4>3, <4>4, <4>5, <4>6, HandlerCases
    <3>. QED
      BY <1>1, <3>2, <3>3, OutsideStays DEF Next, local
  <2>. QED
    BY <1>1, <2>1, <2>2 DEF Untouched
<1>2. CASE approval \in {"REJECTED", "EXPIRED"}
  <2>1. approval' = approval
    BY <1>2, HandlersKeepDecisions, OutsideStays DEF Next
  <2>. QED
    BY <1>2, <2>1 DEF Untouched
<1>3. ASSUME NEW c \in Callers \ Reconciles,
             answer[c].kind \in {"STALE", "UNHEALTHY", "CONFLICT_RETRYABLE"}
      PROVE  Untouched'
  <2>1. answer'[c] = answer[c]
    BY <1>3, AnswersStand DEF NoAnswer
  <2>. QED
    BY <1>3, <2>1 DEF Untouched
<1>. QED
  BY <1>1, <1>2, <1>3 DEF Untouched

(* A handler concludes for a reason that nothing was changed, or that we   *)
(* changed it.                                                             *)
LEMMA Reasons ==
  ASSUME TypeInv, DecisionInv, AnswerInv, NEW h \in Handlers,
         HandlerStep(h) \/ WriteRaises(h) \/ Crash(h)
  PROVE  /\ cat'[h] = cat[h] \/ cat'[h] \notin NothingChanged \/ Untouched'
         /\ \/ changed'[h] = changed[h] \/ changed'[h] # "yes"
            \/ OursAtAll \/ (h \in Reconciles /\ InfersChange(h))
         /\ handover' = handover \/ handover' = Package(cat[h], Mutated(h))
<1>. DEFINE Believes == OursAtAll \/ (h \in Reconciles /\ InfersChange(h))
<1>. DEFINE Reasoned ==
       /\ cat'[h] = cat[h] \/ cat'[h] \notin NothingChanged \/ Untouched'
       /\ \/ changed'[h] = changed[h] \/ changed'[h] # "yes"
          \/ Believes
       /\ handover' = handover \/ handover' = Package(cat[h], Mutated(h))
<1>1. /\ pc \in [Handlers -> Steps] /\ cat \in [Handlers -> Categories]
      /\ changed \in [Handlers -> Beliefs] /\ Workflow \in Handlers
  BY DEF TypeInv, LocalTyped, Handlers
<1>2. \A step : Goto(h, step) => cat'[h] = cat[h] /\ changed'[h] = changed[h]
  BY DEF Goto
<1>3. \A category, step : Report(h, category, step) =>
        cat'[h] = category /\ pc'[h] = step /\ changed'[h] = changed[h]
  BY <1>1 DEF Report
<1>4. \A category \in {"REMEDIATION_FAILED", "VERIFIER_UNAVAILABLE", "WORKER_CONTRACT_INVALID",
                       "VERIFICATION_FAILED", "EXECUTION_OUTCOME_UNKNOWN", "EXECUTOR_UNAVAILABLE"} :
        category \notin NothingChanged
  BY DEF NothingChanged, IntakeFailures, DenialFailures, ApprovalFailures, InvestigationFailures
<1>5. Raise(h) => /\ cat'[h] = cat[h] \/ cat'[h] \notin NothingChanged
                  /\ changed'[h] = changed[h]
  BY <1>2, <1>3, <1>4 DEF Raise, Fail
<1>6. ASSUME NEW c \in Callers, EffectIsPresent(answer[c]) = "yes" PROVE Believes
  <2>1. Landed(answer[c]) /\ ~answer[c].predates
        /\ (Progressed(answer[c]) \/ answer[c].state # "MUTATION_REQUESTED")
    BY <1>6 DEF EffectIsPresent
  <2>2. answer[c].kind = "MUTATED" \/ SaysOurs(answer[c])
    BY <2>1 DEF Landed, Progressed, AlreadyLanded, LANDED_EXECUTION_STATES, SaysOurs
  <2>. QED
    BY <2>2 DEF AnswerInv, OursAtAll
<1>7. ASSUME Hop(h) PROVE Reasoned
  BY <1>2, <1>5, <1>7 DEF Hop, Transition
<1>8. ASSUME Opens(h) PROVE Reasoned
  <2>1. h = Workflow /\ handover' = handover
    <3>1. pc[h] \in ReportSteps /\ Serves(h, pc[h])
      BY <1>8 DEF Opens, Screen, Consult, Investigate, SaveDecision, CreateApproval,
             AttachApproval, At, ReportSteps, TypeInv, LocalTyped
    <3>. QED
      BY <1>8, <3>1, ServesNext DEF Opens, Screen, Consult, Investigate, SaveDecision,
             CreateApproval, AttachApproval, Locally, incident
  <2>2. CASE Screen(h) \/ Investigate(h)
    <3>1. decision' = "none"
      BY <2>1, <2>2 DEF Screen, Investigate, At, Locally, incident, DecisionInv, BeforeDecision
    <3>2. \/ \E step : Goto(h, step)
          \/ \E category : Report(h, category, "fail")
      BY <2>2 DEF Screen, Investigate, Fail
    <3>3. pc'[h] = "fail" => Untouched'
      BY <2>1, <3>1 DEF Untouched, BeforeDecision
    <3>. QED
      BY <1>2, <1>3, <2>1, <3>2, <3>3
  <2>3. CASE SaveDecision(h)
    <3>1. \/ \E step : Goto(h, step)
          \/ decision' = "DENIED" /\ \E category : Report(h, category, "deny")
      BY <2>3 DEF SaveDecision
    <3>2. decision' = "DENIED" /\ pc'[h] = "deny" => Untouched'
      BY <2>1 DEF Untouched, BeforeDecision
    <3>. QED
      BY <1>2, <1>3, <2>1, <3>1, <3>2
  <2>4. CASE Consult(h) \/ CreateApproval(h) \/ AttachApproval(h)
    BY <1>2, <2>1, <2>4 DEF Consult, CreateApproval, AttachApproval
  <2>. QED
    BY <1>8, <2>2, <2>3, <2>4 DEF Opens
<1>9. ASSUME Calls(h) PROVE Reasoned
  <2>1. handover' = handover
    BY <1>9 DEF Calls, CallExecutor, ReadReceipt, UnreadableReceipt, ExecutorUnreachable, Locally,
                incident
  <2>2. CASE CallExecutor(h)
    BY <1>2, <2>1, <2>2 DEF CallExecutor
  <2>3. CASE UnreadableReceipt(h) \/ ExecutorUnreachable(h)
    BY <1>3, <1>4, <2>1, <2>3 DEF UnreadableReceipt, ExecutorUnreachable, Fail
  <2>4. CASE ReadReceipt(h)
    <3>. DEFINE a == answer[h]
    <3>1. /\ h \in Callers \ Reconciles /\ a \in Answers /\ a # NoAnswer
          /\ answer' = answer
      <4>1. pc[h] = "wait" /\ Serves(h, pc[h]) /\ a # NoAnswer
        BY <2>4 DEF ReadReceipt, Answered, At, TypeInv, LocalTyped
      <4>2. h \in Callers
        BY <4>1, ServesNext DEF CallSteps
      <4>. QED
        BY <2>4, <4>1, <4>2 DEF ReadReceipt, Locally, execution, TypeInv, ExecutionTyped
    <3>2. cat'[h] = cat[h] \/ cat'[h] \notin NothingChanged \/ Untouched'
      <4>1. cat' = cat \/ (~Landed(a) /\ cat' = [cat EXCEPT ![h] = ExecutionFailureCategory(a)])
        BY <2>4 DEF ReadReceipt
      <4>2. cat' = cat \/ (~Landed(a) /\ cat'[h] = ExecutionFailureCategory(a))
        BY <1>1, <4>1
      <4>3. a.kind \in Kinds
        BY <3>1 DEF Answers
      <4>4. ~Landed(a) => \/ a.kind \in {"STALE", "UNHEALTHY", "CONFLICT_RETRYABLE"}
                          \/ ExecutionFailureCategory(a) \in
                               {"REMEDIATION_FAILED", "EXECUTION_OUTCOME_UNKNOWN"}
        BY <4>3 DEF Kinds, Landed, Progressed, ExecutionFailureCategory, MayStillLand
      <4>. QED
        BY <1>4, <3>1, <4>2, <4>4 DEF Untouched
    <3>3. \/ changed'[h] = changed[h] \/ changed'[h] # "yes"
          \/ Believes
      <4>1. changed'[h] = changed[h] \/ changed'[h] = EffectIsPresent(a)
        BY <1>1, <2>4 DEF ReadReceipt
      <4>. QED
        BY <1>6, <3>1, <4>1
    <3>. QED
      BY <2>1, <3>2, <3>3
  <2>. QED
    BY <1>9, <2>2, <2>3, <2>4 DEF Calls
<1>10. ASSUME Verify(h) \/ Terminalize(h) PROVE Reasoned
  <2>1. handover' = handover
    BY <1>10 DEF Verify, Terminalize, Locally, incident
  <2>2. \/ \E step \in CloseSteps : Goto(h, step)
        \/ \E step \in {"fail", "reject"}, category \in {"VERIFIER_UNAVAILABLE",
             "WORKER_CONTRACT_INVALID", "VERIFICATION_FAILED"} : Report(h, category, step)
    BY <1>10 DEF Verify, Terminalize, Fail, CloseSteps
  <2>. QED
    BY <1>2, <1>3, <1>4, <2>1, <2>2
<1>11. ASSUME Receives(h) PROVE Reasoned
  <2>1. handover' = handover
    BY <1>11 DEF Receives, ReceiveResume, CheckApproval, Decide, CloseUnapproved,
         ReceiveReconcile, ReconcileReceipt, ReconcileUnanswered, Locally, incident
  <2>2. CASE ReceiveResume(h)
    BY <2>1, <2>2 DEF ReceiveResume
  <2>3. CASE CheckApproval(h) \/ CloseUnapproved(h)
    BY <1>2, <2>1, <2>3 DEF CheckApproval, CloseUnapproved
  <2>4. CASE Decide(h)
    <3>1. \/ \E step : Goto(h, step)
          \/ approval' \in {"REJECTED", "EXPIRED"} /\ \E category : Report(h, category, "close")
      BY <2>4 DEF Decide, DecideApproval
    <3>2. approval' \in {"REJECTED", "EXPIRED"} => Untouched'
      BY DEF Untouched
    <3>. QED
      BY <1>2, <1>3, <2>1, <3>1, <3>2
  <2>5. CASE ReceiveReconcile(h) \/ ReconcileUnanswered(h)
    BY <1>2, <2>1, <2>5 DEF ReceiveReconcile, ReconcileUnanswered
  <2>6. CASE ReconcileReceipt(h)
    <3>1. /\ cat' = cat /\ answer[h] # NoAnswer /\ h \in Reconciles /\ h \in Callers
          /\ \/ changed' = [changed EXCEPT ![h] = EffectIsPresent(answer[h])]
             \/ changed' = changed
             \/ /\ EffectIsPresent(answer[h]) = "no" /\ read[h] = "REMEDIATION_FAILED"
                /\ changed' = [changed EXCEPT ![h] = "yes"]
      <4>1. changed' = [changed EXCEPT ![h] =
                          CASE EffectIsPresent(answer[h]) # "no" -> EffectIsPresent(answer[h])
                            [] EffectIsPresent(answer[h]) = "no"
                                 /\ read[h] = "REMEDIATION_FAILED" -> "yes"
                            [] EffectIsPresent(answer[h]) = "no"
                                 /\ read[h] # "REMEDIATION_FAILED" -> changed[h]]
        BY <1>1, <2>6 DEF ReconcileReceipt
      <4>. QED
        BY <1>1, <2>6, <4>1, OrchestratorAssumption
        DEF ReconcileReceipt, Answered, Callers, Handlers
    <3>2. changed'[h] = "yes" /\ changed'[h] # changed[h] => Believes
      BY <1>1, <1>6, <3>1 DEF InfersChange
    <3>. QED
      BY <2>1, <3>1, <3>2
  <2>. QED
    BY <1>11, <2>2, <2>3, <2>4, <2>5, <2>6 DEF Receives
<1>12. ASSUME Failing(h) PROVE Reasoned
  <2>1. CASE SaveHandover(h)
    BY <1>2, <2>1 DEF SaveHandover
  <2>2. CASE WalkFailure(h)
    BY <1>5, <2>2 DEF WalkFailure
  <2>3. CASE BeginFailure(h) \/ SettleFailure(h) \/ Escalate(h)
    <3>1. handover' = handover /\ cat' = cat /\ changed' = changed
      BY <2>3 DEF BeginFailure, SettleFailure, Escalate, Depart, Goto, Locally, incident
    <3>. QED
      BY <3>1
  <2>. QED
    BY <1>12, <2>1, <2>2, <2>3 DEF Failing
<1>13. ASSUME WriteRaises(h) \/ Crash(h) PROVE Reasoned
  BY <1>2, <1>5, <1>13 DEF WriteRaises, Crash, incident
<1>. QED
  BY <1>7, <1>8, <1>9, <1>10, <1>11, <1>12, <1>13, HandlerCases

(* TellsInv is kept by every step.                                         *)
LEMMA NextTells ==
  ASSUME TypeInv, DecisionInv, CallsOnceInv, RunsInv, WriteInv, AnswerInv, TellsInv, [Next]_vars
  PROVE  TellsInv'
<1>0. Reconciles \subseteq Callers
  BY OrchestratorAssumption DEF Callers, Handlers
<1>1. Untouched => Untouched'
  BY UntouchedForGood
<1>2. OursAtAll => OursAtAll'
  BY AcceptedForGood, OursForGood DEF OursAtAll
<1>3. \A c \in Reconciles : InfersChange(c) => InfersChange(c)'
  BY <1>0, AnswersStand DEF InfersChange
<1>4. ASSUME NEW h \in Handlers, HandlerStep(h) \/ WriteRaises(h) \/ Crash(h)
      PROVE  TellsInv'
  <2>1. \A g \in Handlers \ {h} : cat'[g] = cat[g] /\ changed'[g] = changed[g]
    BY <1>4, OthersStay
  <2>2. \A g \in Handlers :
          /\ cat'[g] \in NothingChanged => Untouched'
          /\ changed'[g] = "yes" => OursAtAll' \/ (g \in Reconciles /\ InfersChange(g)')
    BY <1>1, <1>2, <1>3, <1>4, <2>1, Reasons DEF TellsInv
  <2>3. CASE handover' = handover
    BY <1>1, <1>2, <1>3, <2>2, <2>3 DEF TellsInv
  <2>4. CASE handover' = Package(cat[h], Mutated(h))
    <3>1. handover'.category = cat[h] /\ (handover'.changed = "yes" => changed[h] = "yes")
      BY <2>4 DEF Package, Mutated
    <3>. QED
      BY <1>1, <1>2, <1>3, <2>2, <3>1 DEF TellsInv
  <2>. QED
    BY <1>4, <2>3, <2>4, Reasons
<1>5. ASSUME \/ UNCHANGED vars
             \/ \E c \in Callers : ExecutorStep(c) \/ ExecutionDies(c) \/ CloudRunStep(c)
             \/ Environment
      PROVE  TellsInv'
  <2>1. UNCHANGED <<handover, cat, changed>>
    BY <1>5, OutsideStays DEF local
  <2>. QED
    BY <1>1, <1>2, <1>3, <2>1 DEF TellsInv
<1>. QED
  BY <1>4, <1>5 DEF Next

(* At the start nothing was said.                                          *)
LEMMA InitTalk == Init => TalkInv
<1>. SUFFICES ASSUME Init PROVE TalkInv
  OBVIOUS
<1>1. /\ Callers \subseteq Handlers /\ Reconciles \subseteq Callers
      /\ \A c \in Callers : ~Called(c)
  BY OrchestratorAssumption DEF Init, Called, Callers, Handlers
<1>2. EntryInv
  BY <1>1 DEF EntryInv
<1>3. AnswerInv /\ RecordInv
  BY DEF Init, AnswerInv, RecordInv, SaysOurs, Ours, NoAnswer, Store!NoRecord
<1>4. "none" \notin NothingChanged
  BY DEF NothingChanged, IntakeFailures, DenialFailures, ApprovalFailures, InvestigationFailures
<1>5. TellsInv
  BY <1>4 DEF Init, TellsInv, NoHandover
<1>. QED
  BY <1>2, <1>3, <1>5 DEF TalkInv

(* And what was said since is so.                                          *)
LEMMA TalkInvariant == Spec => []TalkInv
<1>. DEFINE Calls1 == CallsOnceInv /\ RunsInv
<1>1. IInv /\ Calls1 /\ WriteInv /\ TalkInv /\ [Next]_vars => TalkInv'
  BY NextEntry, NextAnswers, NextRecord, NextTells DEF IInv, TalkInv
<1>2. CallsOnceInv /\ RunsInv /\ OwnCallInv => Calls1
  OBVIOUS
<1>. HIDE DEF Calls1
<1>3. Spec => []Calls1
  BY <1>2, OwnCallInvariant, PTL
<1>. QED
  BY <1>1, <1>3, InitTalk, Invariant, WriteInvariant, PTL DEF Spec

(* Whoever concludes that nothing was changed is right about what the      *)
(* workflow and the resumes did, then and later, however many handlers and *)
(* reconciles meet (main.py 1336-1344, 1674-1684, failures.py 91-234).     *)
THEOREM UnchangedStaysSo == Spec => []UnchangedIsTrueOfUs
<1>. DEFINE Calls1 == CallsOnceInv /\ RunsInv
<1>1. IInv /\ Calls1 /\ TalkInv => UnchangedIsTrueOfUs
  <2>. SUFFICES ASSUME IInv, Calls1, TalkInv, Concluded \cap NothingChanged # {},
                       NEW c \in Callers, put[c] \in {"inflight", "accepted"}
                PROVE  c \in Reconciles /\ status # "EXECUTING"
    BY DEF UnchangedIsTrueOfUs
  <2>1. Untouched
    BY DEF Concluded, TalkInv, TellsInv
  <2>2. Authorized
    BY DEF IInv, AuthorizedInv
  <2>3. PICK d \in Callers \ Reconciles :
          answer[d].kind \in {"STALE", "UNHEALTHY", "CONFLICT_RETRYABLE"}
    BY <2>1, <2>2 DEF Untouched, Authorized, IInv, DecisionInv
  <2>4. put[d] \in {"none", "refused"} /\ run[d] = "ended" /\ run[c] \in {"await", "ended"}
    BY <2>3 DEF TalkInv, AnswerInv, RunsInv, NoAnswer
  <2>5. c # d /\ Called(c) /\ Called(d)
    BY <2>4 DEF Called
  <2>. QED
    BY <2>3, <2>5 DEF TalkInv, EntryInv
<1>2. CallsOnceInv /\ RunsInv /\ OwnCallInv => Calls1
  OBVIOUS
<1>. HIDE DEF Calls1
<1>3. Spec => []Calls1
  BY <1>2, OwnCallInvariant, PTL
<1>. QED
  BY <1>1, <1>3, Invariant, TalkInvariant, PTL

(* Nobody takes credit for what an operator did: whoever believes in a     *)
(* change of this automation, or tells of one, has a write of it behind    *)
(* them, but for what a reconcile infers without the executor's word       *)
(* (main.py 1593-1596, 1708-1743, 1832-1837, failures.py 214-222).         *)
THEOREM Credit == Spec => []CreditIsEarned
<1>1. TalkInv => CreditIsEarned
  <2>. SUFFICES ASSUME TalkInv, ~Behind PROVE CreditIsEarned
    BY DEF CreditIsEarned, Behind
  <2>1. ~OursAtAll
    BY DEF TalkInv, RecordInv, OursAtAll, Behind, WriteStands
  <2>. QED
    BY <2>1 DEF TalkInv, TellsInv, CreditIsEarned
<1>. QED
  BY <1>1, TalkInvariant, PTL

====
