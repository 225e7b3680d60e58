---------------------------- MODULE Orchestrator ----------------------------
(***************************************************************************)
(* One incident from intake to its end: the handlers of scf-entry and      *)
(* scf-approval that move it (src/src/scf/app/main.py), each a process     *)
(* that may be overtaken at every await, over the incident document, its   *)
(* decision and approval, the executor and the live service.               *)
(*                                                                         *)
(*   Workflow    POST /incidents, to its answer                            *)
(*   Resumes     deliveries of POST /incidents/{id}/resume                 *)
(*   Reconciles  deliveries of POST /incidents/{id}/reconcile              *)
(*   Approvers   deliveries of POST /approvals/{id}/approve or /reject     *)
(*                                                                         *)
(* The executor is the one of module Executor with the steps between two   *)
(* of its writes merged: Executor has their interleavings.  An execution   *)
(* runs on when the handler that asked for it stops waiting.               *)
(***************************************************************************)
EXTENDS IncidentStateMachine

CONSTANTS
  Workflow, Resumes, Reconciles, Approvers,
  NoOwner,
  Faults,     \* which of "write" (a write raises), "crash" (an instance stops)
              \* and "operator" (somebody redeploys the service) may happen
  MaxFaults   \* how many of them

Handlers == {Workflow} \cup Resumes \cup Reconciles \cup Approvers
Callers  == Handlers \ Approvers

(* Every call takes the execution in its own name: an owner here stands    *)
(* for the pair of worker and epoch the executor is fenced by.             *)
Store == INSTANCE ExecutionStore WITH Workers <- Callers

Revisions == {"source", "target", "other"}

NoAnswer   == [kind |-> "none", state |-> "ABSENT", predates |-> FALSE]
NoHandover == [category |-> "none", changed |-> "no"]

(* outcome["mutated_infrastructure"] of a handler: the key is absent, or it*)
(* is True, or None for an effect nobody can establish.                    *)
Beliefs == {"absent", "yes", "unknown"}

ASSUME OrchestratorAssumption ==
  /\ NoOwner \notin Callers
  /\ Workflow \notin Resumes \cup Reconciles \cup Approvers
  /\ Resumes \cap (Reconciles \cup Approvers) = {} /\ Reconciles \cap Approvers = {}
  /\ Faults \subseteq {"write", "crash", "operator"}
  /\ MaxFaults \in Nat

VARIABLES
  status,    \* the incident's status
  decision,  \* what the policy engine decided, once saved
  approval,  \* state of the approval raised for the decision
  attached,  \* the decision names its approval
  overdue,   \* the approval's expires_at has passed
  handover,  \* the escalation package saved last
  exec,      \* the execution document
  run,       \* where each call's execution is
  seen,      \* the execution document each call acquired
  put,       \* each call's replaceService
  serving,   \* the revision holding all the traffic
  desired,   \* the revision last written
  answer,    \* what the executor answered each call
  pc,        \* where each handler is
  cat,       \* the failure a handler is reporting
  route,     \* transitions that failure has still to take
  read,      \* the status a handler read when it began
  changed,   \* what each handler believes this automation changed
  faults     \* faults that happened

incident  == <<status, decision, approval, attached, overdue, handover>>
execution == <<exec, run, seen, put, serving, desired, answer>>
local     == <<pc, cat, route, read, changed>>
vars      == <<incident, execution, local, faults>>

Init ==
  /\ status = "INTAKE" /\ decision = "none" /\ approval = "none"
  /\ attached = FALSE /\ overdue = FALSE /\ handover = NoHandover
  /\ exec = Store!NoRecord /\ serving = "source" /\ desired = "source"
  /\ run = [c \in Callers |-> "none"]
  /\ seen = [c \in Callers |-> Store!NoRecord]
  /\ put = [c \in Callers |-> "none"]
  /\ answer = [c \in Callers |-> NoAnswer]
  /\ pc = [h \in Handlers |-> IF h = Workflow THEN "screen" ELSE "idle"]
  /\ cat = [h \in Handlers |-> "none"]
  /\ route = [h \in Handlers |-> <<>>]
  /\ read = [h \in Handlers |-> "INTAKE"]
  /\ changed = [h \in Handlers |-> "absent"]
  /\ faults = 0

-----------------------------------------------------------------------------
(* Local control.                                                          *)

At(h, step) == pc[h] = step

Goto(h, step) ==
  pc' = [pc EXCEPT ![h] = step] /\ UNCHANGED <<cat, route, read, changed>>

(* raise WorkflowFailure, or return _fail(...): report the failure.        *)
Report(h, category, step) ==
  /\ pc' = [pc EXCEPT ![h] = step]
  /\ cat' = [cat EXCEPT ![h] = category]
  /\ UNCHANGED <<route, read, changed>>

Fail(h, category) == Report(h, category, "fail")

(* Steps no except clause covers, or whose handler gives up quietly: an    *)
(* exception ends the request.                                             *)
UnguardedSteps == {"route", "consult", "hand_off", "approve", "close",
                   "close_mark", "fail", "walk", "escalate", "save"}

(* An exception in a handler: the catch-all of its kind reports it.        *)
Raise(h) ==
  IF pc[h] \in UnguardedSteps THEN Goto(h, "done")
  ELSE Fail(h, IF h \in Reconciles THEN "VERIFIER_UNAVAILABLE"
                                   ELSE "REMEDIATION_FAILED")

(* repo.transition as a handler's next step.                               *)
Transition(h, from, target, next) ==
  /\ At(h, from)
  /\ \/ can_transition(status, target) /\ status' = target /\ Goto(h, next)
     \/ ~can_transition(status, target) /\ UNCHANGED status /\ Raise(h)
  /\ UNCHANGED <<decision, approval, attached, overdue, handover, execution,
                 faults>>

(* A step that reads, decides or calls, and writes no shared state.        *)
Locally == UNCHANGED <<incident, execution, faults>>

-----------------------------------------------------------------------------
(* _fail: where a failure puts the incident, and the handover.             *)

Routes == [t \in {"ESCALATED"} \cup RECONCILABLE_STATES |->
             [s \in Statuses |-> path_to(s, t, ASSERTION_STATES)]]

(* Mutant: every resting state is taken to be one legal step away.         *)
MutantSingleHop(h, target) ==
  /\ route' = [route EXCEPT ![h] = IF status = target THEN <<>> ELSE <<target>>]
  /\ pc' = [pc EXCEPT ![h] = IF status = target THEN "save" ELSE "walk"]
  /\ UNCHANGED <<cat, read, changed>>

Depart(h, target) ==
  LET path == Routes[target][status]
  IN  /\ route' = [route EXCEPT ![h] = path]
      /\ pc' = [pc EXCEPT ![h] = IF path = <<>> THEN "save" ELSE "walk"]
      /\ UNCHANGED <<cat, read, changed>>

(* Read the status and choose the route.  A reconcilable failure without a *)
(* route leaves the incident where reconciliation accepts it.              *)
BeginFailure(h) ==
  LET rest == RestingStatus(cat[h])
  IN  /\ At(h, "fail")
      /\ IF cat[h] \in ReconcilableFailures /\ Routes[rest][status] = <<>>
         THEN Goto(h, "settle")
         ELSE Depart(h, rest)
      /\ Locally

SettleFailure(h) ==
  /\ At(h, "settle")
  /\ Goto(h, IF status \in RECONCILABLE_STATES THEN "save" ELSE "escalate")
  /\ Locally

Escalate(h) == At(h, "escalate") /\ Depart(h, "ESCALATED") /\ Locally

WalkFailure(h) ==
  /\ At(h, "walk")
  /\ \/ /\ can_transition(status, Head(route[h]))
        /\ status' = Head(route[h])
        /\ route' = [route EXCEPT ![h] = Tail(@)]
        /\ pc' = [pc EXCEPT ![h] = IF Tail(route[h]) = <<>> THEN "save" ELSE "walk"]
        /\ UNCHANGED <<cat, read, changed>>
     \/ /\ ~can_transition(status, Head(route[h]))
        /\ UNCHANGED status /\ Raise(h)
  /\ UNCHANGED <<decision, approval, attached, overdue, handover, execution,
                 faults>>

(* outcome.get("mutated_infrastructure") is None when the key is absent.   *)
Mutated(h) == IF changed[h] = "absent" THEN "unknown" ELSE changed[h]

(* build_escalation_package: no observed change is not the same as none    *)
(* where the outcome is unknown.                                           *)
Package(category, mutated) ==
  [category |-> category,
   changed  |-> IF mutated = "no" /\ category \in OUTCOME_UNKNOWN_CATEGORIES
                THEN "unknown" ELSE mutated]

(* Mutant: nothing is handed over where nothing is known to have changed.  *)
MutantSkipsUnknown(h) ==
  /\ At(h, "save")
  /\ handover' = IF changed[h] = "absent" THEN handover
                 ELSE Package(cat[h], Mutated(h))
  /\ Goto(h, "done")
  /\ UNCHANGED <<status, decision, approval, attached, overdue, execution, faults>>

SaveHandover(h) ==
  /\ At(h, "save")
  /\ handover' = Package(cat[h], Mutated(h))
  /\ Goto(h, "done")
  /\ UNCHANGED <<status, decision, approval, attached, overdue, execution, faults>>

Failing(h) == BeginFailure(h) \/ SettleFailure(h) \/ Escalate(h)
                \/ WalkFailure(h) \/ SaveHandover(h)

-----------------------------------------------------------------------------
(* POST /incidents.  A report is screened and routed, specialists are      *)
(* consulted, the policy decides.                                          *)

Screen(h) ==
  /\ At(h, "screen")
  /\ Goto(h, "route") \/ \E c \in IntakeFailures : Fail(h, c)
  /\ Locally

(* _run_fleet: Systems was routed, or delegated to, or nobody may act.     *)
Consult(h) ==
  /\ At(h, "consult")
  /\ Goto(h, "investigate") \/ Goto(h, "hand_off")
  /\ Locally

Investigate(h) ==
  /\ At(h, "investigate")
  /\ Goto(h, "propose") \/ \E c \in InvestigationFailures : Fail(h, c)
  /\ Locally

SaveDecision(h) ==
  /\ At(h, "decide")
  /\ \/ decision' = "AUTO_ALLOWED" /\ Goto(h, "allow")
     \/ decision' = "APPROVAL_REQUIRED" /\ Goto(h, "ask")
     \/ decision' = "DENIED" /\ \E c \in DenialFailures : Report(h, c, "deny")
  /\ UNCHANGED <<status, approval, attached, overdue, handover, execution, faults>>

(* Mutant: the request for an approval is not written.                     *)
MutantAsksNobody(h) ==
  /\ At(h, "ask")
  /\ Goto(h, "attach")
  /\ UNCHANGED <<incident, execution, faults>>

CreateApproval(h) ==
  /\ At(h, "ask")
  /\ approval' = "PENDING"
  /\ Goto(h, "attach")
  /\ UNCHANGED <<status, decision, attached, overdue, handover, execution, faults>>

AttachApproval(h) ==
  /\ At(h, "attach")
  /\ attached' = TRUE
  /\ Goto(h, "park")
  /\ UNCHANGED <<status, decision, approval, overdue, handover, execution, faults>>

CreateIncident(h) ==
  \/ Screen(h) \/ Consult(h) \/ Investigate(h)
  \/ SaveDecision(h) \/ CreateApproval(h) \/ AttachApproval(h)
  \/ Transition(h, "route", "INVESTIGATING", "consult")
  \/ Transition(h, "hand_off", "ESCALATED", "done")
  \/ Transition(h, "propose", "PROPOSED", "evaluate")
  \/ Transition(h, "evaluate", "POLICY_EVALUATED", "decide")
  \/ Transition(h, "deny", "DENIED", "fail")
  \/ Transition(h, "park", "WAITING_FOR_APPROVAL", "done")
  \/ Transition(h, "allow", "AUTO_ALLOWED", "enter")

-----------------------------------------------------------------------------
(* What the executor's answer means.                                       *)

LANDED_EXECUTION_STATES  == {"MUTATED", "VERIFIED", "MUTATION_REQUESTED"}
LIVE_PRE_MUTATION_STATES == {"CLAIMED", "PRECONDITION_CHECKED"}

Progressed(a) == a.kind \in {"MUTATED", "RECONCILED"}

AlreadyLanded(a) == a.kind = "DUPLICATE" /\ a.state \in LANDED_EXECUTION_STATES

MayStillLand(a) == a.kind = "DUPLICATE" /\ a.state \in LIVE_PRE_MUTATION_STATES

Landed(a) == Progressed(a) \/ AlreadyLanded(a)

(* Mutant: whatever landed is this automation's.                           *)
MutantClaimsEverything(a) == IF Landed(a) THEN "yes" ELSE "no"

(* Did this automation put the authorized revision in place?               *)
EffectIsPresent(a) ==
  IF a.predates \/ ~Landed(a) THEN "no"
  ELSE IF ~Progressed(a) /\ a.state = "MUTATION_REQUESTED" THEN "unknown"
  ELSE "yes"

(* Mutant: what Google did not confirm is taken for stale evidence.        *)
MutantErrorsAreStale(a) ==
  CASE MayStillLand(a) -> "EXECUTION_OUTCOME_UNKNOWN"
    [] a.kind = "CONFLICT_RETRYABLE" -> "EXECUTION_CONFLICT"
    [] a.kind = "UNHEALTHY" -> "TARGET_NO_LONGER_HEALTHY"
    [] a.kind \in {"STALE", "DID_NOT_HOLD", "OUTCOME_UNKNOWN"} -> "STALE_EVIDENCE"
    [] \/ a.kind \in {"REFUSED", "CONFLICT"}
       \/ a.kind = "DUPLICATE" /\ ~MayStillLand(a)
         -> "REMEDIATION_FAILED"

ExecutionFailureCategory(a) ==
  CASE MayStillLand(a) \/ a.kind \in {"DID_NOT_HOLD", "OUTCOME_UNKNOWN"}
         -> "EXECUTION_OUTCOME_UNKNOWN"
    [] a.kind = "CONFLICT_RETRYABLE" -> "EXECUTION_CONFLICT"
    [] a.kind = "STALE"     -> "STALE_EVIDENCE"
    [] a.kind = "UNHEALTHY" -> "TARGET_NO_LONGER_HEALTHY"
    [] \/ a.kind \in {"REFUSED", "CONFLICT"}
       \/ a.kind = "DUPLICATE" /\ ~MayStillLand(a)
         -> "REMEDIATION_FAILED"

-----------------------------------------------------------------------------
(* The execution pipeline the workflow and a resume share.                 *)

CallExecutor(h) ==
  /\ At(h, "call")
  /\ run' = [run EXCEPT ![h] = "called"]
  /\ Goto(h, "wait")
  /\ UNCHANGED <<incident, exec, seen, put, serving, desired, answer, faults>>

Answered(h) == At(h, "wait") /\ answer[h] # NoAnswer

(* Landed: go on to verification.  Otherwise rest where the answer says.   *)
ReadReceipt(h) ==
  LET a == answer[h]
  IN  /\ Answered(h) /\ h \notin Reconciles
      /\ changed' = [changed EXCEPT ![h] = IF EffectIsPresent(a) = "no" THEN @
                                            ELSE EffectIsPresent(a)]
      /\ IF Landed(a)
         THEN /\ pc' = [pc EXCEPT ![h] = "executed"]
              /\ UNCHANGED <<cat, route, read>>
         ELSE /\ pc' = [pc EXCEPT ![h] = "mark_failed"]
              /\ cat' = [cat EXCEPT ![h] = ExecutionFailureCategory(a)]
              /\ UNCHANGED <<route, read>>
      /\ Locally

(* An answer that is not a receipt decides nothing.                        *)
UnreadableReceipt(h) ==
  /\ Answered(h) /\ h \notin Reconciles
  /\ Report(h, "EXECUTION_OUTCOME_UNKNOWN",
            IF h = Workflow THEN "mark_failed" ELSE "fail")
  /\ Locally

(* The call failed, or outlived the caller's patience.                     *)
ExecutorUnreachable(h) ==
  /\ At(h, "wait") /\ h \notin Reconciles
  /\ Fail(h, "EXECUTOR_UNAVAILABLE")
  /\ Locally

Execute(h) ==
  \/ Transition(h, "enter", "EXECUTING", "call")
  \/ CallExecutor(h)
  \/ ReadReceipt(h) \/ UnreadableReceipt(h) \/ ExecutorUnreachable(h)
  \/ Transition(h, "mark_failed", "EXECUTION_FAILED", "fail")
  \/ Transition(h, "executed", "EXECUTED", "verifying")
  \/ Transition(h, "verifying", "VERIFYING", "verify")

-----------------------------------------------------------------------------
(* _verify_and_close.                                                      *)

(* The verifier answers RECOVERED only once it sees the authorized revision*)
(* hold all the traffic; a service that does not settle is STILL_FAILING.  *)
Recovered == serving = "target"

(* Mutant: the verifier's verdict resolves the incident.                   *)
MutantTrustsVerdict(h) ==
  /\ At(h, "verify")
  /\ \/ Recovered /\ Goto(h, "resolve")
     \/ Report(h, "VERIFICATION_FAILED", "reject")
  /\ Locally

(* Whether the service is healthy where it serves is the outside world's.  *)
Verify(h) ==
  /\ At(h, "verify")
  /\ \/ Recovered /\ Goto(h, "terminalize")
     \/ Report(h, "VERIFICATION_FAILED", "reject")
     \/ Fail(h, "VERIFIER_UNAVAILABLE")
     \/ Fail(h, "WORKER_CONTRACT_INVALID")
  /\ Locally

IsAuthorized ==
  \/ decision = "AUTO_ALLOWED"
  \/ /\ decision = "APPROVAL_REQUIRED"
     /\ attached /\ approval = "APPROVED" /\ ~overdue

Closable == IsAuthorized /\ exec.state = "MUTATED" /\ serving = "target"

(* The answer of /terminalize, which may be lost with its effect done.     *)
Terminalize(h) ==
  /\ At(h, "terminalize")
  /\ \/ /\ Closable
        /\ exec' = Store!AdvancedRecord(exec, "VERIFIED", exec.predates)
        /\ \/ Goto(h, "resolve")
           \/ Fail(h, "VERIFIER_UNAVAILABLE")
           \/ Fail(h, "WORKER_CONTRACT_INVALID")
     \/ /\ UNCHANGED exec
        /\ \/ IsAuthorized /\ exec.state = "VERIFIED" /\ Goto(h, "resolve")
           \/ ~IsAuthorized /\ Report(h, "VERIFIER_UNAVAILABLE", "reject")
           \/ IsAuthorized /\ exec.state \notin {"MUTATED", "VERIFIED"}
                /\ Report(h, "VERIFIER_UNAVAILABLE", "reject")
           \/ IsAuthorized /\ exec.state = "MUTATED"
                /\ Report(h, "VERIFICATION_FAILED", "reject")
           \/ Fail(h, "VERIFIER_UNAVAILABLE")
           \/ Fail(h, "WORKER_CONTRACT_INVALID")
  /\ UNCHANGED <<incident, run, seen, put, serving, desired, answer, faults>>

VerifyAndClose(h) ==
  \/ Verify(h) \/ Terminalize(h)
  \/ Transition(h, "reject", "REMEDIATION_FAILED", "fail")
  \/ Transition(h, "resolve", "RESOLVED", "done")

-----------------------------------------------------------------------------
(* POST /incidents/{id}/resume: continue from what is durable.             *)

RESUMABLE_STATES == {"WAITING_FOR_APPROVAL", "APPROVED"}

ReceiveResume(h) ==
  /\ At(h, "idle") /\ h \in Resumes
  /\ read' = [read EXCEPT ![h] = status]
  /\ pc' = [pc EXCEPT ![h] = "check"]
  /\ UNCHANGED <<cat, route, changed>> /\ Locally

(* The approval is read after the incident was.  No decision, no approval, *)
(* or a blocker: refused.                                                  *)
CheckApproval(h) ==
  /\ At(h, "check")
  /\ IF /\ decision = "APPROVAL_REQUIRED" /\ approval = "APPROVED" /\ ~overdue
        /\ read[h] \in RESUMABLE_STATES
     THEN Goto(h, IF read[h] = "WAITING_FOR_APPROVAL" THEN "approve" ELSE "enter")
     ELSE Goto(h, "done")
  /\ Locally

Resume(h) ==
  \/ ReceiveResume(h) \/ CheckApproval(h)
  \/ Transition(h, "approve", "APPROVED", "enter")

-----------------------------------------------------------------------------
(* POST /approvals/{id}/approve and /reject.                               *)

(* Mutant: an answer replaces an earlier one.                              *)
MutantForgetsAnswer(wanted) == IF overdue THEN "EXPIRED" ELSE wanted

(* decide_approval: the state it leaves, which is the one it found unless  *)
(* the approval is pending.                                                *)
DecideApproval(wanted) ==
  IF approval # "PENDING" THEN approval
  ELSE IF overdue THEN "EXPIRED" ELSE wanted

(* The approval is found, and told to nobody before the incident is parked.*)
CanBeAnswered == approval # "none" /\ status # "POLICY_EVALUATED"

(* A refusal closes the incident, and so does one that comes too late.     *)
Decide(h) ==
  /\ At(h, "idle") /\ h \in Approvers /\ CanBeAnswered
  /\ \E wanted \in {"APPROVED", "REJECTED"} :
       /\ approval' = DecideApproval(wanted)
       /\ IF approval' # approval /\ wanted = "REJECTED"
          THEN Report(h, IF approval' = "EXPIRED" THEN "APPROVAL_EXPIRED"
                         ELSE "APPROVAL_REJECTED", "close")
          ELSE Goto(h, "done")
  /\ UNCHANGED <<status, decision, attached, overdue, handover, execution, faults>>

CloseUnapproved(h) ==
  /\ At(h, "close")
  /\ Goto(h, IF status = "WAITING_FOR_APPROVAL" THEN "close_mark" ELSE "done")
  /\ Locally

Answer(h) ==
  \/ Decide(h) \/ CloseUnapproved(h)
  \/ Transition(h, "close_mark", IF cat[h] = "APPROVAL_REJECTED"
                                 THEN "APPROVAL_DENIED" ELSE "APPROVAL_EXPIRED",
                "fail")

-----------------------------------------------------------------------------
(* POST /incidents/{id}/reconcile.                                         *)

ReceiveReconcile(h) ==
  /\ At(h, "idle") /\ h \in Reconciles
  /\ read' = [read EXCEPT ![h] = status]
  /\ pc' = [pc EXCEPT ![h] = IF status \in RECONCILABLE_STATES /\ decision # "none"
                             THEN "call" ELSE "done"]
  /\ UNCHANGED <<cat, route, changed>> /\ Locally

(* A call that changed nothing: the incident is at REMEDIATION_FAILED by   *)
(* way of EXECUTED, so an earlier one did.                                 *)
ReconcileReceipt(h) ==
  LET a == answer[h]
      found == EffectIsPresent(a)
  IN  /\ Answered(h) /\ h \in Reconciles
      /\ changed' = [changed EXCEPT ![h] =
                       CASE found # "no" -> found
                         [] found = "no" /\ read[h] = "REMEDIATION_FAILED" -> "yes"
                         [] found = "no" /\ read[h] # "REMEDIATION_FAILED" -> @]
      /\ pc' = [pc EXCEPT ![h] =
                  CASE read[h] = "REMEDIATION_FAILED" -> "verifying"
                    [] read[h] # "REMEDIATION_FAILED" /\ Landed(a) -> "executed"
                    [] read[h] # "REMEDIATION_FAILED" /\ ~Landed(a) ->
                         IF a.kind = "CONFLICT_RETRYABLE" \/ MayStillLand(a)
                         THEN "done" ELSE "give_up"]
      /\ UNCHANGED <<cat, route, read>> /\ Locally

(* Unreachable or unreadable: nothing is decided, nothing moves.           *)
ReconcileUnanswered(h) ==
  /\ At(h, "wait") /\ h \in Reconciles
  /\ Goto(h, "done")
  /\ Locally

Reconcile(h) ==
  \/ ReceiveReconcile(h) \/ ReconcileReceipt(h) \/ ReconcileUnanswered(h)
  \/ Transition(h, "give_up", "ESCALATED", "done")

-----------------------------------------------------------------------------
(* The executor's side of a call.                                          *)

Closed == status \in TERMINAL_STATES

(* The call's execution ends with an answer, which its handler may have    *)
(* stopped waiting for.                                                    *)
Reply(c, kind) ==
  /\ run' = [run EXCEPT ![c] = "ended"]
  /\ answer' = [answer EXCEPT ![c] = [kind |-> kind, state |-> exec'.state,
                                      predates |-> exec'.predates]]

Owned(c)  == Store!OwnedOutcome(exec, c, exec.epoch) = "ADVANCED"
Owns(c, expect) ==
  Store!AdvanceOutcome(exec, c, exec.epoch, expect) = "ADVANCED"

(* store.release, whatever its outcome.                                    *)
Released(c, doc) == IF Owned(c) THEN Store!LapsedRecord(doc) ELSE exec

(* Mutant: an execution counts as attempted once its change was recorded.  *)
MutantOnlyRecorded(c) == seen[c].state = "MUTATED"

Attempted(c) == seen[c].state \in {"MUTATION_REQUESTED", "MUTATED"}

(* Closure, authorization and ownership, to the acquired lease.            *)
Acquire(c) ==
  /\ run[c] = "called"
  /\ \/ (Closed \/ ~IsAuthorized) /\ UNCHANGED <<exec, seen>> /\ Reply(c, "REFUSED")
     \/ /\ ~Closed /\ IsAuthorized
        /\ \/ /\ Store!Takeable(exec)
              /\ exec' = Store!AcquiredRecord(exec, c)
              /\ seen' = [seen EXCEPT ![c] = exec']
              /\ run' = [run EXCEPT ![c] = "observe"] /\ UNCHANGED answer
           \/ /\ ~Store!Takeable(exec)
              /\ UNCHANGED <<exec, seen>> /\ Reply(c, "DUPLICATE")
  /\ UNCHANGED <<incident, put, serving, desired, local, faults>>

(* Observe the service, and decide.                                        *)
Observe(c) ==
  /\ run[c] = "observe"
  /\ \/ /\ serving = "target" /\ Owns(c, Store!OPEN_STATES)
        /\ exec' = Store!AdvancedRecord(exec, "MUTATED",
                                        seen[c].predates \/ ~Attempted(c))
        /\ Reply(c, "RECONCILED")
     \/ /\ serving # "target" /\ Attempted(c)
        /\ exec' = Released(c, exec) /\ Reply(c, "DID_NOT_HOLD")
     \/ /\ serving = "other" /\ ~Attempted(c)
        /\ exec' = IF Owns(c, Store!OPEN_STATES)
                   THEN Store!AdvancedRecord(exec, "STALE", exec.predates)
                   ELSE exec
        /\ Reply(c, "STALE")
     \/ /\ serving = "source" /\ ~Attempted(c)
        /\ \/ exec' = Released(c, exec) /\ Reply(c, "UNHEALTHY")
           \/ /\ Owns(c, Store!OPEN_STATES)
              /\ exec' = Store!AdvancedRecord(exec, "PRECONDITION_CHECKED",
                                              exec.predates)
              /\ run' = [run EXCEPT ![c] = "reread"] /\ UNCHANGED answer
     \/ /\ serving = "target" \/ (serving = "source" /\ ~Attempted(c))
        /\ ~Owns(c, Store!OPEN_STATES)
        /\ UNCHANGED exec /\ Reply(c, "REFUSED")
  /\ UNCHANGED <<incident, seen, put, serving, desired, local, faults>>

RereadIncident(c) ==
  /\ run[c] = "reread"
  /\ \/ Closed /\ exec' = Released(c, exec) /\ Reply(c, "REFUSED")
     \/ ~Closed /\ run' = [run EXCEPT ![c] = "request"] /\ UNCHANGED <<exec, answer>>
  /\ UNCHANGED <<incident, seen, put, serving, desired, local, faults>>

RequestMutation(c) ==
  /\ run[c] = "request"
  /\ \/ /\ Owns(c, {"PRECONDITION_CHECKED"})
        /\ exec' = Store!AdvancedRecord(exec, "MUTATION_REQUESTED", exec.predates)
        /\ put' = [put EXCEPT ![c] = "inflight"]
        /\ run' = [run EXCEPT ![c] = "await"] /\ UNCHANGED answer
     \/ /\ ~Owns(c, {"PRECONDITION_CHECKED"})
        /\ UNCHANGED <<exec, put>> /\ Reply(c, "REFUSED")
  /\ UNCHANGED <<incident, seen, serving, desired, local, faults>>

(* 2xx, 409 or anything else, and the write that follows it.  A lease that *)
(* merely lapsed is taken back to record a mutation.                       *)
Conclude(c) ==
  /\ run[c] = "await"
  /\ \/ /\ put[c] = "accepted"
        /\ exec' = IF Owned(c) /\ exec.state = "MUTATION_REQUESTED"
                   THEN Store!AdvancedRecord(
                          IF exec.lease = "live" THEN exec
                          ELSE Store!AcquiredRecord(exec, c),
                          "MUTATED", exec.predates)
                   ELSE exec
        /\ Reply(c, "MUTATED")
     \/ /\ put[c] = "refused" /\ Owns(c, {"MUTATION_REQUESTED"})
        /\ exec' = Store!LapsedRecord(Store!AdvancedRecord(exec,
                     "PRECONDITION_CHECKED", exec.predates))
        /\ Reply(c, "CONFLICT_RETRYABLE")
     \/ /\ put[c] = "refused" /\ ~Owns(c, {"MUTATION_REQUESTED"})
        /\ UNCHANGED exec /\ Reply(c, "CONFLICT")
     \/ /\ put[c] # "refused"
        /\ exec' = Released(c, exec) /\ Reply(c, "OUTCOME_UNKNOWN")
  /\ UNCHANGED <<incident, seen, put, serving, desired, local, faults>>

(* The executor's instance stops: no answer will come.                     *)
ExecutionDies(c) ==
  /\ "crash" \in Faults /\ faults < MaxFaults
  /\ run[c] \notin {"none", "ended"}
  /\ run' = [run EXCEPT ![c] = "ended"] /\ faults' = faults + 1
  /\ UNCHANGED <<incident, exec, seen, put, serving, desired, answer, local>>

-----------------------------------------------------------------------------
(* Cloud Run, operators and the clock.                                     *)

PutSettles(c, outcome) ==
  /\ put[c] = "inflight"
  /\ put' = [put EXCEPT ![c] = outcome]
  /\ desired' = IF outcome = "accepted" THEN "target" ELSE desired
  /\ UNCHANGED <<incident, exec, run, seen, serving, answer, local, faults>>

MigrateTraffic ==
  /\ serving # desired /\ serving' = desired
  /\ UNCHANGED <<incident, exec, run, seen, put, desired, answer, local, faults>>

OperatorChange(v) ==
  /\ "operator" \in Faults /\ faults < MaxFaults
  /\ desired # v /\ desired' = v /\ faults' = faults + 1
  /\ UNCHANGED <<incident, exec, run, seen, put, serving, answer, local>>

LeaseLapses ==
  /\ exec.lease = "live" /\ exec' = Store!LapsedRecord(exec)
  /\ UNCHANGED <<incident, run, seen, put, serving, desired, answer, local, faults>>

ApprovalLapses ==
  /\ approval # "none" /\ ~overdue /\ overdue' = TRUE
  /\ UNCHANGED <<status, decision, approval, attached, handover, execution,
                 local, faults>>

-----------------------------------------------------------------------------
(* Faults of a handler: a write of its raises, or its instance stops.  A   *)
(* handler is lost when no except clause is left to report that.           *)

WriteSteps ==
  {"route", "consult", "hand_off", "investigate", "propose",
   "evaluate", "decide", "deny", "ask", "attach", "park", "allow", "enter",
   "mark_failed", "executed", "verifying", "terminalize", "reject", "resolve",
   "approve", "close", "close_mark", "give_up", "fail", "walk", "escalate",
   "save"}

WriteRaises(h) ==
  /\ "write" \in Faults /\ faults < MaxFaults
  /\ pc[h] \in WriteSteps
  /\ IF pc[h] \in UnguardedSteps THEN Goto(h, "lost") ELSE Raise(h)
  /\ faults' = faults + 1
  /\ UNCHANGED <<incident, execution>>

Crash(h) ==
  /\ "crash" \in Faults /\ faults < MaxFaults
  /\ pc[h] \notin {"idle", "done", "lost"}
  /\ Goto(h, "lost") /\ faults' = faults + 1
  /\ UNCHANGED <<incident, execution>>

-----------------------------------------------------------------------------
HandlerStep(h) ==
  \/ CreateIncident(h) \/ Execute(h) \/ VerifyAndClose(h)
  \/ Resume(h) \/ Answer(h) \/ Reconcile(h) \/ Failing(h)

ExecutorStep(c) == Acquire(c) \/ Observe(c) \/ RereadIncident(c)
                     \/ RequestMutation(c) \/ Conclude(c)

CloudRunStep(c) == \E o \in {"accepted", "refused", "lost"} : PutSettles(c, o)

Environment == \/ MigrateTraffic \/ LeaseLapses \/ ApprovalLapses
               \/ \E v \in Revisions : OperatorChange(v)

Next ==
  \/ \E h \in Handlers : HandlerStep(h) \/ WriteRaises(h) \/ Crash(h)
  \/ \E c \in Callers : ExecutorStep(c) \/ ExecutionDies(c) \/ CloudRunStep(c)
  \/ Environment

Spec == Init /\ [][Next]_vars

(* A handler that has begun goes on: each call it makes has a time limit,  *)
(* so whatever it waits for, it has a next step, and that moves it (weak   *)
(* fairness, its ENABLED spelled out).  A call's execution, Cloud Run and  *)
(* its traffic go on by themselves.  Nobody has to send a request, answer  *)
(* an approval, repeat a delivery or redeploy, and no lease has to lapse.  *)
Busy(h)  == pc[h] \notin {"idle", "done", "lost"}
Place(h) == <<pc[h], route[h]>>

FairSpec ==
  /\ Spec
  /\ \A h \in Handlers : []<>~Busy(h) \/ []<><<TRUE>>_(Place(h))
  /\ \A c \in Callers : WF_vars(ExecutorStep(c) \/ CloudRunStep(c))
  /\ WF_vars(MigrateTraffic)

-----------------------------------------------------------------------------
(* Every variable keeps its type, and a decision names no approval that    *)
(* was not created (main.py 1124-1216).                                    *)
TypeOK ==
  /\ status \in Statuses
  /\ decision \in {"none", "AUTO_ALLOWED", "APPROVAL_REQUIRED", "DENIED"}
  /\ approval \in {"none", "PENDING", "APPROVED", "REJECTED", "EXPIRED"}
  /\ attached \in BOOLEAN /\ overdue \in BOOLEAN
  /\ attached => approval # "none"
  /\ exec \in Store!Record
  /\ serving \in Revisions /\ desired \in Revisions
  /\ \A h \in Handlers : route[h] \in Seq(Statuses) /\ changed[h] \in Beliefs
  /\ faults \in 0..MaxFaults

Quiet == \A h \in Handlers : pc[h] \in {"idle", "done"}

(* An incident is resolved only once its execution is closed as VERIFIED,  *)
(* whoever else is handling it, so that no lease expiry can re-enter the   *)
(* execution of a closed incident (main.py 1375-1380).                     *)
ResolvedIsVerified == status = "RESOLVED" => exec.state = "VERIFIED"

(* Nothing is asked of the service for a decision that was denied, or that *)
(* a person rejected, left unanswered or has not answered yet, whichever   *)
(* handler asks (main.py 2293-2340, executor.py 247-283).                  *)
OnlyAuthorizedEffects ==
  \A c \in Callers : put[c] # "none" =>
    \/ decision = "AUTO_ALLOWED"
    \/ decision = "APPROVAL_REQUIRED" /\ approval = "APPROVED"

(* When every handler has ended, the incident is closed, waits for a person*)
(* or a resume, or rests where reconciliation accepts it: neither a failure*)
(* nor an overtaken handler leaves it where no endpoint can move it.  Only *)
(* an instance that stopped, or a write that failed where no handler is    *)
(* left to report it, may (main.py 734-739, 959-962, 1894-1901, 2576).     *)
Movable == TERMINAL_STATES \cup RECONCILABLE_STATES \cup RESUMABLE_STATES

NothingStranded == Quiet => status \in Movable

(* Every incident comes to rest: from some time on it is closed, waits for *)
(* a person or rests where reconciliation accepts it, whatever the services*)
(* answered and in whatever order the handlers met                         *)
(* (main.py 734-739, 1764-1776, 1894-1901).                                *)
ComesToRest == <>[](status \in Movable)

(* A change that Cloud Run accepted is never forgotten: it is confirmed,   *)
(* left to reconciliation or owned up to in the handover, for good         *)
(* (main.py 683-699, 1280-1286, 1708-1743).                                *)
ChangeIsAccountedFor ==
  \A c \in Callers :
    put[c] = "accepted" ~>
      [](\/ status \in {"RESOLVED"} \cup RECONCILABLE_STATES
         \/ handover.changed # "no")

(* A reconcile that found the incident at EXECUTION_FAILED was given an    *)
(* answer it takes for an execution that did not land and will not.        *)
GaveUp(c) ==
  /\ read[c] = "EXECUTION_FAILED" /\ answer[c] # NoAnswer
  /\ ~Landed(answer[c]) /\ ~MayStillLand(answer[c])
  /\ answer[c].kind # "CONFLICT_RETRYABLE"

(* Once the policy has decided, nobody closes the incident unresolved      *)
(* without a handover, whichever handlers met on the way and whatever a    *)
(* write of theirs did, but a reconcile that gives an execution up: that   *)
(* one hands over what an earlier failure wrote, or nothing                *)
(* (main.py 814-878, 1894-1901).                                           *)
ClosedWithHandover ==
  Quiet /\ status = "ESCALATED" /\ decision # "none"
    => handover # NoHandover \/ \E c \in Reconciles : GaveUp(c)

(* The categories whose summary tells the manager nothing was changed.     *)
NothingChanged ==
  IntakeFailures \cup DenialFailures \cup ApprovalFailures
    \cup (InvestigationFailures \ {"WORKER_CONTRACT_INVALID"})
    \cup {"STALE_EVIDENCE", "TARGET_NO_LONGER_HEALTHY", "EXECUTION_CONFLICT",
          "APPROVAL_REQUIRED_NO_APPROVER"}

(* Whoever concludes that nothing was changed is right about what the      *)
(* workflow and the resumes did: no write of theirs was applied, and none  *)
(* is on its way, then or later.  Until EXECUTION_FAILED is written that is*)
(* all there is; from then on reconciliation accepts the incident and may  *)
(* still change the service (main.py 1336-1344, 1674-1684,                 *)
(* failures.py 91-234).                                                    *)
Concluded == {handover.category} \cup {cat[h] : h \in Handlers}

UnchangedIsTrueOfUs ==
  Concluded \cap NothingChanged # {}
    => \A c \in Callers :
         put[c] \in {"inflight", "accepted"}
           => c \in Reconciles /\ status # "EXECUTING"

(* A call's write was sent, and not taken back on Cloud Run's refusal.     *)
WriteStands(c) ==
  \/ put[c] \in {"inflight", "accepted", "lost"}
  \/ put[c] = "refused" /\ answer[c].kind # "CONFLICT_RETRYABLE"

(* The one conclusion drawn without the executor's word: an execution that *)
(* did nothing of its own, found at REMEDIATION_FAILED.                    *)
InfersChange(c) ==
  /\ read[c] = "REMEDIATION_FAILED" /\ answer[c] # NoAnswer
  /\ EffectIsPresent(answer[c]) = "no"

(* Nobody takes credit for what an operator did: a handler that believes   *)
(* in a change of this automation, and a handover that tells of one, have a*)
(* write of it behind them, but for what a reconcile infers from finding   *)
(* the incident at REMEDIATION_FAILED                                      *)
(* (main.py 1593-1596, 1708-1743, 1832-1837, failures.py 214-222).         *)
CreditIsEarned ==
  \/ \E c \in Callers : WriteStands(c)
  \/ /\ \A h \in Handlers :
          changed[h] = "yes" => h \in Reconciles /\ InfersChange(h)
     /\ handover.changed = "yes" => \E c \in Reconciles : InfersChange(c)

-----------------------------------------------------------------------------
(* The incident's executions implement AuthorizedEffect.                   *)

PhaseOf(rec) ==
  CASE rec.state \in {"ABSENT", "CLAIMED", "PRECONDITION_CHECKED"} -> "open"
    [] rec.state = "MUTATION_REQUESTED" -> "attempted"
    [] rec.state = "MUTATED"  -> IF rec.predates THEN "foreign" ELSE "mutated"
    [] rec.state = "VERIFIED" -> IF rec.predates THEN "verified_foreign"
                                                 ELSE "verified_mutated"
    [] rec.state \in {"FAILED", "STALE"} -> "stale"

Effect == INSTANCE AuthorizedEffect WITH
  Executions      <- {"execution"},
  Authorizations  <- {"authorization"},
  AuthorizationOf <- [e \in {"execution"} |-> "authorization"],
  phase   <- [e \in {"execution"} |-> PhaseOf(exec)],
  applied <- [a \in {"authorization"} |-> \E c \in Callers : put[c] = "accepted"]

(* However often an incident is resumed and reconciled, and wherever its   *)
(* handlers and their executions stop, its one authorization is spent on   *)
(* one change, taken back only on proof that nothing was applied, and what *)
(* is recorded of whose change it was stays so                             *)
(* (main.py 1764-1790, executor.py 111-121, 560-601).                      *)
SpendsAuthorizationOnce == Effect!Spec
=============================================================================
