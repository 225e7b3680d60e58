------------------------ MODULE IncidentStateMachine ------------------------
(***************************************************************************)
(* The declared lifecycle of an incident and the route computed over it    *)
(* (src/src/scf/domain/state_machine.py), and what each failure category   *)
(* does with an incident (src/src/scf/domain/failures.py).                 *)
(***************************************************************************)
EXTENDS Naturals, SequencesExt

(* The statuses in the order of their names: path_to's sorted(...).        *)
ByName ==
  <<"APPROVAL_DENIED", "APPROVAL_EXPIRED", "APPROVED", "AUTO_ALLOWED",
    "DENIED", "ESCALATED", "EXECUTED", "EXECUTING", "EXECUTION_FAILED",
    "INTAKE", "INVESTIGATING", "POLICY_EVALUATED", "PROPOSED",
    "REMEDIATION_FAILED", "RESOLVED", "VERIFYING", "WAITING_FOR_APPROVAL">>

Statuses ==
  {"INTAKE", "INVESTIGATING", "PROPOSED", "POLICY_EVALUATED", "AUTO_ALLOWED",
   "WAITING_FOR_APPROVAL", "APPROVED", "APPROVAL_DENIED", "APPROVAL_EXPIRED",
   "EXECUTING", "EXECUTED", "EXECUTION_FAILED", "VERIFYING",
   "REMEDIATION_FAILED", "DENIED", "RESOLVED", "ESCALATED"}

TERMINAL_STATES == {"RESOLVED", "ESCALATED"}

LEGAL_TRANSITIONS ==
  [s \in Statuses |->
    CASE s = "INTAKE"               -> {"INVESTIGATING", "ESCALATED"}
      [] s = "INVESTIGATING"        -> {"PROPOSED", "ESCALATED"}
      [] s = "PROPOSED"             -> {"POLICY_EVALUATED", "ESCALATED"}
      [] s = "POLICY_EVALUATED"     -> {"AUTO_ALLOWED", "WAITING_FOR_APPROVAL",
                                        "DENIED", "ESCALATED"}
      [] s = "AUTO_ALLOWED"         -> {"EXECUTING", "ESCALATED"}
      [] s = "WAITING_FOR_APPROVAL" -> {"APPROVED", "APPROVAL_DENIED",
                                        "APPROVAL_EXPIRED", "ESCALATED"}
      [] s = "APPROVED"             -> {"EXECUTING", "ESCALATED"}
      [] s = "EXECUTING"            -> {"EXECUTED", "EXECUTION_FAILED", "ESCALATED"}
      [] s = "EXECUTED"             -> {"VERIFYING", "ESCALATED"}
      [] s = "VERIFYING"            -> {"RESOLVED", "REMEDIATION_FAILED"}
      [] s = "EXECUTION_FAILED"     -> {"ESCALATED", "EXECUTED"}
      [] s = "REMEDIATION_FAILED"   -> {"ESCALATED", "VERIFYING"}
      [] s \in {"DENIED", "APPROVAL_DENIED", "APPROVAL_EXPIRED"} -> {"ESCALATED"}
      [] s \in TERMINAL_STATES      -> {}]

(* Mutants: a failed execution may be started again; a parked incident may *)
(* be executed as it is; an execution under way cannot be abandoned.       *)
MutantReopensExecution(current, target) ==
  \/ target \in LEGAL_TRANSITIONS[current]
  \/ current = "EXECUTION_FAILED" /\ target = "EXECUTING"

MutantSkipsApproval(current, target) ==
  \/ target \in LEGAL_TRANSITIONS[current]
  \/ current = "WAITING_FOR_APPROVAL" /\ target = "EXECUTING"

MutantCannotAbandon(current, target) ==
  /\ target \in LEGAL_TRANSITIONS[current]
  /\ <<current, target>> # <<"EXECUTING", "ESCALATED">>

can_transition(current, target) == target \in LEGAL_TRANSITIONS[current]

ASSERTION_STATES ==
  {"AUTO_ALLOWED", "APPROVED", "EXECUTING", "EXECUTED", "EXECUTION_FAILED",
   "VERIFYING", "DENIED", "APPROVAL_DENIED", "APPROVAL_EXPIRED", "RESOLVED"}

-----------------------------------------------------------------------------
(* path_to: breadth first from current.  A search is its queue of routes,  *)
(* the nodes seen and the route found; visiting a route's last node finds  *)
(* the target among its successors or queues those not seen nor avoided.   *)

(* Mutant: the target itself is avoided.                                   *)
MutantAvoidsTarget(node, target, avoid, seen) ==
  {n \in Statuses : can_transition(node, n) /\ n \notin seen \cup avoid}

Successors(node, target, avoid, seen) ==
  {n \in Statuses : can_transition(node, n) /\ n \notin seen
                      /\ (n \in avoid => n = target)}

(* sorted(...): the statuses of a set in the order of their names, picked  *)
(* as the names are gone through.                                          *)
Picking(set) ==
  LET picked[k \in 0..Len(ByName)] ==
        IF k = 0 THEN <<>>
        ELSE IF ByName[k] \in set THEN Append(picked[k-1], ByName[k])
        ELSE picked[k-1]
  IN  picked

Sorted(set) == Picking(set)[Len(ByName)]

End(route, current) == IF route = <<>> THEN current ELSE Last(route)

Visit(search, current, target, avoid) ==
  LET route == Head(search.queue)
      next  == Successors(End(route, current), target, avoid, search.seen)
      names == Sorted(next)
  IN  IF search.queue = <<>> THEN search
      ELSE IF target \in next
      THEN [queue |-> <<>>, seen |-> search.seen, found |-> Append(route, target)]
      ELSE [queue |-> Tail(search.queue)
                        \o [i \in DOMAIN names |-> Append(route, names[i])],
            seen  |-> search.seen \cup next,
            found |-> <<>>]

(* No status is queued twice, so one visit per status is enough.           *)
Search(current, target, avoid) ==
  LET visits[k \in 0..Len(ByName)] ==
        IF k = 0 THEN [queue |-> << <<>> >>, seen |-> {current}, found |-> <<>>]
        ELSE Visit(visits[k-1], current, target, avoid)
  IN  visits

path_to(current, target, avoid) ==
  IF current = target THEN <<>>
  ELSE Search(current, target, avoid)[Len(ByName)].found

(* Reference definition: what a number of legal steps can reach when only  *)
(* statuses that are not avoided are passed through.                       *)
Beyond(set, from, avoid) ==
  set \cup {t \in Statuses : \E n \in set : (n \in avoid => n = from)
                                              /\ can_transition(n, t)}

Within(from, avoid) ==
  LET reach[k \in 0..Len(ByName)] ==
        IF k = 0 THEN {from} ELSE Beyond(reach[k-1], from, avoid)
  IN  reach

(* Reference definition: a shortest legal route that passes through no     *)
(* status it is to avoid, and none when there is none.                     *)
IsShortestRoute(path, from, to, avoid) ==
  LET reach == Within(from, avoid)
      ends  == Len(path)
  IN  IF from = to \/ to \notin reach[Len(ByName)]
      THEN path = <<>>
      ELSE /\ path # <<>> /\ Last(path) = to
           /\ \A i \in 1..ends :
                /\ can_transition(IF i = 1 THEN from ELSE path[i-1], path[i])
                /\ i < ends => path[i] \notin avoid
           /\ to \notin reach[ends - 1]

-----------------------------------------------------------------------------
(* HANDLING: where each category of failure leaves the incident.  A        *)
(* reconcilable one rests where reconciliation accepts it.                 *)

IntakeFailures == {"MODEL_OUTPUT_INVALID", "SECURITY_SCREENING_UNAVAILABLE",
                   "UNTRUSTED_CONTENT_BLOCKED"}

InvestigationFailures ==
  {"WORKER_TIMEOUT", "WORKER_UNAVAILABLE", "WORKER_BUDGET_EXCEEDED",
   "WORKER_CONTRACT_INVALID", "INSUFFICIENT_EVIDENCE"}

DenialFailures == {"DANGEROUS_ACTION_REFUSED", "INSUFFICIENT_EVIDENCE"}

ApprovalFailures == {"APPROVAL_REJECTED", "APPROVAL_EXPIRED"}

ReconcilableFailures == {"EXECUTION_CONFLICT", "EXECUTOR_UNAVAILABLE",
                         "EXECUTION_OUTCOME_UNKNOWN", "VERIFIER_UNAVAILABLE"}

RestingStatus(category) ==
  CASE category \in ReconcilableFailures \ {"VERIFIER_UNAVAILABLE"}
         -> "EXECUTION_FAILED"
    [] category = "VERIFIER_UNAVAILABLE" -> "REMEDIATION_FAILED"
    [] category \notin ReconcilableFailures -> "ESCALATED"

(* Categories for which "did anything change?" has no yes or no.           *)
OUTCOME_UNKNOWN_CATEGORIES ==
  {"EXECUTION_OUTCOME_UNKNOWN", "EXECUTOR_UNAVAILABLE"}

RECONCILABLE_STATES == {"REMEDIATION_FAILED", "EXECUTION_FAILED"}
=============================================================================
