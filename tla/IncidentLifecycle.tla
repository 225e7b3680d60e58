-------------------------- MODULE IncidentLifecycle --------------------------
(***************************************************************************)
(* An incident as its history sees it: whoever moves it, and in whatever   *)
(* order, IncidentRepository.transition lets one legal transition through  *)
(* at a time (src/src/scf/state/firestore_repo.py).  visited is what the   *)
(* audit trail has recorded, which every later reader takes for the truth. *)
(***************************************************************************)
EXTENDS IncidentStateMachine

VARIABLES status, visited

Init == status = "INTAKE" /\ visited = {"INTAKE"}

transition(target) ==
  /\ can_transition(status, target)
  /\ status' = target
  /\ visited' = visited \cup {target}

Next == \E target \in Statuses : transition(target)

Spec == Init /\ [][Next]_<<status, visited>>

-----------------------------------------------------------------------------
Refusals == {"DENIED", "APPROVAL_DENIED", "APPROVAL_EXPIRED"}

TypeOK == status \in Statuses /\ visited \subseteq Statuses

(* A history that shows an execution shows the authorization before it and *)
(* no refusal, and one that shows a resolution shows the execution and the *)
(* verification it rests on (state_machine.py 24-30, 54-66).               *)
HistoryIsCoherent ==
  /\ "EXECUTING" \in visited =>
       visited \cap {"AUTO_ALLOWED", "APPROVED"} # {} /\ visited \cap Refusals = {}
  /\ "RESOLVED" \in visited =>
       {"EXECUTING", "EXECUTED", "VERIFYING"} \subseteq visited

(* Reconciliation may discover that an execution landed, but no sequence   *)
(* of transitions opens a second one, and a closed incident stays as it    *)
(* was closed (state_machine.py 55-58).                                    *)
ExecutesOnce ==
  [][/\ status \in TERMINAL_STATES => status' = status
     /\ status' = "EXECUTING" /\ status # "EXECUTING"
          => "EXECUTING" \notin visited]_<<status, visited>>

(* The inductive invariant: what each status implies about the history.    *)
BeforeExecution == {"INTAKE", "INVESTIGATING", "PROPOSED", "POLICY_EVALUATED",
                    "AUTO_ALLOWED", "WAITING_FOR_APPROVAL", "APPROVED"}
AfterExecution  == {"EXECUTING", "EXECUTED", "EXECUTION_FAILED", "VERIFYING",
                    "REMEDIATION_FAILED", "RESOLVED"}

LInv ==
  /\ TypeOK
  /\ status \in visited
  /\ HistoryIsCoherent
  /\ status \in BeforeExecution =>
       visited \cap (AfterExecution \cup Refusals \cup TERMINAL_STATES) = {}
  /\ status \in {"AUTO_ALLOWED", "APPROVED"} \cup AfterExecution =>
       visited \cap {"AUTO_ALLOWED", "APPROVED"} # {}
  /\ status \in AfterExecution =>
       "EXECUTING" \in visited /\ visited \cap Refusals = {}
  /\ status \in Refusals => visited \cap AfterExecution = {}
  /\ status \in {"EXECUTED", "VERIFYING", "REMEDIATION_FAILED", "RESOLVED"}
       => "EXECUTED" \in visited
  /\ status \in {"VERIFYING", "REMEDIATION_FAILED", "RESOLVED"}
       => "VERIFYING" \in visited
  /\ "RESOLVED" \in visited => status = "RESOLVED"
=============================================================================
