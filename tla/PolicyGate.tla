------------------------------ MODULE PolicyGate ------------------------------
(***************************************************************************)
(* The deterministic gate: which proposal the trusted evidence authorizes  *)
(* (src/src/scf/policy/engine.py, loader.py and policies/), and which keys *)
(* an agent is competent to assert (main.py, _within_competence).          *)
(*                                                                         *)
(* An Evidence item is its key, its value and whether it is TRUSTED_TOOL.  *)
(* A value keeps its Python type, because True == 1: [type, n].            *)
(***************************************************************************)
EXTENDS Integers, Sequences, Selection

Keys == {"service_unhealthy", "candidate_revision_approved",
         "candidate_probe_healthy", "fallback_candidate_probe_healthy",
         "server_reachable"}

Bool(b) == [type |-> "bool", n |-> IF b THEN 1 ELSE 0]
Num(i)  == [type |-> "int", n |-> i]
None    == [type |-> "none", n |-> -1]

Values == {Bool(TRUE), Bool(FALSE), Num(0), Num(1), None}

Item == [key : Keys, value : Values, trusted : BOOLEAN]

(* Python's ==: a bool is an int.                                          *)
Equal(left, right) == left.n = right.n

-----------------------------------------------------------------------------
(* The policy.                                                             *)

ActionTypes ==
  {"FLIP_TRAFFIC_TO_LAST_GOOD", "SHIFT_TRAFFIC_TO_APPROVED_CANDIDATE",
   "RESTART_APPLICATION_SERVICE", "RESTART_DATABASE_SERVICE",
   "DISABLE_FIREWALL", "EXPORT_CREDENTIALS"}

DANGEROUS_ACTIONS == {"EXPORT_CREDENTIALS", "DISABLE_FIREWALL"}

(* The registered targets, and one that is not registered.                 *)
TargetTypeOf ==
  [dispatch_web     |-> "cloud_run_service_non_critical",
   site_directory   |-> "cloud_run_service_non_critical",
   dispatch_db      |-> "production_database",
   site_firewall    |-> "network_control",
   credential_store |-> "secret_store"]

Targets == DOMAIN TargetTypeOf \cup {"elsewhere"}

NoEvidence == [k \in {} |-> TRUE]

Rules == <<
  [action |-> "FLIP_TRAFFIC_TO_LAST_GOOD",
   target |-> "cloud_run_service_non_critical", decision |-> "AUTO_ALLOWED",
   required_evidence |-> [service_unhealthy           |-> TRUE,
                          candidate_revision_approved |-> TRUE,
                          candidate_probe_healthy     |-> TRUE]],
  [action |-> "SHIFT_TRAFFIC_TO_APPROVED_CANDIDATE",
   target |-> "cloud_run_service_non_critical", decision |-> "APPROVAL_REQUIRED",
   required_evidence |-> [service_unhealthy                |-> TRUE,
                          candidate_revision_approved      |-> FALSE,
                          fallback_candidate_probe_healthy |-> TRUE]],
  [action |-> "RESTART_APPLICATION_SERVICE",
   target |-> "cloud_run_service_non_critical", decision |-> "AUTO_ALLOWED",
   required_evidence |-> [service_unhealthy |-> TRUE,
                          server_reachable  |-> TRUE]],
  [action |-> "RESTART_DATABASE_SERVICE", target |-> "production_database",
   decision |-> "APPROVAL_REQUIRED", required_evidence |-> NoEvidence],
  [action |-> "DISABLE_FIREWALL", target |-> "*", decision |-> "DENIED",
   required_evidence |-> NoEvidence],
  [action |-> "EXPORT_CREDENTIALS", target |-> "*", decision |-> "DENIED",
   required_evidence |-> NoEvidence] >>

(* match: the first rule for the action whose target type fits.            *)
Fits(i, action, target_type) ==
  Rules[i].action = action /\ Rules[i].target \in {target_type, "*"}

Matches(action, target_type) ==
  {i \in DOMAIN Rules : /\ Fits(i, action, target_type)
                        /\ \A j \in 1..(i - 1) : ~Fits(j, action, target_type)}

-----------------------------------------------------------------------------
(* Reading the evidence.                                                   *)

Trusted(evidence, key) ==
  {i \in DOMAIN evidence : evidence[i].trusted /\ evidence[i].key = key}

(* trusted_evidence_map: the last trusted item of a key is its value.      *)
IsLatest(evidence, key, i) ==
  /\ i \in Trusted(evidence, key)
  /\ \A j \in Trusted(evidence, key) : j <= i

trusted_evidence_map(evidence, key) ==
  IF Trusted(evidence, key) = {} THEN None
  ELSE evidence[CHOOSE i \in DOMAIN evidence : IsLatest(evidence, key, i)].value

(* Mutant: plain equality, which says that 1 is True.                      *)
MutantSameNumber(left, right) == Equal(left, right)

same_value(left, right) ==
  /\ left.type = "bool" <=> right.type = "bool"
  /\ Equal(left, right)

(* trusted_evidence_conflicts: equality is transitive, so a key whose      *)
(* neighbouring values agree has one value.                                *)
Conflicts(evidence, key) ==
  \E i, j \in Trusted(evidence, key) :
    ~same_value(evidence[i].value, evidence[j].value)

(* Mutant: a number satisfies a required boolean.                          *)
MutantSatisfies(actual, expected) == Equal(actual, Bool(expected))

(* _satisfies: every condition of the policy is a boolean.                 *)
Satisfies(actual, expected) == actual = Bool(expected)

evaluate(action, target, evidence) ==
  LET matches == Matches(action, TargetTypeOf[target])
      rule    == Rules[CHOOSE i \in matches : TRUE]
      needed  == DOMAIN rule.required_evidence
  IN  CASE target \notin DOMAIN TargetTypeOf -> "DENIED"
        [] target \in DOMAIN TargetTypeOf /\ matches = {} -> "DENIED"
        [] target \in DOMAIN TargetTypeOf /\ matches # {} ->
             IF \/ \E key \in needed : Conflicts(evidence, key)
                \/ \E key \in needed :
                     ~Satisfies(trusted_evidence_map(evidence, key),
                                rule.required_evidence[key])
             THEN "DENIED" ELSE rule.decision

-----------------------------------------------------------------------------
(* The keys of the policy that the registry lets each agent assert: only   *)
(* the systems agent observes any, and no agent server_reachable.          *)
Establishes ==
  [systems  |-> Keys \ {"server_reachable"},
   network  |-> {},
   security |-> {}]

(* Mutant: what an authenticated agent says is kept.                       *)
MutantBelievesAgent(agent, evidence) == evidence

within_competence(agent, evidence) ==
  Only(evidence, {item \in Item : item.key \in Establishes[agent]})
=============================================================================
