-------------------------- MODULE InvestigationProofs --------------------------
(***************************************************************************)
(* Theorems about Investigation, for any traffic lists, revisions, bodies, *)
(* budgets and faulty answers.  First, what the gate lets through, for     *)
(* evidence of any length: whatever claims an answer is padded with, the   *)
(* decision to act without a person rests on trusted, exactly true and     *)
(* uncontradicted evidence of every required key.                          *)
(***************************************************************************)
EXTENDS Investigation, HealthProofs

-----------------------------------------------------------------------------
(* The gate.                                                               *)


(* Every trusted item of the key is the boolean, and there is one.         *)
Proven(evidence, key, expected) ==
  /\ Trusted(evidence, key) # {}
  /\ \A i \in Trusted(evidence, key) : evidence[i].value = Bool(expected)

(* A value that agrees with a boolean is that boolean: the comparison of   *)
(* the conflict check is exact where Python's equality is not.             *)
LEMMA SameBoolean ==
  ASSUME NEW value \in Values, NEW expected \in BOOLEAN,
         same_value(value, Bool(expected))
  PROVE  value = Bool(expected)
BY DEF Values, same_value, Equal, Bool, Num, None

(* No boolean is the absent value.                                         *)
LEMMA BooleanIsNotNone ==
  ASSUME NEW expected \in BOOLEAN
  PROVE  Bool(expected) # None
BY DEF Bool, None

(* A set of positions is empty or has a last one.                          *)
LEMMA LastPosition ==
  ASSUME NEW n \in Nat, NEW S \in SUBSET (1..n), S # {}
  PROVE  \E i \in S : \A j \in S : j <= i
PROOF
<1> DEFINE Room == {n - i : i \in S}
<1>1. Room \subseteq Nat /\ Room # {}
  <2>1. \A i \in S : n - i \in Nat
    OBVIOUS
  <2> QED
    BY <2>1, Zenon
<1>2. PICK m \in Room : \A k \in Room : <<k, m>> \notin OpToRel(<, Nat)
  BY <1>1, WFMin, NatLessThanWellFounded, Zenon
<1>3. \A k \in Room : ~(k < m)
  BY <1>1, <1>2, Zenon DEF OpToRel
<1>4. PICK i \in S : m = n - i
  OBVIOUS
<1>5. \A j \in S : j <= i
  <2> TAKE j \in S
  <2>1. n - j \in Room
    OBVIOUS
  <2>2. ~(n - j < n - i)
    BY <1>3, <1>4, <2>1
  <2> QED
    BY <2>2
<1> QED
  BY <1>5

(* The core: a required key that neither conflicts nor is missing is       *)
(* proven, however many items assert it and in whatever order.             *)
LEMMA SatisfiedIsProven ==
  ASSUME NEW evidence \in Seq(Item), NEW key \in Keys, NEW expected \in BOOLEAN,
         ~Conflicts(evidence, key),
         Satisfies(trusted_evidence_map(evidence, key), expected)
  PROVE  Proven(evidence, key, expected)
PROOF
<1> DEFINE latest == CHOOSE i \in DOMAIN evidence : IsLatest(evidence, key, i)
<1>1. Trusted(evidence, key) # {}
  BY BooleanIsNotNone DEF trusted_evidence_map, Satisfies
<1>2. trusted_evidence_map(evidence, key) = evidence[latest].value
  BY <1>1 DEF trusted_evidence_map
<1>3. \E i \in DOMAIN evidence : IsLatest(evidence, key, i)
  <2>1. Trusted(evidence, key) \in SUBSET (1..Len(evidence))
    BY DEF Trusted
  <2>2. PICK i \in Trusted(evidence, key) :
          \A j \in Trusted(evidence, key) : j <= i
    <3>1. Len(evidence) \in Nat
      OBVIOUS
    <3> HIDE DEF latest
    <3> QED
      BY <1>1, <2>1, <3>1, LastPosition
  <2>3. i \in DOMAIN evidence
    BY DEF Trusted
  <2> QED
    BY <2>2, <2>3, Zenon DEF IsLatest
<1>4. latest \in Trusted(evidence, key)
  BY <1>3 DEF IsLatest
<1>5. evidence[latest].value = Bool(expected)
  BY <1>2 DEF Satisfies
<1>6. ASSUME NEW i \in Trusted(evidence, key)
      PROVE  evidence[i].value = Bool(expected)
  <2>1. same_value(evidence[i].value, Bool(expected))
    BY <1>4, <1>5 DEF Conflicts
  <2>2. evidence[i].value \in Values
    <3>1. i \in DOMAIN evidence /\ evidence[i] \in Item
      BY DEF Trusted
    <3> QED
      BY <3>1 DEF Item
  <2> QED
    BY <2>1, <2>2, SameBoolean
<1> QED
  BY <1>1, <1>6 DEF Proven

-----------------------------------------------------------------------------
(* The decision.                                                           *)

(* A decision to allow is a decision of the rule that matched: its target  *)
(* is registered and each of its conditions is proven.                     *)
LEMMA AllowedByRule ==
  ASSUME NEW action \in ActionTypes, NEW target \in Targets,
         NEW evidence \in Seq(Item),
         evaluate(action, target, evidence) # "DENIED"
  PROVE  /\ target \in DOMAIN TargetTypeOf
         /\ \E i \in Matches(action, TargetTypeOf[target]) :
              /\ Rules[i].decision = evaluate(action, target, evidence)
              /\ \A key \in DOMAIN Rules[i].required_evidence :
                   /\ ~Conflicts(evidence, key)
                   /\ Satisfies(trusted_evidence_map(evidence, key),
                                Rules[i].required_evidence[key])
PROOF
<1> DEFINE matches == Matches(action, TargetTypeOf[target])
           chosen  == CHOOSE i \in matches : TRUE
<1>1. target \in DOMAIN TargetTypeOf /\ matches # {}
  BY Zenon DEF evaluate
<1>2. chosen \in matches
  BY <1>1
<1>3. \A key \in DOMAIN Rules[chosen].required_evidence :
        /\ ~Conflicts(evidence, key)
        /\ Satisfies(trusted_evidence_map(evidence, key),
                     Rules[chosen].required_evidence[key])
  BY <1>1, Zenon DEF evaluate
<1>4. Rules[chosen].decision = evaluate(action, target, evidence)
  <2>1. ~ \/ \E key \in DOMAIN Rules[chosen].required_evidence :
               Conflicts(evidence, key)
          \/ \E key \in DOMAIN Rules[chosen].required_evidence :
               ~Satisfies(trusted_evidence_map(evidence, key),
                          Rules[chosen].required_evidence[key])
    BY <1>3, Zenon
  <2> HIDE DEF chosen
  <2>2. evaluate(action, target, evidence) = Rules[chosen].decision
    BY <1>1, <2>1 DEF evaluate, chosen
  <2> QED
    BY <2>2
<1> QED
  BY <1>1, <1>2, <1>3, <1>4, Zenon

(* What each rule that allows asks for.                                    *)
LEMMA AllowingRules ==
  ASSUME NEW action \in ActionTypes, NEW target_type,
         NEW i \in Matches(action, target_type), Rules[i].decision # "DENIED"
  PROVE  \/ /\ action = "FLIP_TRAFFIC_TO_LAST_GOOD"
            /\ target_type = "cloud_run_service_non_critical"
            /\ Rules[i].decision = "AUTO_ALLOWED"
            /\ Rules[i].required_evidence =
                 [service_unhealthy           |-> TRUE,
                  candidate_revision_approved |-> TRUE,
                  candidate_probe_healthy     |-> TRUE]
         \/ /\ action = "SHIFT_TRAFFIC_TO_APPROVED_CANDIDATE"
            /\ target_type = "cloud_run_service_non_critical"
            /\ Rules[i].decision = "APPROVAL_REQUIRED"
         \/ /\ action = "RESTART_APPLICATION_SERVICE"
            /\ target_type = "cloud_run_service_non_critical"
            /\ Rules[i].decision = "AUTO_ALLOWED"
            /\ Rules[i].required_evidence =
                 [service_unhealthy |-> TRUE, server_reachable |-> TRUE]
         \/ /\ action = "RESTART_DATABASE_SERVICE"
            /\ target_type = "production_database"
            /\ Rules[i].decision = "APPROVAL_REQUIRED"
PROOF
<1>1. i \in 1..6 /\ Fits(i, action, target_type)
  BY DEF Matches, Rules
<1>2. CASE i = 1
  BY <1>1, <1>2 DEF Fits, Rules
<1>3. CASE i = 2
  BY <1>1, <1>3 DEF Fits, Rules
<1>4. CASE i = 3
  BY <1>1, <1>4 DEF Fits, Rules
<1>5. CASE i = 4
  BY <1>1, <1>5 DEF Fits, Rules
<1>6. CASE i = 5
  BY <1>6 DEF Rules
<1>7. CASE i = 6
  BY <1>7 DEF Rules
<1> QED
  BY <1>1, <1>2, <1>3, <1>4, <1>5, <1>6, <1>7

(* An action allowed without a person is proven, whatever evidence of      *)
(* whatever length the answer carries: nothing untrusted, nothing of the   *)
(* wrong type and no contradiction stands behind it (engine.py:28-149).    *)
THEOREM AutoIsProven ==
  ASSUME NEW action \in ActionTypes, NEW target \in Targets,
         NEW evidence \in Seq(Item),
         evaluate(action, target, evidence) = "AUTO_ALLOWED"
  PROVE  /\ target \in {"dispatch_web", "site_directory"}
         /\ Proven(evidence, "service_unhealthy", TRUE)
         /\ \/ /\ action = "FLIP_TRAFFIC_TO_LAST_GOOD"
               /\ Proven(evidence, "candidate_revision_approved", TRUE)
               /\ Proven(evidence, "candidate_probe_healthy", TRUE)
            \/ /\ action = "RESTART_APPLICATION_SERVICE"
               /\ Proven(evidence, "server_reachable", TRUE)
PROOF
<1> DEFINE type == TargetTypeOf[target]
<1>1. target \in DOMAIN TargetTypeOf
  BY AllowedByRule
<1>2. PICK i \in Matches(action, type) :
        /\ Rules[i].decision = "AUTO_ALLOWED"
        /\ \A key \in DOMAIN Rules[i].required_evidence :
             /\ ~Conflicts(evidence, key)
             /\ Satisfies(trusted_evidence_map(evidence, key),
                          Rules[i].required_evidence[key])
  BY AllowedByRule
<1> DEFINE needed == Rules[i].required_evidence
<1>3. ASSUME NEW key \in Keys, key \in DOMAIN needed, needed[key] = TRUE
      PROVE  Proven(evidence, key, TRUE)
  <2>1. ~Conflicts(evidence, key)
    BY <1>2, <1>3
  <2>2. Satisfies(trusted_evidence_map(evidence, key), TRUE)
    BY <1>2, <1>3, Zenon
  <2> QED
    BY <2>1, <2>2, SatisfiedIsProven
<1> HIDE DEF type
<1>4. \/ /\ action = "FLIP_TRAFFIC_TO_LAST_GOOD"
         /\ type = "cloud_run_service_non_critical"
         /\ needed = [service_unhealthy           |-> TRUE,
                      candidate_revision_approved |-> TRUE,
                      candidate_probe_healthy     |-> TRUE]
      \/ /\ action = "RESTART_APPLICATION_SERVICE"
         /\ type = "cloud_run_service_non_critical"
         /\ needed = [service_unhealthy |-> TRUE, server_reachable |-> TRUE]
  BY <1>2, AllowingRules
<1> HIDE DEF needed
<1>5. target \in {"dispatch_web", "site_directory"}
  BY <1>1, <1>4 DEF type, TargetTypeOf
<1>6. CASE action = "FLIP_TRAFFIC_TO_LAST_GOOD"
  <2>1. needed = [service_unhealthy           |-> TRUE,
                  candidate_revision_approved |-> TRUE,
                  candidate_probe_healthy     |-> TRUE]
    BY <1>4, <1>6
  <2>2. /\ Proven(evidence, "service_unhealthy", TRUE)
        /\ Proven(evidence, "candidate_revision_approved", TRUE)
        /\ Proven(evidence, "candidate_probe_healthy", TRUE)
    BY <1>3, <2>1 DEF Keys
  <2> QED
    BY <1>5, <1>6, <2>2
<1>7. CASE action = "RESTART_APPLICATION_SERVICE"
  <2>1. needed = [service_unhealthy |-> TRUE, server_reachable |-> TRUE]
    BY <1>4, <1>7
  <2>2. /\ Proven(evidence, "service_unhealthy", TRUE)
        /\ Proven(evidence, "server_reachable", TRUE)
    BY <1>3, <2>1 DEF Keys
  <2> QED
    BY <1>5, <1>7, <2>2
<1> QED
  BY <1>4, <1>6, <1>7

(* Where no trusted item claims server_reachable, which no agent may       *)
(* establish, only the rollback to the known-good revision runs without a  *)
(* person (main.py:2608-2650, action_policy.json).                         *)
COROLLARY OnlyRollbackRunsAlone ==
  ASSUME NEW action \in ActionTypes, NEW target \in Targets,
         NEW evidence \in Seq(Item),
         evaluate(action, target, evidence) = "AUTO_ALLOWED",
         \A i \in DOMAIN evidence : evidence[i].key # "server_reachable"
  PROVE  action = "FLIP_TRAFFIC_TO_LAST_GOOD"
PROOF
<1>1. ~Proven(evidence, "server_reachable", TRUE)
  BY Zenon DEF Proven, Trusted
<1> QED
  BY <1>1, AutoIsProven


-----------------------------------------------------------------------------
(* The inductive invariant.                                                *)

Probing == {"probe_live", "confirm", "probe_candidate", "probe_fallback", "propose"}

(* The answer is in, and it is what the worker observed.                   *)
Honest == step \in {"answered", "done"} /\ answer.kind = "answer" /\ answer.honest

(* The live service has been looked at; all that is probed has been.       *)
Looked   == step \in {"probe_candidate", "probe_fallback", "propose"} \/ Honest
Gathered == step = "propose" \/ Honest

(* How many looks at the live service a step has behind it, and that there *)
(* is no answer before its step.                                           *)
StepInv ==
  /\ step \in {"describe", "probe_live"} => live = <<>>
  /\ step = "confirm" => live \in {<<FALSE>>, <<TRUE>>}
  /\ step \notin {"answered", "done"} => answer = NoAnswer
  /\ step = "answered" => answer.kind # "none"

(* What the workflow concludes from an answer.                             *)
Conclusion ==
  IF answer.kind = "answer" /\ answer.action # "none"
  THEN [category |-> CategoryOf(answer),
        pinned   |-> authorized_revision(answer.action),
        source   |-> active_revision(described)]
  ELSE [NoResult EXCEPT !.category = CategoryOf(answer)]

DoneInv ==
  step = "done" =>
    \/ answer.kind # "none" /\ result = Conclusion
    \/ result.category \in {"WORKER_UNAVAILABLE", "WORKER_TIMEOUT"}

HonestInv == Honest => answer.action = proposed_action

(* A service that reads as failing was looked at twice, and no well        *)
(* revision answered.                                                      *)
LookInv ==
  /\ step = "confirm" => live = <<FALSE>>
  /\ Looked /\ ~healthy.service => live = <<FALSE, FALSE>>

(* What is described is what is probed unless an operator was there, and   *)
(* nothing is probed healthy before its probe.                             *)
EarlyInv ==
  /\ step \in Probing /\ ~moved => service = described
  /\ step \in {"describe", "probe_live", "confirm", "probe_candidate"} =>
       ~healthy.candidate /\ ~healthy.fallback
  /\ step = "probe_fallback" => ~healthy.fallback /\ ~approved(described)

(* What is probed healthy is what that probe reached, and well, unless an  *)
(* operator was there.                                                     *)
Reached(revision) == moved \/ (reached = revision /\ reached \notin sick)

FoundInv ==
  Gathered =>
    /\ approved(described) /\ healthy.candidate =>
         Reached(candidate_revision(described))
    /\ ~approved(described) /\ healthy.fallback =>
         /\ fallback(described).tag # NoTag
         /\ Reached(fallback(described).revision)

(* The last call is granted within the deadline.                           *)
TimeInv ==
  /\ step = "confirm" => elapsed <= WORK_DEADLINE_SECONDS + PROBE_TIMEOUT + OVERRUN
  /\ elapsed <= CALL_TIMEOUT + OVERRUN

-----------------------------------------------------------------------------
(* What a description says.                                                *)

(* The last of some entries' revisions.                                    *)
LEMMA LastOfEntries ==
  ASSUME NEW entries \in Seq(TrafficEntry), NEW indices \in SUBSET DOMAIN entries,
         indices # {}
  PROVE  \E i \in indices : /\ RevisionAt(entries, indices) = entries[i].revision
                            /\ entries[i].revision \in Revisions
<1>1. DOMAIN entries = 1..Len(entries) /\ Len(entries) \in Nat
  BY LenProperties
<1>2. \E i \in indices : \A j \in indices : j <= i
  BY <1>1, LastPosition
<1>. DEFINE last == CHOOSE i \in indices : \A j \in indices : j <= i
<1>3. last \in indices
  BY <1>2
<1>4. RevisionAt(entries, indices) = entries[last].revision
  BY DEF RevisionAt
<1>. HIDE DEF last
<1>5. entries[last] \in TrafficEntry
  BY <1>1, <1>3, ElementOfSeq
<1>6. entries[last].revision \in Revisions
  BY <1>5 DEF TrafficEntry
<1>. QED
  BY <1>3, <1>4, <1>6

(* The revisions a description names.                                      *)
LEMMA ActiveAndCandidate ==
  ASSUME NEW entries \in Seq(TrafficEntry)
  PROVE  /\ active_revision(entries) \in Revisions \cup {NoRevision}
         /\ candidate_revision(entries) \in Revisions \cup {NoRevision}
         /\ candidate_revision(entries) # NoRevision =>
              \E i \in Tagged(entries) : candidate_revision(entries) = entries[i].revision
<1>1. Full(entries) \in SUBSET DOMAIN entries /\ Tagged(entries) \in SUBSET DOMAIN entries
  BY DEF Full, Tagged
<1>2. \/ RevisionAt(entries, Full(entries)) = NoRevision
      \/ RevisionAt(entries, Full(entries)) \in Revisions
  BY <1>1, LastOfEntries DEF RevisionAt
<1>3. \/ RevisionAt(entries, Tagged(entries)) = NoRevision
      \/ \E i \in Tagged(entries) :
           /\ RevisionAt(entries, Tagged(entries)) = entries[i].revision
           /\ entries[i].revision \in Revisions
  BY <1>1, LastOfEntries DEF RevisionAt
<1>. QED
  BY <1>2, <1>3 DEF active_revision, candidate_revision

(* The fallback is nobody, or an addressable entry beside the active one.  *)
LEMMA FallbackIsAddressable ==
  ASSUME NEW entries \in Seq(TrafficEntry)
  PROVE  \/ fallback(entries) = [revision |-> NoRevision, tag |-> NoTag]
         \/ \E i \in Addressable(entries) :
              fallback(entries) = [revision |-> entries[i].revision,
                                   tag      |-> entries[i].tag]
<1>. SUFFICES ASSUME Addressable(entries) # {}
              PROVE  \E i \in Addressable(entries) :
                       fallback(entries) = [revision |-> entries[i].revision,
                                            tag      |-> entries[i].tag]
  BY DEF fallback
<1>. DEFINE first == CHOOSE i \in Addressable(entries) :
                       \A j \in Addressable(entries) : i <= j
<1>0. DOMAIN entries = 1..Len(entries) /\ Len(entries) \in Nat
  BY LenProperties
<1>1. Addressable(entries) \subseteq Nat
  BY <1>0 DEF Addressable
<1>2. \E i \in Addressable(entries) : \A j \in Addressable(entries) : i <= j
  BY <1>1, LeastNumber
<1>3. first \in Addressable(entries)
  BY <1>2
<1>4. fallback(entries) = [revision |-> entries[first].revision,
                           tag      |-> entries[first].tag]
  BY DEF fallback
<1>. QED
  BY <1>3, <1>4

(* Every description is one of the lists the service may have.             *)
LEMMA Described ==
  ASSUME NEW entries \in Services \cup {<<>>}
  PROVE  entries \in Seq(TrafficEntry)
  BY InvestigationAssumption, EmptySeq

(* Whatever is authorized, what is pinned is a revision or none.           *)
LEMMA PinnedTyped ==
  ASSUME described \in Services \cup {<<>>}, NEW action
  PROVE  /\ authorized_revision(action) \in Revisions \cup {NoRevision}
         /\ active_revision(described) \in Revisions \cup {NoRevision}
<1>1. described \in Seq(TrafficEntry)
  BY Described
<1>2. fallback(described).revision \in Revisions \cup {NoRevision}
  <2>1. ASSUME NEW i \in Addressable(described)
        PROVE  described[i].revision \in Revisions
    <3>1. i \in 1..Len(described)
      BY <1>1, LenProperties DEF Addressable
    <3>2. described[i] \in TrafficEntry
      BY <1>1, <3>1, ElementOfSeq
    <3>. QED
      BY <3>2 DEF TrafficEntry
  <2>2. \/ fallback(described) = [revision |-> NoRevision, tag |-> NoTag]
        \/ \E i \in Addressable(described) :
             fallback(described) = [revision |-> described[i].revision,
                                    tag      |-> described[i].tag]
    BY <1>1, FallbackIsAddressable, Zenon
  <2>. QED
    BY <2>1, <2>2
<1>. QED
  BY <1>1, <1>2, ActiveAndCandidate DEF authorized_revision

-----------------------------------------------------------------------------
(* Types.                                                                  *)

(* A call lasts some seconds, and at most so many beyond its timeout.      *)
LEMMA CallsLast ==
  ASSUME NEW timeout \in Nat, NEW seconds \in Durations(timeout)
  PROVE  seconds \in Nat /\ seconds <= timeout + OVERRUN
<1>1. OVERRUN \in Nat
  BY InvestigationAssumption
<1>. QED
  BY <1>1 DEF Durations

(* A step is charged before it is taken.                                   *)
LEMMA ChargedStep ==
  ASSUME TypeOK, NEW at, NEW seconds \in Nat, Charged(at, seconds)
  PROVE  /\ calls' \in 0..MAX_TOOL_CALLS /\ elapsed' \in Nat
         /\ Now \in Nat /\ Now <= WORK_DEADLINE_SECONDS /\ elapsed' = Now + seconds
         /\ step = at
<1>1. calls \in 0..MAX_TOOL_CALLS /\ elapsed \in Nat
  BY DEF TypeOK
<1>2. MAX_TOOL_CALLS \in Nat /\ CONFIRM_UNHEALTHY_AFTER_SECONDS \in Nat
  BY InvestigationAssumption
<1>3. Now \in Nat
  BY <1>1, <1>2 DEF Now
<1>4. /\ step = at /\ calls < MAX_TOOL_CALLS /\ Now <= WORK_DEADLINE_SECONDS
      /\ calls' = calls + 1 /\ elapsed' = Now + seconds
  BY DEF Charged, spend, check
<1>. QED
  BY <1>1, <1>2, <1>3, <1>4

(* What a probe reads is yes or no.                                        *)
LEMMA ReadsBoolean ==
  ASSUME NEW revisions, NEW body \in Answers(revisions)
  PROVE  body_is_healthy(body) \in BOOLEAN
<1>1. body \in WellBodies \cup SickBodies \cup {Unreachable}
  BY DEF Answers
<1>2. IsBody(Unreachable)
  BY DEF IsBody, Unreachable
<1>. QED
  BY <1>1, <1>2, InvestigationAssumption, BodiesReadTruly

(* A probe of the live service.                                            *)
Looks(at) ==
  /\ \E seconds \in Durations(PROBE_TIMEOUT) : Charged(at, seconds)
  /\ \E r \in {service[i].revision : i \in Serving(service)} :
       \E body \in Answers({r}) :
         /\ healthy' = [healthy EXCEPT !.service = body_is_healthy(body)]
         /\ live' = Append(live, r \notin sick /\ body # Unreachable)
         /\ step' = IF at = "probe_live" /\ ~body_is_healthy(body) THEN "confirm"
                    ELSE "probe_candidate"
  /\ UNCHANGED <<world, described, reached, answer, result>>

(* A look at the live service is one of these.                             *)
LEMMA LooksAtService ==
  /\ ProbeLive => Looks("probe_live")
  /\ Confirm => Looks("confirm")
<1>1. ProbeLive => Looks("probe_live")
  BY DEF ProbeLive, ProbeService, Looks
<1>2. Confirm => Looks("confirm")
  BY DEF Confirm, ProbeService, Looks
<1>. QED
  BY <1>1, <1>2

(* What an investigation found is evidence.                                *)
LEMMA GatheredTyped ==
  ASSUME TypeOK
  PROVE  /\ gathered_evidence \in Seq(Item)
         /\ proposed_action \in ActionTypes \cup {"none"}
<1>1. healthy \in [{"candidate", "fallback", "service"} -> BOOLEAN]
  BY DEF TypeOK
<1>. DEFINE ev(key, value) == [key |-> key, value |-> Bool(value), trusted |-> TRUE]
<1>2. ASSUME NEW key \in Keys, NEW value \in BOOLEAN
      PROVE  ev(key, value) \in Item
  BY DEF Item, Values, Bool
<1>. DEFINE a == ev("service_unhealthy", ~healthy.service)
            b == ev("candidate_revision_approved", approved(described))
            c == ev("candidate_probe_healthy", healthy.candidate)
            d == ev("fallback_candidate_probe_healthy", healthy.fallback)
<1>3. approved(described) \in BOOLEAN
  BY DEF approved
<1>4. a \in Item /\ b \in Item /\ c \in Item /\ d \in Item
  <2>1. "service_unhealthy" \in Keys /\ "candidate_revision_approved" \in Keys
        /\ "candidate_probe_healthy" \in Keys /\ "fallback_candidate_probe_healthy" \in Keys
    BY DEF Keys
  <2>2. (~healthy.service) \in BOOLEAN /\ healthy.candidate \in BOOLEAN
        /\ healthy.fallback \in BOOLEAN
    BY <1>1
  <2>. HIDE DEF ev
  <2>. QED
    BY <1>2, <1>3, <2>1, <2>2
<1>5. gathered_evidence = <<a, b, c, d>>
  BY DEF gathered_evidence
<1>6. gathered_evidence \in Seq(Item)
  <2>. HIDE DEF a, b, c, d
  <2>. QED
    BY <1>4, <1>5
<1>7. proposed_action \in ActionTypes \cup {"none"}
  BY <1>1, <1>3 DEF proposed_action, ActionTypes
<1>. QED
  BY <1>6, <1>7

(* An answer as TypeOK has it.                                             *)
Answered(a) ==
  /\ a.kind \in {"none", "error", "budget", "malformed", "answer"}
  /\ a.evidence \in Seq(Item)
  /\ a.action \in ActionTypes \cup {"none"} /\ a.target \in Targets

(* An answer other than one of evidence is empty.                          *)
LEMMA EmptyAnswers ==
  ASSUME NEW a,
         \/ a = NoAnswer
         \/ \E kind \in {"error", "budget"} : a = [NoAnswer EXCEPT !.kind = kind]
         \/ a = [NoAnswer EXCEPT !.kind = "malformed", !.honest = FALSE]
  PROVE  Answered(a)
<1>1. <<>> \in Seq(Item) /\ "dispatch_web" \in Targets
  BY EmptySeq DEF Targets, TargetTypeOf
<1>2. CASE a = NoAnswer
  BY <1>1, <1>2 DEF NoAnswer, Answered
<1>3. ASSUME NEW kind \in {"error", "budget"}, a = [NoAnswer EXCEPT !.kind = kind]
      PROVE  Answered(a)
  <2>1. a = [kind |-> kind, honest |-> TRUE, evidence |-> <<>>,
             action |-> "none", target |-> "dispatch_web"]
    BY <1>3 DEF NoAnswer
  <2>. QED
    BY <1>1, <2>1 DEF Answered
<1>4. CASE a = [NoAnswer EXCEPT !.kind = "malformed", !.honest = FALSE]
  <2>1. a = [kind |-> "malformed", honest |-> FALSE, evidence |-> <<>>,
             action |-> "none", target |-> "dispatch_web"]
    BY <1>4 DEF NoAnswer
  <2>. QED
    BY <1>1, <2>1 DEF Answered
<1>. QED
  BY <1>2, <1>3, <1>4

(* A faulty answer is of the right shape.                                  *)
LEMMA GarbledAnswers ==
  ASSUME TypeOK, Garble
  PROVE  /\ Answered(answer') /\ ~answer'.honest
         /\ answer'.kind \in {"malformed", "answer"}
<1>1. CASE answer' = [NoAnswer EXCEPT !.kind = "malformed", !.honest = FALSE]
  BY <1>1, EmptyAnswers DEF NoAnswer
<1>2. ASSUME NEW item \in Garbage, NEW items \in Tampered(answer.evidence, item),
             NEW action \in ActionTypes, NEW target \in Claimable,
             answer' = [kind |-> "answer", honest |-> FALSE, evidence |-> items,
                        action |-> action, target |-> target]
      PROVE  /\ Answered(answer') /\ ~answer'.honest
             /\ answer'.kind \in {"malformed", "answer"}
  <2>1. answer.evidence \in Seq(Item)
    BY DEF TypeOK
  <2>2. item \in Item /\ <<item>> \in Seq(Item)
    BY InvestigationAssumption
  <2>3. items \in Seq(Item)
    <3>1. /\ <<item>> \o answer.evidence \in Seq(Item)
          /\ answer.evidence \o <<item>> \in Seq(Item)
      BY <2>1, <2>2, ConcatProperties
    <3>2. ASSUME NEW i \in DOMAIN answer.evidence
          PROVE  [answer.evidence EXCEPT ![i] = item] \in Seq(Item)
      <4>1. i \in 1..Len(answer.evidence)
        BY <2>1, LenProperties
      <4>. QED
        BY <2>1, <2>2, <4>1, ExceptSeq
    <3>. QED
      BY <3>1, <3>2, Zenon DEF Tampered
  <2>4. target \in Targets
    BY InvestigationAssumption
  <2>. QED
    BY <1>2, <2>3, <2>4 DEF Answered
<1>3. \/ answer' = [NoAnswer EXCEPT !.kind = "malformed", !.honest = FALSE]
      \/ \E item \in Garbage : \E items \in Tampered(answer.evidence, item) :
           \E action \in ActionTypes, target \in Claimable :
             answer' = [kind |-> "answer", honest |-> FALSE, evidence |-> items,
                        action |-> action, target |-> target]
  BY Zenon DEF Garble
<1>. QED
  BY <1>1, <1>2, <1>3

-----------------------------------------------------------------------------
(* The types are inductive with what each step knows.                      *)
TInv == TypeOK /\ StepInv

(* What is typed of the service, of the worker and of its answer.          *)
WorldTyped ==
  /\ service \in Services /\ sick \subseteq Revisions
  /\ looping \in BOOLEAN /\ moved \in BOOLEAN

WorkTyped ==
  /\ step \in Steps /\ described \in Services \cup {<<>>}
  /\ healthy \in [{"candidate", "fallback", "service"} -> BOOLEAN]
  /\ live \in {<<>>, <<FALSE>>, <<TRUE>>} \cup (BOOLEAN \X BOOLEAN)
  /\ reached \in Revisions \cup {NoRevision}
  /\ calls \in 0..MAX_TOOL_CALLS /\ elapsed \in Nat

ResultTyped == {result.pinned, result.source} \subseteq Revisions \cup {NoRevision}

(* Together they are TypeOK.                                               *)
LEMMA TypesInParts == TypeOK <=> WorldTyped /\ WorkTyped /\ Answered(answer) /\ ResultTyped
  BY DEF TypeOK, WorldTyped, WorkTyped, Answered, ResultTyped

(* Before any probe, every reading is no.                                  *)
LEMMA UnprobedTyped == Unprobed \in [{"candidate", "fallback", "service"} -> BOOLEAN]
<1>1. Unprobed = [x \in {"candidate", "fallback", "service"} |-> Unprobed[x]]
  BY DEF Unprobed
<1>2. Unprobed.candidate = FALSE /\ Unprobed.fallback = FALSE /\ Unprobed.service = FALSE
  BY DEF Unprobed
<1>3. \A x \in {"candidate", "fallback", "service"} : Unprobed[x] \in BOOLEAN
  BY <1>2
<1>. QED
  BY <1>1, <1>3

(* The start.                                                              *)
LEMMA InitTyped == Init => TInv
<1>. SUFFICES ASSUME Init PROVE TInv
  OBVIOUS
<1>1. Answered(answer)
  BY EmptyAnswers DEF Init
<1>2. WorldTyped /\ ResultTyped
  BY DEF Init, WorldTyped, ResultTyped, NoResult
<1>3. WorkTyped
  <2>1. Unprobed \in [{"candidate", "fallback", "service"} -> BOOLEAN]
    BY UnprobedTyped
  <2>2. 0 \in Nat /\ 0 \in 0..MAX_TOOL_CALLS
    BY InvestigationAssumption
  <2>. QED
    BY <2>1, <2>2 DEF Init, WorkTyped, Steps
<1>4. StepInv
  BY DEF Init, StepInv
<1>. QED
  BY <1>1, <1>2, <1>3, <1>4, TypesInParts DEF TInv

(* A look goes at the end of the list.                                     *)
LEMMA SecondLook ==
  ASSUME NEW first, NEW second
  PROVE  Append(<<first>>, second) = <<first, second>>
<1>. DEFINE S == {first, second}
<1>1. <<first>> \in Seq(S) /\ <<first, second>> \in Seq(S) /\ second \in S
  OBVIOUS
<1>2. /\ Append(<<first>>, second) \in Seq(S) /\ Len(Append(<<first>>, second)) = 2
      /\ Append(<<first>>, second)[1] = first /\ Append(<<first>>, second)[2] = second
  <2>. HIDE DEF S
  <2>. QED
    BY <1>1, AppendProperties
<1>3. /\ Len(<<first, second>>) = 2
      /\ <<first, second>>[1] = first /\ <<first, second>>[2] = second
  OBVIOUS
<1>4. \A i \in 1..2 : i = 1 \/ i = 2
  OBVIOUS
<1>. HIDE DEF S
<1>. QED
  BY <1>1, <1>2, <1>3, <1>4, SeqEqual

(* The looks at the live service, one and then two.                        *)
LEMMA LooksAdd ==
  ASSUME NEW well \in BOOLEAN
  PROVE  /\ Append(<<>>, well) \in {<<FALSE>>, <<TRUE>>}
         /\ ~well => Append(<<>>, well) = <<FALSE>>
         /\ \A first \in {<<FALSE>>, <<TRUE>>} : Append(first, well) \in BOOLEAN \X BOOLEAN
         /\ ~well => Append(<<FALSE>>, well) = <<FALSE, FALSE>>
<1>1. Append(<<>>, well) = <<well>>
  OBVIOUS
<1>2. <<well>> \in {<<FALSE>>, <<TRUE>>} /\ (~well => <<well>> = <<FALSE>>)
  OBVIOUS
<1>3. \A b \in BOOLEAN : Append(<<b>>, well) \in BOOLEAN \X BOOLEAN
  <2>1. \A b \in BOOLEAN : <<b, well>> \in BOOLEAN \X BOOLEAN
    OBVIOUS
  <2>. QED
    BY <2>1, SecondLook
<1>4. \A first \in {<<FALSE>>, <<TRUE>>} : Append(first, well) \in BOOLEAN \X BOOLEAN
  BY <1>3, Zenon
<1>5. ~well => Append(<<FALSE>>, well) = <<FALSE, FALSE>>
  <2>. SUFFICES ASSUME ~well PROVE Append(<<FALSE>>, well) = <<FALSE, FALSE>>
    OBVIOUS
  <2>1. well = FALSE
    OBVIOUS
  <2>. QED
    BY <2>1, SecondLook, Zenon
<1>. QED
  BY <1>1, <1>2, <1>4, <1>5, Zenon

(* A look at the live service.                                             *)
LEMMA LooksTyped ==
  ASSUME TInv, NEW at \in {"probe_live", "confirm"}, Looks(at)
  PROVE  WorkTyped' /\ StepInv' /\ step = at /\ UNCHANGED <<world, answer, result>>
<1>1. WorkTyped /\ StepInv
  BY TypesInParts DEF TInv
<1>2. PICK seconds \in Durations(PROBE_TIMEOUT) : Charged(at, seconds)
  BY DEF Looks
<1>3. seconds \in Nat
  BY CallsLast, InvestigationAssumption
<1>4. calls' \in 0..MAX_TOOL_CALLS /\ elapsed' \in Nat /\ step = at
  BY <1>2, <1>3, ChargedStep DEF TInv
<1>0. PICK r \in {service[i].revision : i \in Serving(service)} :
       \E body \in Answers({r}) :
         /\ healthy' = [healthy EXCEPT !.service = body_is_healthy(body)]
         /\ live' = Append(live, r \notin sick /\ body # Unreachable)
         /\ step' = IF at = "probe_live" /\ ~body_is_healthy(body) THEN "confirm"
                    ELSE "probe_candidate"
  BY DEF Looks
<1>5. PICK body \in Answers({r}) :
         /\ healthy' = [healthy EXCEPT !.service = body_is_healthy(body)]
         /\ live' = Append(live, r \notin sick /\ body # Unreachable)
         /\ step' = IF at = "probe_live" /\ ~body_is_healthy(body) THEN "confirm"
                    ELSE "probe_candidate"
  BY <1>0
<1>6. body_is_healthy(body) \in BOOLEAN
  BY ReadsBoolean
<1>7. healthy' \in [{"candidate", "fallback", "service"} -> BOOLEAN]
  BY <1>1, <1>5, <1>6 DEF WorkTyped
<1>. DEFINE well == r \notin sick /\ body # Unreachable
<1>8. well \in BOOLEAN
  OBVIOUS
<1>9. /\ at = "probe_live" => live' \in {<<FALSE>>, <<TRUE>>}
      /\ at = "confirm" => live' \in BOOLEAN \X BOOLEAN
  <2>1. live' = Append(live, well)
    BY <1>5
  <2>2. at = "probe_live" => live = <<>>
    BY <1>1, <1>4 DEF StepInv
  <2>3. at = "confirm" => live \in {<<FALSE>>, <<TRUE>>}
    BY <1>1, <1>4 DEF StepInv
  <2>. HIDE DEF well
  <2>. QED
    BY <1>8, <2>1, <2>2, <2>3, LooksAdd, Zenon
<1>10. UNCHANGED <<world, described, reached, answer, result>>
  BY DEF Looks
<1>11. answer' = NoAnswer
  BY <1>1, <1>4, <1>10 DEF StepInv
<1>12. step' \in {"confirm", "probe_candidate"} /\ (step' = "confirm" => at = "probe_live")
  BY <1>5
<1>13. WorkTyped'
  BY <1>1, <1>4, <1>7, <1>9, <1>10, <1>12 DEF WorkTyped, Steps
<1>14. StepInv'
  BY <1>9, <1>11, <1>12 DEF StepInv
<1>. QED
  BY <1>4, <1>10, <1>13, <1>14

(* The other steps of the worker.                                          *)
LEMMA ProbeTagTyped ==
  ASSUME TInv, NEW at \in {"probe_candidate", "probe_fallback"},
         NEW which \in {"candidate", "fallback"}, NEW tag, ProbeTag(at, which, tag),
         step' \in {"probe_fallback", "again", "propose"}
  PROVE  WorkTyped' /\ StepInv' /\ step = at /\ UNCHANGED <<world, answer, result>>
<1>1. WorkTyped /\ StepInv /\ WorldTyped
  BY TypesInParts DEF TInv
<1>2. PICK seconds \in IF tag = NoTag THEN {0} ELSE Durations(PROBE_TIMEOUT) :
        Charged(at, seconds)
  BY DEF ProbeTag
<1>3. seconds \in Nat
  BY <1>2, CallsLast, InvestigationAssumption
<1>4. calls' \in 0..MAX_TOOL_CALLS /\ elapsed' \in Nat /\ step = at
  BY <1>2, <1>3, ChargedStep DEF TInv
<1>5. UNCHANGED <<world, described, live, answer, result>>
  BY DEF ProbeTag
<1>6. /\ healthy' \in [{"candidate", "fallback", "service"} -> BOOLEAN]
      /\ reached' \in Revisions \cup {NoRevision}
  <2>1. CASE UNCHANGED <<healthy, reached>>
    BY <1>1, <2>1 DEF WorkTyped
  <2>2. ASSUME NEW r \in Carriers(tag), NEW body \in Answers({r}),
               healthy' = [healthy EXCEPT ![which] = body_is_healthy(body)], reached' = r
        PROVE  /\ healthy' \in [{"candidate", "fallback", "service"} -> BOOLEAN]
               /\ reached' \in Revisions
    <3>1. body_is_healthy(body) \in BOOLEAN
      BY ReadsBoolean
    <3>2. service \in Seq(TrafficEntry)
      BY <1>1, InvestigationAssumption DEF WorldTyped
    <3>3. PICK i \in DOMAIN service : r = service[i].revision
      BY DEF Carriers
    <3>4. service[i] \in TrafficEntry
      BY <3>2, <3>3, LenProperties, ElementOfSeq
    <3>. QED
      BY <1>1, <2>2, <3>1, <3>3, <3>4 DEF WorkTyped, TrafficEntry
  <2>. QED
    BY <2>1, <2>2 DEF ProbeTag
<1>7. answer' = NoAnswer
  BY <1>1, <1>4, <1>5 DEF StepInv
<1>8. WorkTyped'
  BY <1>1, <1>4, <1>5, <1>6 DEF WorkTyped, Steps
<1>9. StepInv'
  BY <1>7 DEF StepInv
<1>. QED
  BY <1>4, <1>5, <1>8, <1>9

(* Where a probe of a tag leads.                                           *)
LEMMA ProbeLeads ==
  /\ ProbeCandidate => step' \in {"probe_fallback", "again", "propose"}
  /\ ProbeFallback => step' \in {"again", "propose"}
  BY DEF ProbeCandidate, ProbeFallback, GatheredStep

(* Every step keeps the types.                                             *)
LEMMA NextTyped ==
  ASSUME TInv, [Next]_vars
  PROVE  TInv'
<1>1. WorldTyped /\ WorkTyped /\ StepInv /\ ResultTyped /\ Answered(answer)
  BY TypesInParts DEF TInv
<1>2. ASSUME WorkTyped', StepInv', UNCHANGED <<world, result>>, Answered(answer')
      PROVE  TInv'
  <2>1. WorldTyped' /\ ResultTyped'
    BY <1>1, <1>2 DEF WorldTyped, ResultTyped, world
  <2>2. Answered(answer)'
    BY <1>2 DEF Answered
  <2>. QED
    BY <1>2, <2>1, <2>2, TypesInParts DEF TInv, TypeOK, WorldTyped, WorkTyped, Answered, ResultTyped
<1>3. ASSUME NEW at, NEW seconds \in Nat, Charged(at, seconds)
      PROVE  calls' \in 0..MAX_TOOL_CALLS /\ elapsed' \in Nat /\ step = at
  BY <1>3, ChargedStep DEF TInv
<1>4. CASE Again
  <2>1. calls' \in 0..MAX_TOOL_CALLS /\ elapsed' \in Nat /\ step = "again"
    BY <1>3, <1>4 DEF Again
  <2>2. /\ step' = "describe" /\ live' = <<>> /\ healthy' = Unprobed
        /\ reached' = NoRevision /\ described' = <<>> /\ UNCHANGED <<world, answer, result>>
    BY <1>4 DEF Again
  <2>3. WorkTyped'
    BY <2>1, <2>2, UnprobedTyped DEF WorkTyped, Steps
  <2>4. StepInv'
    BY <1>1, <2>1, <2>2 DEF StepInv
  <2>. QED
    BY <1>1, <1>2, <2>2, <2>3, <2>4
<1>5. CASE Describe
  <2>1. \E seconds \in Durations(ADMIN_CALL_TIMEOUT) : Charged("describe", seconds)
    BY <1>5 DEF Describe
  <2>2. calls' \in 0..MAX_TOOL_CALLS /\ elapsed' \in Nat /\ step = "describe"
    BY <1>3, <2>1, CallsLast, InvestigationAssumption
  <2>3. UNCHANGED <<world, readings, result>>
    BY <1>5 DEF Describe
  <2>4. CASE step' = "probe_live" /\ described' = service /\ UNCHANGED answer
    <3>1. WorkTyped'
      BY <1>1, <2>2, <2>3, <2>4 DEF WorkTyped, WorldTyped, Steps, readings
    <3>2. StepInv'
      BY <1>1, <2>2, <2>3, <2>4 DEF StepInv, readings
    <3>. QED
      BY <1>1, <1>2, <2>3, <2>4, <3>1, <3>2
  <2>5. CASE /\ step' = "answered" /\ answer' = [NoAnswer EXCEPT !.kind = "error"]
             /\ UNCHANGED described
    <3>1. WorkTyped'
      BY <1>1, <2>2, <2>3, <2>5 DEF WorkTyped, Steps, readings
    <3>2. Answered(answer')
      BY <2>5, EmptyAnswers
    <3>3. StepInv'
      BY <2>5 DEF StepInv, NoAnswer
    <3>. QED
      BY <1>2, <2>3, <3>1, <3>2, <3>3
  <2>. QED
    BY <1>5, <2>4, <2>5 DEF Describe
<1>6. CASE ProbeLive \/ Confirm
  <2>1. \E at \in {"probe_live", "confirm"} : Looks(at)
    BY <1>6, LooksAtService
  <2>. QED
    BY <1>1, <1>2, <2>1, LooksTyped
<1>7. CASE ProbeCandidate \/ ProbeFallback
  <2>1. WorkTyped' /\ StepInv' /\ UNCHANGED <<world, answer, result>>
    BY <1>7, ProbeTagTyped, ProbeLeads DEF ProbeCandidate, ProbeFallback
  <2>. QED
    BY <1>1, <1>2, <2>1
<1>8. CASE Propose
  <2>1. Charged("propose", 0) /\ step' = "answered" /\ UNCHANGED <<world, described, readings, result>>
    BY <1>8 DEF Propose
  <2>2. calls' \in 0..MAX_TOOL_CALLS /\ elapsed' \in Nat
    BY <1>3, <2>1
  <2>3. answer' = [kind |-> "answer", honest |-> TRUE, target |-> "dispatch_web",
                   evidence |-> gathered_evidence, action |-> proposed_action]
    BY <1>8 DEF Propose
  <2>4. "dispatch_web" \in Targets
    BY DEF Targets, TargetTypeOf
  <2>5. Answered(answer') /\ answer'.kind = "answer"
    BY <2>3, <2>4, GatheredTyped DEF Answered, TInv
  <2>6. WorkTyped'
    BY <1>1, <2>1, <2>2 DEF WorkTyped, Steps, readings
  <2>7. StepInv'
    BY <2>1, <2>5 DEF StepInv
  <2>. QED
    BY <1>2, <2>1, <2>5, <2>6, <2>7
<1>9. CASE Exhausted
  <2>1. /\ step' = "answered" /\ elapsed' = Now /\ answer' = [NoAnswer EXCEPT !.kind = "budget"]
        /\ UNCHANGED <<world, described, readings, calls, result>>
    BY <1>9 DEF Exhausted
  <2>2. Now \in Nat
    BY <1>1, InvestigationAssumption DEF Now, WorkTyped
  <2>3. Answered(answer') /\ answer'.kind = "budget"
    BY <2>1, EmptyAnswers DEF NoAnswer
  <2>4. WorkTyped'
    BY <1>1, <2>1, <2>2 DEF WorkTyped, Steps, readings
  <2>5. StepInv'
    BY <2>1, <2>3 DEF StepInv
  <2>. QED
    BY <1>2, <2>1, <2>3, <2>4, <2>5
<1>10. CASE OperatorMoves
  <2>1. /\ service' \in Services /\ moved' = TRUE
        /\ UNCHANGED <<sick, looping, step, described, readings, budget, answer, result>>
    BY <1>10 DEF OperatorMoves
  <2>2. WorldTyped' /\ WorkTyped' /\ ResultTyped' /\ Answered(answer)'
    BY <1>1, <2>1 DEF WorldTyped, WorkTyped, ResultTyped, Answered, readings, budget
  <2>3. StepInv'
    BY <1>1, <2>1 DEF StepInv, readings
  <2>. QED
    BY <2>2, <2>3 DEF TInv, TypeOK, WorldTyped, WorkTyped, Answered, ResultTyped
<1>11. CASE Garble
  <2>1. /\ step' = step /\ step = "answered" /\ calls' = 0 /\ elapsed' = 0 /\ live' = <<>>
        /\ UNCHANGED <<world, step, described, healthy, reached, result>>
    BY <1>11 DEF Garble
  <2>2. Answered(answer') /\ answer'.kind \in {"malformed", "answer"}
    BY <1>11, GarbledAnswers DEF TInv
  <2>3. 0 \in 0..MAX_TOOL_CALLS /\ 0 \in Nat
    BY InvestigationAssumption
  <2>4. WorkTyped'
    BY <1>1, <2>1, <2>3 DEF WorkTyped
  <2>5. StepInv'
    BY <2>1, <2>2 DEF StepInv
  <2>. QED
    BY <1>2, <2>1, <2>2, <2>4, <2>5
<1>12. CASE Lost
  <2>1. /\ step' = "done" /\ UNCHANGED <<world, described, readings, budget, answer>>
        /\ \E category : result' = [NoResult EXCEPT !.category = category]
    BY <1>12 DEF Lost
  <2>2. WorldTyped' /\ WorkTyped' /\ Answered(answer)'
    BY <1>1, <2>1 DEF WorldTyped, WorkTyped, Answered, readings, budget, world, Steps
  <2>3. ResultTyped'
    BY <2>1 DEF ResultTyped, NoResult
  <2>4. StepInv'
    BY <2>1 DEF StepInv
  <2>. QED
    BY <2>2, <2>3, <2>4 DEF TInv, TypeOK, WorldTyped, WorkTyped, Answered, ResultTyped
<1>13. CASE Receive
  <2>1. step' = "done" /\ UNCHANGED <<world, described, readings, budget, answer>>
    BY <1>13 DEF Receive
  <2>2. WorldTyped' /\ WorkTyped' /\ Answered(answer)'
    BY <1>1, <2>1 DEF WorldTyped, WorkTyped, Answered, readings, budget, world, Steps
  <2>3. ResultTyped'
    <3>1. /\ authorized_revision(answer.action) \in Revisions \cup {NoRevision}
          /\ active_revision(described) \in Revisions \cup {NoRevision}
      BY <1>1, PinnedTyped DEF WorkTyped
    <3>2. \/ result' = [category |-> CategoryOf(answer),
                        pinned   |-> authorized_revision(answer.action),
                        source   |-> active_revision(described)]
          \/ result' = [NoResult EXCEPT !.category = CategoryOf(answer)]
      BY <1>13 DEF Receive
    <3>. QED
      BY <3>1, <3>2 DEF ResultTyped, NoResult
  <2>4. StepInv'
    BY <2>1 DEF StepInv
  <2>. QED
    BY <2>2, <2>3, <2>4 DEF TInv, TypeOK, WorldTyped, WorkTyped, Answered, ResultTyped
<1>14. CASE UNCHANGED vars
  <2>1. /\ UNCHANGED <<world, step, described, readings, budget>>
        /\ answer' = answer /\ result' = result
    BY <1>14 DEF vars, world, readings, budget
  <2>2. WorkTyped'
    BY <1>1, <2>1 DEF WorkTyped, readings, budget
  <2>3. StepInv'
    BY <1>1, <2>1 DEF StepInv, readings
  <2>4. Answered(answer')
    BY <1>1, <2>1
  <2>. QED
    BY <1>2, <2>1, <2>2, <2>3, <2>4
<1>. QED
  BY <1>4, <1>5, <1>6, <1>7, <1>8, <1>9, <1>10, <1>11, <1>12, <1>13, <1>14 DEF Next

(* Every variable keeps its type, and no more steps are granted than the   *)
(* budget has, for any budget (investigator.py:88-96).                     *)
THEOREM InvestigationTyped == Spec => []TypeOK
<1>1. TInv => TypeOK
  BY DEF TInv
<1>. QED
  BY <1>1, InitTyped, NextTyped, PTL DEF Spec


-----------------------------------------------------------------------------
(* The deadline.                                                           *)

(* The caller waits for the deadline and one call more, and for the pause  *)
(* before a confirming look.                                               *)
CallerWaitsLongEnough ==
  /\ WORK_DEADLINE_SECONDS + ADMIN_CALL_TIMEOUT <= CALL_TIMEOUT
  /\ WORK_DEADLINE_SECONDS + PROBE_TIMEOUT + CONFIRM_UNHEALTHY_AFTER_SECONDS
       <= CALL_TIMEOUT

(* The budget's numbers.                                                   *)
LEMMA Seconds ==
  /\ ADMIN_CALL_TIMEOUT \in Nat /\ PROBE_TIMEOUT \in Nat /\ OVERRUN \in Nat
  /\ CONFIRM_UNHEALTHY_AFTER_SECONDS \in Nat /\ CALL_TIMEOUT \in Nat
  /\ WORK_DEADLINE_SECONDS \in Nat
<1>1. /\ ADMIN_CALL_TIMEOUT \in Nat /\ PROBE_TIMEOUT \in Nat /\ OVERRUN \in Nat
      /\ CONFIRM_UNHEALTHY_AFTER_SECONDS \in Nat /\ CALL_TIMEOUT \in Nat /\ HEADROOM \in Nat
  BY InvestigationAssumption
<1>. QED
  BY <1>1 DEF WORK_DEADLINE_SECONDS, GATHER_EVIDENCE_WORST_CASE_SECONDS

(* A step that is granted ends within the deadline and one call.           *)
LEMMA GrantedInTime ==
  ASSUME CallerWaitsLongEnough, TypeOK, NEW at,
         NEW timeout \in {0, ADMIN_CALL_TIMEOUT, PROBE_TIMEOUT},
         NEW seconds \in Durations(timeout), Charged(at, seconds)
  PROVE  /\ elapsed' <= CALL_TIMEOUT + OVERRUN
         /\ elapsed' <= WORK_DEADLINE_SECONDS + timeout + OVERRUN
<1>1. timeout \in Nat /\ seconds \in Nat /\ seconds <= timeout + OVERRUN
  BY Seconds, CallsLast
<1>2. /\ Now \in Nat /\ Now <= WORK_DEADLINE_SECONDS /\ elapsed' = Now + seconds
  BY <1>1, ChargedStep
<1>3. timeout <= ADMIN_CALL_TIMEOUT \/ timeout <= PROBE_TIMEOUT
  BY Seconds
<1>4. elapsed' <= WORK_DEADLINE_SECONDS + timeout + OVERRUN
  BY <1>1, <1>2, Seconds
<1>5. WORK_DEADLINE_SECONDS + timeout <= CALL_TIMEOUT
  BY <1>1, <1>3, Seconds DEF CallerWaitsLongEnough
<1>6. elapsed' \in Nat
  BY <1>1, <1>2
<1>. QED
  BY <1>1, <1>4, <1>5, <1>6, Seconds

(* A step that calls nobody takes no time.                                 *)
LEMMA NoTimeTaken == 0 \in Durations(0)
  BY DEF Durations

(* The clock of every step.                                                *)
LEMMA NextInTime ==
  ASSUME CallerWaitsLongEnough, TypeOK, TimeInv, [Next]_vars
  PROVE  TimeInv'
<1>1. elapsed \in Nat
  BY DEF TypeOK
<1>2. CASE Again
  <2>1. Charged("again", 0) /\ step' = "describe"
    BY <1>2 DEF Again
  <2>. QED
    BY <2>1, GrantedInTime, NoTimeTaken DEF TimeInv
<1>3. CASE Describe
  <2>1. \E seconds \in Durations(ADMIN_CALL_TIMEOUT) : Charged("describe", seconds)
    BY <1>3 DEF Describe
  <2>2. step' # "confirm"
    BY <1>3 DEF Describe
  <2>. QED
    BY <2>1, <2>2, GrantedInTime DEF TimeInv
<1>4. CASE ProbeLive \/ Confirm \/ ProbeCandidate \/ ProbeFallback
  <2>1. \E at : \E timeout \in {0, PROBE_TIMEOUT} : \E seconds \in Durations(timeout) :
          Charged(at, seconds)
    <3>1. ProbeLive \/ Confirm =>
            \E at : \E seconds \in Durations(PROBE_TIMEOUT) : Charged(at, seconds)
      BY DEF ProbeLive, Confirm, ProbeService
    <3>2. \A at, which, tag : ProbeTag(at, which, tag) =>
            \E seconds \in {0} \cup Durations(PROBE_TIMEOUT) : Charged(at, seconds)
      BY DEF ProbeTag
    <3>. QED
      BY <1>4, <3>1, <3>2, NoTimeTaken DEF ProbeCandidate, ProbeFallback
  <2>2. PICK at : \E timeout \in {0, PROBE_TIMEOUT} : \E seconds \in Durations(timeout) :
          Charged(at, seconds)
    BY <2>1
  <2>3. PICK timeout \in {0, PROBE_TIMEOUT} : \E seconds \in Durations(timeout) :
          Charged(at, seconds)
    BY <2>2
  <2>4. PICK seconds \in Durations(timeout) : Charged(at, seconds)
    BY <2>3
  <2>5. /\ elapsed' <= CALL_TIMEOUT + OVERRUN
        /\ elapsed' <= WORK_DEADLINE_SECONDS + timeout + OVERRUN
    BY <2>4, GrantedInTime
  <2>6. elapsed' \in Nat /\ timeout \in Nat /\ timeout <= PROBE_TIMEOUT
    <3>1. timeout \in Nat /\ timeout <= PROBE_TIMEOUT
      BY Seconds
    <3>2. seconds \in Nat
      BY <3>1, CallsLast
    <3>. QED
      BY <2>4, <3>1, <3>2, ChargedStep
  <2>7. elapsed' <= WORK_DEADLINE_SECONDS + PROBE_TIMEOUT + OVERRUN
    BY <2>5, <2>6, Seconds
  <2>. QED
    BY <2>5, <2>7 DEF TimeInv
<1>5. CASE Propose
  <2>1. Charged("propose", 0) /\ step' = "answered"
    BY <1>5 DEF Propose
  <2>. QED
    BY <2>1, GrantedInTime, NoTimeTaken DEF TimeInv
<1>6. CASE Exhausted
  <2>1. elapsed' = Now /\ step' = "answered"
    BY <1>6 DEF Exhausted
  <2>2. Now <= CALL_TIMEOUT + OVERRUN
    BY <1>1, Seconds DEF Now, TimeInv, CallerWaitsLongEnough
  <2>. QED
    BY <2>1, <2>2 DEF TimeInv
<1>7. CASE OperatorMoves
  BY <1>7 DEF OperatorMoves, TimeInv, budget
<1>8. CASE Garble
  <2>1. elapsed' = 0 /\ step' # "confirm"
    BY <1>8 DEF Garble
  <2>. QED
    BY <2>1, Seconds DEF TimeInv
<1>9. CASE Lost \/ Receive
  BY <1>9 DEF Lost, Receive, TimeInv, budget
<1>10. CASE UNCHANGED vars
  BY <1>10 DEF vars, TimeInv
<1>. QED
  BY <1>2, <1>3, <1>4, <1>5, <1>6, <1>7, <1>8, <1>9, <1>10 DEF Next

(* Whatever the timeouts are and however long calls hang, if the caller    *)
(* waits for the deadline and one call more, a worker that never converges *)
(* outlasts it at most by what one call lasts beyond its timeout           *)
(* (investigator.py:39-58, 80-104, main.py:599-608).                       *)
THEOREM InTime == CallerWaitsLongEnough /\ Spec => []LateByOneCall
<1>. SUFFICES ASSUME CallerWaitsLongEnough PROVE Spec => []LateByOneCall
  OBVIOUS
<1>1. Init => TimeInv
  BY Seconds DEF Init, TimeInv
<1>2. TypeOK /\ TimeInv /\ [Next]_vars => TimeInv'
  BY NextInTime
<1>3. TimeInv => LateByOneCall
  BY DEF TimeInv, LateByOneCall
<1>. QED
  BY <1>1, <1>2, <1>3, InvestigationTyped, PTL DEF Spec


-----------------------------------------------------------------------------
(* The conclusion.                                                         *)

(* Only the caller ends an investigation, and its end is final.            *)
LEMMA EndsOnce ==
  ASSUME [Next]_vars
  PROVE  /\ step = "done" => UNCHANGED vars
         /\ step # "done" /\ step' = "done" => Lost \/ Receive
<1>. USE DEF Charged
<1>1. CASE Again \/ Describe \/ Propose
  BY <1>1 DEF Again, Describe, Propose
<1>2. CASE ProbeLive \/ Confirm
  BY <1>2, LooksAtService DEF Looks
<1>3. CASE ProbeCandidate \/ ProbeFallback
  BY <1>3 DEF ProbeCandidate, ProbeFallback, ProbeTag, GatheredStep
<1>4. CASE Exhausted \/ OperatorMoves \/ Garble
  BY <1>4 DEF Exhausted, OperatorMoves, Garble
<1>5. CASE Lost \/ Receive
  BY <1>5 DEF Lost, Receive
<1>6. CASE UNCHANGED vars
  BY <1>6 DEF vars
<1>. QED
  BY <1>1, <1>2, <1>3, <1>4, <1>5, <1>6 DEF Next

(* The workflow concludes from the answer it got, or from having got none. *)
LEMMA NextConcludes ==
  ASSUME TInv, DoneInv, [Next]_vars
  PROVE  DoneInv'
<1>. SUFFICES ASSUME step' = "done" PROVE DoneInv'
  BY DEF DoneInv
<1>1. CASE step = "done"
  BY <1>1, EndsOnce DEF vars, DoneInv, Conclusion, authorized_revision
<1>2. CASE Lost
  BY <1>2 DEF Lost, DoneInv, NoResult
<1>3. CASE Receive
  <2>1. answer.kind # "none" /\ answer' = answer /\ described' = described
    BY <1>3 DEF Receive, TInv, StepInv
  <2>2. result' = Conclusion
    BY <1>3 DEF Receive, Conclusion
  <2>3. Conclusion' = Conclusion
    BY <2>1 DEF Conclusion, authorized_revision
  <2>. QED
    BY <2>1, <2>2, <2>3 DEF DoneInv
<1>. QED
  BY <1>1, <1>2, <1>3, EndsOnce

(* What the gate was given, when something was authorized.                 *)
LEMMA AuthorizedByGate ==
  ASSUME TypeOK, DoneInv, step = "done", Authorized(result.category)
  PROVE  /\ answer.kind = "answer" /\ answer.action # "none"
         /\ result.category = evaluate(answer.action, answer.target,
                                       within_competence("systems", answer.evidence))
         /\ result.pinned = authorized_revision(answer.action)
         /\ result.source = active_revision(described)
<1>. DEFINE decision == evaluate(answer.action, answer.target,
                                 within_competence("systems", answer.evidence))
<1>1. result = Conclusion /\ answer.kind \in {"error", "budget", "malformed", "answer"}
  BY DEF DoneInv, Authorized, TypeOK
<1>2. result.category = CategoryOf(answer)
  BY <1>1 DEF Conclusion, NoResult
<1>3. answer.kind = "answer"
  <2>1. answer.kind # "answer" =>
          CategoryOf(answer) \in {"WORKER_UNAVAILABLE", "WORKER_BUDGET_EXCEEDED",
                                  "WORKER_CONTRACT_INVALID"}
    BY <1>1 DEF CategoryOf
  <2>. QED
    BY <1>2, <2>1 DEF Authorized
<1>4. CategoryOf(answer) = IF answer.action = "none" THEN "INSUFFICIENT_EVIDENCE"
                           ELSE DecisionOn(decision, answer.action)
  BY <1>3 DEF CategoryOf
<1>. HIDE DEF decision
<1>5. answer.action # "none" /\ result.category = DecisionOn(decision, answer.action)
  BY <1>2, <1>4 DEF Authorized
<1>6. result.category = decision
  BY <1>5 DEF DecisionOn, Authorized
<1>7. /\ result.pinned = authorized_revision(answer.action)
      /\ result.source = active_revision(described)
  BY <1>1, <1>3, <1>5 DEF Conclusion
<1>. QED
  BY <1>3, <1>5, <1>6, <1>7 DEF decision


(* What the systems agent is competent to say of its evidence is exactly   *)
(* what it says about the keys it observes.                                *)
LEMMA CompetentEvidence ==
  ASSUME NEW evidence \in Seq(Item)
  PROVE  /\ within_competence("systems", evidence) \in Seq(Item)
         /\ \A m \in DOMAIN within_competence("systems", evidence) :
              \E i \in DOMAIN evidence :
                /\ within_competence("systems", evidence)[m] = evidence[i]
                /\ evidence[i].key # "server_reachable"
         /\ \A i \in DOMAIN evidence : evidence[i].key # "server_reachable" =>
              \E m \in DOMAIN within_competence("systems", evidence) :
                within_competence("systems", evidence)[m] = evidence[i]
<1>. DEFINE T      == {evidence[i] : i \in DOMAIN evidence}
            wanted == {item \in Item : item.key \in Establishes["systems"]}
            kept   == within_competence("systems", evidence)
<1>1. kept = Only(evidence, wanted)
  BY DEF within_competence
<1>2. T \subseteq Item /\ evidence \in Seq(T)
  <2>1. /\ DOMAIN evidence = 1..Len(evidence) /\ Len(evidence) \in Nat
        /\ evidence \in [1..Len(evidence) -> Item]
    BY LenProperties
  <2>2. evidence \in [1..Len(evidence) -> T]
    BY <2>1
  <2>3. evidence \in Seq(T)
    <3>. HIDE DEF T
    <3>. QED
      BY <2>1, <2>2, SeqDef
  <2>. QED
    BY <2>1, <2>3
<1>3. \A item \in Item : item \in wanted <=> item.key # "server_reachable"
  BY DEF Establishes, Item
<1>4. kept \in Seq(T \cap wanted)
  <2>. HIDE DEF T, wanted, kept
  <2>. QED
    BY <1>1, <1>2, OnlyWanted, Zenon
<1>5. kept \in Seq(Item)
  <2>1. T \cap wanted \subseteq Item
    BY <1>2
  <2>. HIDE DEF T, wanted, kept
  <2>. QED
    BY <1>4, <2>1, SeqMonotonic
<1>6. ASSUME NEW m \in DOMAIN kept
      PROVE  \E i \in DOMAIN evidence :
               kept[m] = evidence[i] /\ evidence[i].key # "server_reachable"
  <2>1. kept[m] \in T \cap wanted
    <3>. HIDE DEF T, wanted, kept
    <3>. QED
      BY <1>4, <1>6, LenProperties, ElementOfSeq
  <2>2. kept[m] \in T /\ kept[m] \in wanted
    <3>. HIDE DEF T, wanted, kept
    <3>. QED
      BY <2>1
  <2>3. kept[m] \in Item /\ kept[m].key # "server_reachable"
    <3>. HIDE DEF kept
    <3>. QED
      BY <1>3, <2>2
  <2>. HIDE DEF kept
  <2>4. PICK i \in DOMAIN evidence : kept[m] = evidence[i]
    BY <2>2
  <2>. QED
    BY <2>3, <2>4
<1>7. ASSUME NEW i \in DOMAIN evidence, evidence[i].key # "server_reachable"
      PROVE  \E m \in DOMAIN kept : kept[m] = evidence[i]
  <2>1. evidence[i] \in Item
    BY LenProperties, ElementOfSeq
  <2>2. evidence[i] \in wanted
    BY <1>3, <1>7, <2>1
  <2>. HIDE DEF wanted, kept
  <2>. QED
    BY <1>1, <2>2, OnlyKeeps, Zenon
<1>. QED
  BY <1>5, <1>6, <1>7

(* A key that the kept evidence proves, the whole answer claims to be true *)
(* wherever its claim is trusted.                                          *)
LEMMA ProvenOfAll ==
  ASSUME NEW evidence \in Seq(Item), NEW key, key # "server_reachable",
         Proven(within_competence("systems", evidence), key, TRUE)
  PROVE  {evidence[i].value :
            i \in {j \in DOMAIN evidence : evidence[j].key = key /\ evidence[j].trusted}}
           = {Bool(TRUE)}
<1>. DEFINE kept == within_competence("systems", evidence)
            said == {j \in DOMAIN evidence : evidence[j].key = key /\ evidence[j].trusted}
<1>. HIDE DEF kept
<1>1. /\ Trusted(kept, key) # {}
      /\ \A m \in Trusted(kept, key) : kept[m].value = Bool(TRUE)
  BY DEF Proven, kept
<1>2. ASSUME NEW i \in said PROVE evidence[i].value = Bool(TRUE)
  <2>1. PICK m \in DOMAIN kept : kept[m] = evidence[i]
    BY CompetentEvidence DEF kept
  <2>2. m \in Trusted(kept, key)
    BY <2>1 DEF Trusted
  <2>. QED
    BY <1>1, <2>1, <2>2
<1>3. \E i \in said : TRUE
  <2>1. PICK m \in Trusted(kept, key) : TRUE
    BY <1>1
  <2>2. m \in DOMAIN kept /\ kept[m].trusted /\ kept[m].key = key
    BY <2>1 DEF Trusted
  <2>3. PICK i \in DOMAIN evidence : kept[m] = evidence[i]
    BY <2>2, CompetentEvidence DEF kept
  <2>. QED
    BY <2>2, <2>3
<1>. QED
  BY <1>2, <1>3

(* An end that acts alone is the rollback, on evidence that is true.       *)
LEMMA EndIsProven ==
  ASSUME TInv, DoneInv
  PROVE  OnlyTrueEvidenceAuthorizes
<1>. SUFFICES ASSUME step = "done", result.category = "AUTO_ALLOWED"
              PROVE  OnlyTrueEvidenceAuthorizes
  BY DEF OnlyTrueEvidenceAuthorizes
<1>. DEFINE kept == within_competence("systems", answer.evidence)
<1>1. /\ answer.action # "none"
      /\ evaluate(answer.action, answer.target, kept) = "AUTO_ALLOWED"
  BY AuthorizedByGate DEF Authorized, TInv
<1>2. /\ answer.action \in ActionTypes /\ answer.target \in Targets
      /\ answer.evidence \in Seq(Item)
  BY <1>1 DEF TypeOK, TInv
<1>3. kept \in Seq(Item) /\ \A m \in DOMAIN kept : kept[m].key # "server_reachable"
  BY <1>2, CompetentEvidence
<1>. HIDE DEF kept
<1>4. answer.action = "FLIP_TRAFFIC_TO_LAST_GOOD"
  BY <1>1, <1>2, <1>3, OnlyRollbackRunsAlone
<1>5. /\ answer.target \in {"dispatch_web", "site_directory"}
      /\ Proven(kept, "service_unhealthy", TRUE)
      /\ Proven(kept, "candidate_revision_approved", TRUE)
      /\ Proven(kept, "candidate_probe_healthy", TRUE)
  BY <1>1, <1>2, <1>3, <1>4, AutoIsProven
<1>6. \A key \in {"service_unhealthy", "candidate_revision_approved",
                  "candidate_probe_healthy"} :
        key # "server_reachable" /\ Proven(kept, key, TRUE)
  BY <1>5
<1>7. \A key \in {"service_unhealthy", "candidate_revision_approved",
                  "candidate_probe_healthy"} :
        {answer.evidence[i].value :
           i \in {j \in DOMAIN answer.evidence :
                    answer.evidence[j].key = key /\ answer.evidence[j].trusted}}
          = {Bool(TRUE)}
  BY <1>2, <1>6, ProvenOfAll, Zenon DEF kept
<1>. QED
  BY <1>4, <1>5, <1>7, Zenon DEF OnlyTrueEvidenceAuthorizes

(* What runs without a person is the rollback of a registered non-critical *)
(* service, on evidence that is exactly true wherever it is trusted,       *)
(* whatever a faulty worker answers: any number of claims, of any value,   *)
(* about any key and any target (engine.py:28-74, main.py:2608-2650).      *)
THEOREM TrueEvidence == Spec => []OnlyTrueEvidenceAuthorizes
<1>1. Init => DoneInv
  BY DEF Init, DoneInv
<1>2. TInv /\ DoneInv /\ [Next]_vars => DoneInv'
  BY NextConcludes
<1>3. TInv /\ DoneInv => OnlyTrueEvidenceAuthorizes
  BY EndIsProven
<1>4. Init => TInv
  BY InitTyped
<1>5. TInv /\ [Next]_vars => TInv'
  BY NextTyped
<1>. QED
  BY <1>1, <1>2, <1>3, <1>4, <1>5, PTL DEF Spec


-----------------------------------------------------------------------------
(* What the probes saw.                                                    *)

(* Only its own answer is an honest one, and it changes nothing more.      *)
LEMMA HonestSteps ==
  ASSUME TInv, [Next]_vars, Honest'
  PROVE  \/ Propose
         \/ Honest /\ UNCHANGED <<answer, healthy, described, live, reached, moved, sick>>
<1>1. StepInv
  BY DEF TInv
<1>2. answer'.kind = "answer" /\ answer'.honest /\ step' \in {"answered", "done"}
  BY DEF Honest
<1>3. CASE UNCHANGED vars
  BY <1>3 DEF vars, Honest
<1>4. CASE Again
  BY <1>2, <1>4 DEF Again
<1>5. CASE Describe
  BY <1>2, <1>5 DEF Describe, NoAnswer
<1>6. CASE ProbeLive \/ Confirm
  BY <1>2, <1>6, LooksAtService DEF Looks
<1>7. CASE ProbeCandidate \/ ProbeFallback
  BY <1>2, <1>7, ProbeLeads
<1>8. CASE Exhausted
  BY <1>2, <1>8 DEF Exhausted, NoAnswer
<1>9. CASE OperatorMoves
  BY <1>2, <1>9 DEF OperatorMoves
<1>10. CASE Garble
  BY <1>2, <1>10, GarbledAnswers DEF TInv
<1>11. CASE Lost
  BY <1>1, <1>2, <1>11 DEF Lost, StepInv, NoAnswer
<1>12. CASE Receive
  BY <1>2, <1>12 DEF Receive, Honest, readings, world
<1>. QED
  BY <1>3, <1>4, <1>5, <1>6, <1>7, <1>8, <1>9, <1>10, <1>11, <1>12 DEF Next

(* It proposes what it observed.                                           *)
LEMMA NextHonest ==
  ASSUME TInv, HonestInv, [Next]_vars
  PROVE  HonestInv'
<1>. SUFFICES ASSUME Honest' PROVE answer'.action = proposed_action'
  BY DEF HonestInv
<1>1. ASSUME healthy' = healthy, described' = described
      PROVE  proposed_action' = proposed_action
  BY <1>1 DEF proposed_action
<1>2. CASE Propose
  BY <1>1, <1>2 DEF Propose, readings
<1>3. CASE Honest /\ UNCHANGED <<answer, healthy, described, live, reached, moved, sick>>
  BY <1>1, <1>3 DEF HonestInv
<1>. QED
  BY <1>2, <1>3, HonestSteps

(* A body that reads as failing is no well revision's.                     *)
LEMMA FailingAnswers ==
  ASSUME NEW r, NEW body \in Answers({r})
  PROVE  /\ ~body_is_healthy(body) => ~(r \notin sick /\ body # Unreachable)
         /\ body_is_healthy(body) => r \notin sick
<1>1. r \notin sick => body \in {Unreachable} \cup WellBodies
  BY DEF Answers
<1>2. r \in sick => body \in {Unreachable} \cup SickBodies
  BY DEF Answers
<1>3. ~body_is_healthy(Unreachable)
  BY DEF body_is_healthy, Unreachable
<1>4. \A known \in WellBodies \cup SickBodies :
        body_is_healthy(known) <=> SaysHealthy(known)
  BY InvestigationAssumption, BodiesReadTruly
<1>5. /\ r \notin sick => body_is_healthy(body) \/ body = Unreachable
      /\ r \in sick => ~body_is_healthy(body)
  BY <1>1, <1>2, <1>3, <1>4, AnswersAssumption
<1>. QED
  BY <1>5

(* A look that reads as failing is counted as one.                         *)
LEMMA FailingLook ==
  ASSUME TInv, LookInv, NEW at \in {"probe_live", "confirm"}, Looks(at)
  PROVE  /\ step' \in {"confirm", "probe_candidate"}
         /\ step' = "confirm" => live' = <<FALSE>>
         /\ step' = "probe_candidate" /\ ~healthy'.service => live' = <<FALSE, FALSE>>
<1>0. PICK r \in {service[i].revision : i \in Serving(service)} :
       \E body \in Answers({r}) :
         /\ healthy' = [healthy EXCEPT !.service = body_is_healthy(body)]
         /\ live' = Append(live, r \notin sick /\ body # Unreachable)
         /\ step' = IF at = "probe_live" /\ ~body_is_healthy(body) THEN "confirm"
                    ELSE "probe_candidate"
  BY DEF Looks
<1>1. PICK body \in Answers({r}) :
         /\ healthy' = [healthy EXCEPT !.service = body_is_healthy(body)]
         /\ live' = Append(live, r \notin sick /\ body # Unreachable)
         /\ step' = IF at = "probe_live" /\ ~body_is_healthy(body) THEN "confirm"
                    ELSE "probe_candidate"
  BY <1>0
<1>. DEFINE well == r \notin sick /\ body # Unreachable
<1>2. ~body_is_healthy(body) => ~well
  BY FailingAnswers
<1>3. healthy'.service = body_is_healthy(body)
  BY <1>1 DEF TInv, TypeOK
<1>4. step = at /\ (step = "probe_live" => live = <<>>) /\ (step = "confirm" => live = <<FALSE>>)
  BY LooksTyped DEF TInv, StepInv, LookInv
<1>5. well \in BOOLEAN /\ live' = Append(live, well)
  BY <1>1
<1>. HIDE DEF well
<1>6. ~body_is_healthy(body) /\ at = "probe_live" => live' = <<FALSE>>
  BY <1>2, <1>4, <1>5, LooksAdd, Zenon
<1>7. ~body_is_healthy(body) /\ at = "confirm" => live' = <<FALSE, FALSE>>
  BY <1>2, <1>4, <1>5, LooksAdd, Zenon
<1>8. body_is_healthy(body) \in BOOLEAN
  BY ReadsBoolean
<1>. QED
  BY <1>1, <1>3, <1>6, <1>7, <1>8

(* No single look condemns the service.                                    *)
LEMMA NextLooks ==
  ASSUME TInv, LookInv, [Next]_vars
  PROVE  LookInv'
<1>1. CASE ProbeLive \/ Confirm
  <2>1. \E at \in {"probe_live", "confirm"} : Looks(at)
    BY <1>1, LooksAtService
  <2>2. /\ step' \in {"confirm", "probe_candidate"}
        /\ step' = "confirm" => live' = <<FALSE>>
        /\ step' = "probe_candidate" /\ ~healthy'.service => live' = <<FALSE, FALSE>>
    BY <2>1, FailingLook
  <2>. QED
    BY <2>2 DEF LookInv, Looked, Honest
<1>2. CASE ~(ProbeLive \/ Confirm)
  <2>1. step' = "confirm" => step = "confirm" /\ live' = live
    <3>1. CASE Again \/ Describe \/ Propose \/ Exhausted \/ Garble \/ Lost \/ Receive
      BY <3>1 DEF Again, Describe, Propose, Exhausted, Garble, Lost, Receive
    <3>2. CASE ProbeCandidate \/ ProbeFallback
      BY <3>2, ProbeLeads
    <3>3. CASE OperatorMoves \/ UNCHANGED vars
      BY <3>3 DEF OperatorMoves, vars, readings
    <3>. QED
      BY <1>2, <3>1, <3>2, <3>3 DEF Next
  <2>2. ASSUME step' \in {"probe_candidate", "probe_fallback", "propose"}
        PROVE  /\ step \in {"probe_candidate", "probe_fallback", "propose"}
               /\ live' = live /\ healthy'.service = healthy.service
    <3>1. CASE Again \/ Describe \/ Propose \/ Exhausted \/ Garble \/ Lost \/ Receive
      BY <2>2, <3>1 DEF Again, Describe, Propose, Exhausted, Garble, Lost, Receive
    <3>2. CASE ProbeCandidate
      <4>1. step = "probe_candidate" /\ live' = live
        BY <3>2 DEF ProbeCandidate, ProbeTag, Charged
      <4>2. healthy'.service = healthy.service
        BY <3>2 DEF ProbeCandidate, ProbeTag, TInv, TypeOK
      <4>. QED
        BY <4>1, <4>2
    <3>3. CASE ProbeFallback
      <4>1. step = "probe_fallback" /\ live' = live
        BY <3>3 DEF ProbeFallback, ProbeTag, Charged
      <4>2. healthy'.service = healthy.service
        BY <3>3 DEF ProbeFallback, ProbeTag, TInv, TypeOK
      <4>. QED
        BY <4>1, <4>2
    <3>4. CASE OperatorMoves \/ UNCHANGED vars
      BY <2>2, <3>4 DEF OperatorMoves, vars, readings
    <3>. QED
      BY <1>2, <3>1, <3>2, <3>3, <3>4 DEF Next
  <2>3. ASSUME Honest'
        PROVE  Looked /\ live' = live /\ healthy' = healthy
    <3>1. CASE Propose
      BY <3>1 DEF Propose, Charged, Looked, readings
    <3>2. CASE Honest /\ UNCHANGED <<answer, healthy, described, live, reached, moved, sick>>
      BY <3>2 DEF Looked
    <3>. QED
      BY <2>3, <3>1, <3>2, HonestSteps
  <2>. QED
    BY <2>1, <2>2, <2>3 DEF LookInv, Looked
<1>. QED
  BY <1>1, <1>2


(* What an honest worker proposes, and what it has read when it does.      *)
LEMMA ProposedFrom ==
  ASSUME TypeOK, proposed_action # "none"
  PROVE  /\ ~healthy.service
         /\ \/ /\ proposed_action = "FLIP_TRAFFIC_TO_LAST_GOOD"
               /\ approved(described) /\ healthy.candidate
            \/ /\ proposed_action = "SHIFT_TRAFFIC_TO_APPROVED_CANDIDATE"
               /\ ~approved(described) /\ healthy.fallback
<1>1. healthy.service \in BOOLEAN /\ healthy.candidate \in BOOLEAN /\ healthy.fallback \in BOOLEAN
  BY DEF TypeOK
<1>2. approved(described) \in BOOLEAN
  BY DEF approved
<1>. QED
  BY <1>1, <1>2 DEF proposed_action

(* What is authorized of an honest answer is what it proposes.             *)
LEMMA AuthorizedProposal ==
  ASSUME TInv, DoneInv, HonestInv, step = "done", answer.honest,
         Authorized(result.category)
  PROVE  /\ Honest /\ ~healthy.service
         /\ result.pinned = authorized_revision(answer.action)
         /\ result.source = active_revision(described)
         /\ \/ /\ answer.action = "FLIP_TRAFFIC_TO_LAST_GOOD"
               /\ approved(described) /\ healthy.candidate
            \/ /\ answer.action = "SHIFT_TRAFFIC_TO_APPROVED_CANDIDATE"
               /\ ~approved(described) /\ healthy.fallback
<1>1. /\ answer.kind = "answer" /\ answer.action # "none"
      /\ result.pinned = authorized_revision(answer.action)
      /\ result.source = active_revision(described)
  BY AuthorizedByGate DEF TInv
<1>2. Honest
  BY <1>1 DEF Honest
<1>3. answer.action = proposed_action
  BY <1>2 DEF HonestInv
<1>. QED
  BY <1>1, <1>2, <1>3, ProposedFrom DEF TInv

(* A service's outage is confirmed by a second look before its traffic is  *)
(* moved, and alone it is moved only to the revision behind the known-good *)
(* tag                                                                     *)
(* (cloud_run_evidence.py:541-551, action_policy.json).                    *)
THEOREM ConfirmedOutage == Spec => []OutageIsConfirmed
<1>. DEFINE IInv == TInv /\ DoneInv /\ HonestInv /\ LookInv
<1>1. Init => IInv
  <2>1. Init => DoneInv /\ HonestInv /\ LookInv
    BY DEF Init, DoneInv, HonestInv, LookInv, Looked, Honest
  <2>. QED
    BY <2>1, InitTyped
<1>2. IInv /\ [Next]_vars => IInv'
  BY NextTyped, NextConcludes, NextHonest, NextLooks
<1>3. IInv => OutageIsConfirmed
  <2>. SUFFICES ASSUME IInv, step = "done", answer.honest, Authorized(result.category)
                PROVE  /\ live = <<FALSE, FALSE>>
                       /\ result.category = "AUTO_ALLOWED" =>
                            \E i \in Tagged(described) :
                              described[i].revision = result.pinned
    BY DEF OutageIsConfirmed
  <2>1. /\ Honest /\ ~healthy.service
        /\ result.pinned = authorized_revision(answer.action)
        /\ answer.action = "FLIP_TRAFFIC_TO_LAST_GOOD" => approved(described)
    BY AuthorizedProposal
  <2>2. live = <<FALSE, FALSE>>
    BY <2>1 DEF LookInv, Looked
  <2>3. ASSUME result.category = "AUTO_ALLOWED"
        PROVE  \E i \in Tagged(described) : described[i].revision = result.pinned
    <3>1. answer.action = "FLIP_TRAFFIC_TO_LAST_GOOD"
      BY <2>3, EndIsProven DEF OnlyTrueEvidenceAuthorizes
    <3>2. /\ result.pinned = candidate_revision(described)
          /\ candidate_revision(described) # NoRevision
      BY <2>1, <3>1 DEF authorized_revision, approved
    <3>3. described \in Seq(TrafficEntry)
      BY Described DEF TInv, TypeOK
    <3>. QED
      BY <3>2, <3>3, ActiveAndCandidate
  <2>. QED
    BY <2>2, <2>3
<1>. HIDE DEF IInv
<1>. QED
  BY <1>1, <1>2, <1>3, PTL DEF Spec


(* Up to the last probe.                                                   *)
LEMMA NextEarly ==
  ASSUME TInv, EarlyInv, [Next]_vars
  PROVE  EarlyInv'
<1>0. healthy \in [{"candidate", "fallback", "service"} -> BOOLEAN]
  BY DEF TInv, TypeOK
<1>1. CASE Again
  <2>1. step' = "describe" /\ healthy' = Unprobed
    BY <1>1 DEF Again
  <2>. QED
    BY <2>1 DEF EarlyInv, Probing, Unprobed
<1>2. CASE Describe
  <2>1. step = "describe" /\ healthy' = healthy /\ service' = service
    BY <1>2 DEF Describe, Charged, readings, world
  <2>2. \/ step' = "probe_live" /\ described' = service
        \/ step' = "answered"
    BY <1>2 DEF Describe
  <2>. QED
    BY <2>1, <2>2 DEF EarlyInv, Probing
<1>3. CASE ProbeLive \/ Confirm
  <2>1. PICK at \in {"probe_live", "confirm"} : Looks(at)
    BY <1>3, LooksAtService
  <2>2. /\ step = at /\ step' \in {"confirm", "probe_candidate"}
        /\ UNCHANGED <<service, moved, described>>
    BY <2>1, LooksTyped DEF Looks, world
  <2>3. healthy'.candidate = healthy.candidate /\ healthy'.fallback = healthy.fallback
    BY <1>0, <2>1 DEF Looks
  <2>. QED
    BY <2>2, <2>3 DEF EarlyInv, Probing
<1>4. CASE ProbeCandidate
  <2>1. /\ step = "probe_candidate" /\ UNCHANGED <<service, moved, described>>
        /\ healthy'.fallback = healthy.fallback
    BY <1>0, <1>4 DEF ProbeCandidate, ProbeTag, Charged, world
  <2>2. /\ step' \in {"probe_fallback", "again", "propose"}
        /\ step' = "probe_fallback" => ~approved(described)
    BY <1>4 DEF ProbeCandidate, GatheredStep
  <2>3. approved(described)' = approved(described)
    BY <2>1
  <2>. QED
    BY <2>1, <2>2, <2>3 DEF EarlyInv, Probing
<1>5. CASE ProbeFallback
  <2>1. /\ step = "probe_fallback" /\ UNCHANGED <<service, moved, described>>
        /\ step' \in {"again", "propose"}
    BY <1>5, ProbeLeads DEF ProbeFallback, ProbeTag, Charged, world
  <2>. QED
    BY <2>1 DEF EarlyInv, Probing
<1>6. CASE Propose \/ Exhausted \/ Lost \/ Receive
  BY <1>6 DEF Propose, Exhausted, Lost, Receive, EarlyInv, Probing
<1>7. CASE OperatorMoves
  <2>1. moved' = TRUE /\ UNCHANGED <<step, described, healthy>>
    BY <1>7 DEF OperatorMoves, readings
  <2>2. approved(described)' = approved(described)
    BY <2>1
  <2>. QED
    BY <2>1, <2>2 DEF EarlyInv
<1>8. CASE Garble
  BY <1>8 DEF Garble, EarlyInv, Probing
<1>9. CASE UNCHANGED vars
  <2>1. UNCHANGED <<step, moved, service, described, healthy>>
    BY <1>9 DEF vars
  <2>2. approved(described)' = approved(described)
    BY <2>1
  <2>. QED
    BY <2>1, <2>2 DEF EarlyInv
<1>. QED
  BY <1>1, <1>2, <1>3, <1>4, <1>5, <1>6, <1>7, <1>8, <1>9 DEF Next

(* A tag leads to the revision whose entry carries it.                     *)
LEMMA CarrierIsTagged ==
  ASSUME service \in Services, NEW i \in DOMAIN service, service[i].tag # NoTag,
         NEW r \in Carriers(service[i].tag)
  PROVE  r = service[i].revision
<1>1. TagsAreUnique(service)
  BY InvestigationAssumption
<1>2. PICK j \in DOMAIN service : service[j].tag = service[i].tag /\ r = service[j].revision
  BY DEF Carriers
<1>. QED
  BY <1>1, <1>2 DEF TagsAreUnique

(* A reading turns to healthy only by a probe that a well revision answers.*)
LEMMA HealthyProbe ==
  ASSUME TInv, NEW at, NEW which \in {"candidate", "fallback"}, NEW tag,
         ProbeTag(at, which, tag), ~healthy[which], healthy'[which]
  PROVE  tag # NoTag /\ reached' \in Carriers(tag) /\ reached' \notin sick
<1>1. healthy \in [{"candidate", "fallback", "service"} -> BOOLEAN]
  BY DEF TInv, TypeOK
<1>2. /\ tag # NoTag
      /\ \E r \in Carriers(tag) : \E body \in Answers({r}) :
           /\ healthy' = [healthy EXCEPT ![which] = body_is_healthy(body)]
           /\ reached' = r
  BY DEF ProbeTag
<1>3. PICK r \in Carriers(tag) : \E body \in Answers({r}) :
        healthy' = [healthy EXCEPT ![which] = body_is_healthy(body)] /\ reached' = r
  BY <1>2
<1>4. PICK body \in Answers({r}) :
        healthy' = [healthy EXCEPT ![which] = body_is_healthy(body)] /\ reached' = r
  BY <1>3
<1>5. body_is_healthy(body)
  BY <1>1, <1>4
<1>. QED
  BY <1>2, <1>3, <1>5, <1>4, FailingAnswers

(* After the last probe.                                                   *)
LEMMA NextFound ==
  ASSUME TInv, EarlyInv, FoundInv, [Next]_vars
  PROVE  FoundInv'
<1>0. /\ service \in Services /\ described \in Services \cup {<<>>}
      /\ healthy \in [{"candidate", "fallback", "service"} -> BOOLEAN]
      /\ service \in Seq(TrafficEntry) /\ described \in Seq(TrafficEntry)
  BY Described DEF TInv, TypeOK
<1>1. ASSUME described' = described
      PROVE  /\ approved(described)' = approved(described)
             /\ candidate_revision(described)' = candidate_revision(described)
             /\ fallback(described)' = fallback(described)
  BY <1>1
<1>. SUFFICES ASSUME Gathered'
              PROVE  /\ approved(described)' /\ healthy'.candidate =>
                          Reached(candidate_revision(described))'
                     /\ ~approved(described)' /\ healthy'.fallback =>
                          /\ fallback(described)'.tag # NoTag
                          /\ Reached(fallback(described).revision)'
  BY DEF FoundInv
<1>2. CASE Honest'
  <2>1. Gathered /\ UNCHANGED <<healthy, described, reached, moved, sick>>
    <3>1. CASE Propose
      BY <3>1 DEF Propose, Charged, Gathered, readings, world
    <3>2. CASE Honest /\ UNCHANGED <<answer, healthy, described, live, reached, moved, sick>>
      BY <3>2 DEF Gathered
    <3>. QED
      BY <1>2, <3>1, <3>2, HonestSteps
  <2>. QED
    BY <1>1, <2>1 DEF FoundInv, Reached
<1>3. CASE step' = "propose" /\ ProbeCandidate
  <2>1. /\ step = "probe_candidate"
        /\ UNCHANGED <<service, sick, moved, described>>
        /\ healthy'.fallback = healthy.fallback
    BY <1>0, <1>3 DEF ProbeCandidate, ProbeTag, Charged, world
  <2>2. ~healthy.candidate /\ ~healthy.fallback /\ (~moved => service = described)
    BY <2>1 DEF EarlyInv, Probing
  <2>3. ASSUME approved(described)', healthy'.candidate, ~moved
        PROVE  reached' = candidate_revision(described) /\ reached' \notin sick
    <3>1. candidate_revision(described) # NoRevision
      BY <1>1, <2>1, <2>3 DEF approved
    <3>2. ProbeTag("probe_candidate", "candidate", KNOWN_GOOD_TAG)
      BY <1>3, <3>1 DEF ProbeCandidate
    <3>3. /\ KNOWN_GOOD_TAG # NoTag
          /\ reached' \in Carriers(KNOWN_GOOD_TAG) /\ reached' \notin sick
      BY <2>2, <2>3, <3>2, HealthyProbe
    <3>4. PICK i \in Tagged(described) : candidate_revision(described) = described[i].revision
      BY <1>0, <3>1, ActiveAndCandidate
    <3>5. i \in DOMAIN service /\ service[i].tag = KNOWN_GOOD_TAG
      BY <2>2, <2>3, <3>4 DEF Tagged
    <3>. QED
      BY <1>0, <2>2, <2>3, <3>3, <3>4, <3>5, CarrierIsTagged
  <2>. QED
    BY <1>1, <2>1, <2>2, <2>3 DEF Reached
<1>4. CASE step' = "propose" /\ ProbeFallback
  <2>1. /\ step = "probe_fallback" /\ UNCHANGED <<service, sick, moved, described>>
        /\ ProbeTag("probe_fallback", "fallback", fallback(described).tag)
    BY <1>4 DEF ProbeFallback, ProbeTag, Charged, world
  <2>2. /\ ~healthy.fallback /\ ~approved(described)
        /\ ~moved => service = described
    BY <2>1 DEF EarlyInv, Probing
  <2>3. ASSUME healthy'.fallback
        PROVE  /\ fallback(described).tag # NoTag
               /\ reached' \in Carriers(fallback(described).tag) /\ reached' \notin sick
    BY <2>1, <2>2, <2>3, HealthyProbe
  <2>4. ASSUME healthy'.fallback, ~moved
        PROVE  reached' = fallback(described).revision
    <3>1. PICK i \in Addressable(described) :
            fallback(described) = [revision |-> described[i].revision,
                                   tag      |-> described[i].tag]
      BY <1>0, <2>3, <2>4, FallbackIsAddressable
    <3>2. /\ i \in DOMAIN service /\ service[i].tag = fallback(described).tag
          /\ service[i].revision = fallback(described).revision
      BY <2>2, <2>4, <3>1 DEF Addressable
    <3>. QED
      BY <1>0, <2>3, <2>4, <3>2, CarrierIsTagged
  <2>. QED
    BY <1>1, <2>1, <2>2, <2>3, <2>4 DEF Reached
<1>5. CASE step' = "propose" /\ (OperatorMoves \/ UNCHANGED vars)
  <2>1. /\ step = "propose" /\ UNCHANGED <<healthy, described, reached, sick>>
        /\ moved' = TRUE \/ moved' = moved
    BY <1>5 DEF OperatorMoves, vars, readings
  <2>. QED
    BY <1>1, <2>1 DEF FoundInv, Gathered, Reached
<1>6. step' = "propose" => ProbeCandidate \/ ProbeFallback \/ OperatorMoves \/ UNCHANGED vars
  <2>1. Again \/ Describe \/ Propose \/ Exhausted \/ Garble \/ Lost \/ Receive =>
          step' # "propose"
    BY DEF Again, Describe, Propose, Exhausted, Garble, Lost, Receive
  <2>2. ProbeLive \/ Confirm => step' # "propose"
    BY LooksAtService DEF Looks
  <2>. QED
    BY <2>1, <2>2 DEF Next
<1>. QED
  BY <1>2, <1>3, <1>4, <1>5, <1>6 DEF Gathered

(* An authorized change pins the revision its own probe found well, and    *)
(* never the one that took the traffic, for any traffic, tags and failures *)
(* (cloud_run_evidence.py:528-586, main.py:1071-1101).                     *)
THEOREM ProbedPin == Spec => []PinnedWasProbed
<1>. DEFINE IInv == TInv /\ DoneInv /\ HonestInv /\ EarlyInv /\ FoundInv
<1>1. Init => IInv
  <2>1. Init => DoneInv /\ HonestInv /\ FoundInv
    BY DEF Init, DoneInv, HonestInv, FoundInv, Gathered, Honest
  <2>2. Init => EarlyInv
    BY DEF Init, EarlyInv, Probing, Unprobed
  <2>. QED
    BY <2>1, <2>2, InitTyped
<1>2. IInv /\ [Next]_vars => IInv'
  BY NextTyped, NextConcludes, NextHonest, NextEarly, NextFound
<1>3. IInv => PinnedWasProbed
  <2>. SUFFICES ASSUME IInv, step = "done", answer.honest, Authorized(result.category)
                PROVE  /\ result.pinned \in Revisions \ {result.source}
                       /\ moved \/ (result.pinned = reached /\ reached \notin sick)
    BY DEF PinnedWasProbed
  <2>1. /\ Gathered /\ described \in Seq(TrafficEntry)
        /\ result.pinned = authorized_revision(answer.action)
        /\ result.source = active_revision(described)
        /\ \/ /\ answer.action = "FLIP_TRAFFIC_TO_LAST_GOOD"
              /\ approved(described) /\ healthy.candidate
           \/ /\ answer.action = "SHIFT_TRAFFIC_TO_APPROVED_CANDIDATE"
              /\ ~approved(described) /\ healthy.fallback
    BY AuthorizedProposal, Described DEF TInv, TypeOK, Gathered
  <2>2. CASE approved(described) /\ healthy.candidate
    <3>1. result.pinned = candidate_revision(described)
      BY <2>1, <2>2 DEF authorized_revision
    <3>2. result.pinned \in Revisions \ {result.source}
      BY <2>1, <2>2, <3>1, ActiveAndCandidate DEF approved
    <3>. QED
      BY <2>1, <2>2, <3>1, <3>2 DEF FoundInv, Reached
  <2>3. CASE ~approved(described) /\ healthy.fallback
    <3>1. result.pinned = fallback(described).revision
      BY <2>1, <2>3 DEF authorized_revision
    <3>2. fallback(described).tag # NoTag /\ Reached(fallback(described).revision)
      BY <2>1, <2>3 DEF FoundInv
    <3>3. PICK i \in Addressable(described) :
            fallback(described) = [revision |-> described[i].revision,
                                   tag      |-> described[i].tag]
      BY <2>1, <3>2, FallbackIsAddressable
    <3>4. i \in 1..Len(described) /\ described[i].revision # active_revision(described)
      BY <2>1, <3>3, LenProperties DEF Addressable
    <3>5. described[i] \in TrafficEntry
      BY <2>1, <3>4, ElementOfSeq
    <3>6. described[i].revision \in Revisions
      BY <3>5 DEF TrafficEntry
    <3>. QED
      BY <2>1, <3>1, <3>2, <3>3, <3>4, <3>6 DEF Reached
  <2>. QED
    BY <2>1, <2>2, <2>3
<1>. HIDE DEF IInv
<1>. QED
  BY <1>1, <1>2, <1>3, PTL DEF Spec
=============================================================================
