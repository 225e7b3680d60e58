---------------------------- MODULE Investigation ----------------------------
(***************************************************************************)
(* One investigation, from the orchestrator's call to the gate's decision: *)
(* the evidence the investigator gathers under its work budget             *)
(* (src/src/scf/app/investigator.py, tools/cloud_run_evidence.py), the     *)
(* contract its answer must meet, what it is competent to say, and what    *)
(* the gate makes of it (main.py, _run_remediation).                       *)
(*                                                                         *)
(* The service is a list of traffic entries, its revisions sick or well;   *)
(* an operator may change the list while it is being investigated.  Time   *)
(* is counted in seconds; a call takes no time, its timeout, or longer: the*)
(* timeout bounds each connection and each read, not a streamed call that  *)
(* follows redirects, and nothing bounds the token refreshed before the    *)
(* description is asked for.                                               *)
(***************************************************************************)
EXTENDS PolicyGate, HealthBody

CONSTANTS
  Revisions, NoRevision,
  Services,            \* the traffic lists a service may have
  WellBodies,          \* what a healthy revision answers
  SickBodies,          \* what a failing revision answers
  Garbage,             \* Evidence items a faulty worker may add
  Claimable,           \* the targets it may name
  MAX_TOOL_CALLS,
  ADMIN_CALL_TIMEOUT, PROBE_TIMEOUT, CONFIRM_UNHEALTHY_AFTER_SECONDS,
  HEADROOM,            \* seconds of the deadline beyond the worst case
  OVERRUN,             \* how long a call may last beyond its timeout
  CALL_TIMEOUT         \* the orchestrator's patience with the investigator

(* An entry of the traffic: who takes how much of it, under which tag.     *)
NoTag == ""

TrafficEntry == [revision : Revisions, percent : 0..100, tag : STRING]

(* Cloud Run lets a tag stand for one revision.                            *)
TagsAreUnique(entries) ==
  \A i, j \in DOMAIN entries :
    entries[i].tag = entries[j].tag /\ entries[i].tag # NoTag
      => entries[i].revision = entries[j].revision

(* What a probe that fails in any way reads.                               *)
Unreachable == [form |-> "empty"]

ASSUME InvestigationAssumption ==
  /\ NoRevision \notin Revisions
  /\ Services \subseteq Seq(TrafficEntry)
  /\ \A entries \in Services : TagsAreUnique(entries)
  /\ \A body \in WellBodies \cup SickBodies : IsBody(body)
  /\ Garbage \subseteq Item /\ Claimable \subseteq Targets
  /\ {MAX_TOOL_CALLS, ADMIN_CALL_TIMEOUT, PROBE_TIMEOUT, HEADROOM, OVERRUN,
      CONFIRM_UNHEALTHY_AFTER_SECONDS, CALL_TIMEOUT} \subseteq Nat

(* A revision that answers says how it is: a reader cannot see more.       *)
ASSUME AnswersAssumption ==
  /\ \A body \in WellBodies : SaysHealthy(body)
  /\ \A body \in SickBodies : ~SaysHealthy(body)

VARIABLES
  service,    \* the traffic entries as they are
  sick,       \* the revisions that fail
  looping,    \* the worker runs its evidence pass over and over
  step,       \* where the worker has got to
  described,  \* the entries it read
  healthy,    \* its reading of the three kinds of probe
  live,       \* for each live probe: did a well revision answer it?
  reached,    \* the revision its last tag probe really reached
  moved,      \* an operator changed the service since it was described
  calls,      \* the steps its budget has granted
  elapsed,    \* the seconds it has taken
  answer,     \* the worker's answer
  result      \* the workflow's conclusion, with the revisions it pins

vars == <<service, sick, looping, step, described, healthy, live, reached,
          moved, calls, elapsed, answer, result>>

world    == <<service, sick, looping, moved>>
readings == <<healthy, live, reached>>
budget   == <<calls, elapsed>>

-----------------------------------------------------------------------------
(* What gather_evidence reads off a description.                           *)

KNOWN_GOOD_TAG == "known-good"

Serving(entries)  == {i \in DOMAIN entries : entries[i].percent > 0}
Full(entries)     == {i \in DOMAIN entries : entries[i].percent = 100}
Tagged(entries)   == {i \in DOMAIN entries : entries[i].tag = KNOWN_GOOD_TAG}

RevisionAt(entries, indices) ==
  IF indices = {} THEN NoRevision
  ELSE entries[CHOOSE i \in indices : \A j \in indices : j <= i].revision

active_revision(entries)    == RevisionAt(entries, Full(entries))
candidate_revision(entries) == RevisionAt(entries, Tagged(entries))

(* Mutant: the tag is enough, wherever it is.                              *)
MutantTagIsEnough(entries) == candidate_revision(entries) # NoRevision

approved(entries) ==
  /\ candidate_revision(entries) # NoRevision
  /\ candidate_revision(entries) # active_revision(entries)

(* The first addressable entry that is not the active revision.            *)
Addressable(entries) ==
  {i \in DOMAIN entries : /\ entries[i].tag # NoTag
                          /\ entries[i].revision # active_revision(entries)}

fallback(entries) ==
  IF Addressable(entries) = {} THEN [revision |-> NoRevision, tag |-> NoTag]
  ELSE LET first == CHOOSE i \in Addressable(entries) :
                      \A j \in Addressable(entries) : i <= j
       IN  [revision |-> entries[first].revision, tag |-> entries[first].tag]

(* A tag's URL leads to whatever revision carries the tag by then.         *)
Carriers(tag) ==
  {service[i].revision : i \in {j \in DOMAIN service : service[j].tag = tag}}

-----------------------------------------------------------------------------
(* What a probe may read: a failure of any kind, or what a revision says.  *)
Answers(revisions) ==
  {Unreachable} \cup (IF revisions \ sick # {} THEN WellBodies ELSE {})
                \cup (IF revisions \cap sick # {} THEN SickBodies ELSE {})

-----------------------------------------------------------------------------
(* WorkBudget.spend and check, and the deadline derived from the work.     *)

GATHER_EVIDENCE_WORST_CASE_SECONDS ==
  ADMIN_CALL_TIMEOUT + PROBE_TIMEOUT + CONFIRM_UNHEALTHY_AFTER_SECONDS
    + PROBE_TIMEOUT + PROBE_TIMEOUT

WORK_DEADLINE_SECONDS == GATHER_EVIDENCE_WORST_CASE_SECONDS + HEADROOM

check(now) == now <= WORK_DEADLINE_SECONDS

(* Mutant: a step is counted, the clock is not looked at.                  *)
MutantIgnoresClock(now) == calls < MAX_TOOL_CALLS

(* Mutant: only the clock bounds the work.                                 *)
MutantIgnoresCount(now) == check(now)

spend(now) == calls < MAX_TOOL_CALLS /\ check(now)

NoAnswer == [kind |-> "none", honest |-> TRUE, evidence |-> <<>>,
             action |-> "none", target |-> "dispatch_web"]

NoResult == [category |-> "none", pinned |-> NoRevision, source |-> NoRevision]

Unprobed == [candidate |-> FALSE, fallback |-> FALSE, service |-> FALSE]

Init ==
  /\ service \in Services
  /\ sick \in SUBSET Revisions
  /\ looping \in BOOLEAN
  /\ step = IF looping THEN "again" ELSE "describe"
  /\ described = <<>>
  /\ healthy = Unprobed /\ live = <<>> /\ reached = NoRevision
  /\ moved = FALSE
  /\ calls = 0 /\ elapsed = 0
  /\ answer = NoAnswer /\ result = NoResult

-----------------------------------------------------------------------------
(* The worker's steps.  Each is charged before it is taken.                *)

(* The clock when the next step is charged: the confirming look sleeps     *)
(* first.                                                                  *)
Now == elapsed + IF step = "confirm" THEN CONFIRM_UNHEALTHY_AFTER_SECONDS ELSE 0

(* How long a call with this timeout may last.                             *)
Durations(timeout) == {0, timeout, timeout + OVERRUN}

(* A granted step that lasts this long.                                    *)
Charged(at, seconds) ==
  /\ step = at /\ spend(Now)
  /\ calls' = calls + 1 /\ elapsed' = Now + seconds

(* Another pass of a worker that does not converge.                        *)
Again ==
  /\ Charged("again", 0) /\ step' = "describe"
  /\ live' = <<>> /\ healthy' = Unprobed /\ reached' = NoRevision
  /\ described' = <<>>
  /\ UNCHANGED <<world, answer, result>>

Describe ==
  /\ \E seconds \in Durations(ADMIN_CALL_TIMEOUT) : Charged("describe", seconds)
  /\ \/ /\ step' = "probe_live" /\ described' = service
        /\ UNCHANGED answer
     \/ /\ step' = "answered" /\ answer' = [NoAnswer EXCEPT !.kind = "error"]
        /\ UNCHANGED described
  /\ UNCHANGED <<world, readings, result>>

(* A probe of the live service, which any of its revisions may answer.     *)
ProbeService(at, Then(_)) ==
  /\ \E seconds \in Durations(PROBE_TIMEOUT) : Charged(at, seconds)
  /\ \E r \in {service[i].revision : i \in Serving(service)} :
       \E body \in Answers({r}) :
         /\ healthy' = [healthy EXCEPT !.service = body_is_healthy(body)]
         /\ live' = Append(live, r \notin sick /\ body # Unreachable)
         /\ step' = Then(body_is_healthy(body))
  /\ UNCHANGED <<world, described, reached, answer, result>>

(* Mutant: one failed look is enough.                                      *)
MutantOneLook ==
  ProbeService("probe_live", LAMBDA ok : "probe_candidate")

ProbeLive ==
  ProbeService("probe_live",
               LAMBDA ok : IF ok THEN "probe_candidate" ELSE "confirm")

Confirm == ProbeService("confirm", LAMBDA ok : "probe_candidate")

(* A probe of a tag's own URL; without a URL, it reads nothing.            *)
ProbeTag(at, which, tag) ==
  /\ \E seconds \in IF tag = NoTag THEN {0} ELSE Durations(PROBE_TIMEOUT) :
       Charged(at, seconds)
  /\ IF tag = NoTag \/ Carriers(tag) = {}
     THEN UNCHANGED <<healthy, reached>>
     ELSE \E r \in Carriers(tag) : \E body \in Answers({r}) :
            /\ healthy' = [healthy EXCEPT ![which] = body_is_healthy(body)]
            /\ reached' = r
  /\ UNCHANGED <<world, described, live, answer, result>>

GatheredStep == IF looping THEN "again" ELSE "propose"

(* Charged whether or not there is a tag to probe.                         *)
ProbeCandidate ==
  /\ ProbeTag("probe_candidate", "candidate",
              IF candidate_revision(described) # NoRevision
              THEN KNOWN_GOOD_TAG ELSE NoTag)
  /\ step' = IF /\ ~approved(described) /\ ~healthy.service
                /\ fallback(described).tag # NoTag
             THEN "probe_fallback" ELSE GatheredStep

ProbeFallback ==
  /\ ProbeTag("probe_fallback", "fallback", fallback(described).tag)
  /\ step' = GatheredStep

gathered_evidence ==
  LET ev(key, value) == [key |-> key, value |-> Bool(value), trusted |-> TRUE]
  IN  << ev("service_unhealthy", ~healthy.service),
         ev("candidate_revision_approved", approved(described)),
         ev("candidate_probe_healthy", healthy.candidate),
         ev("fallback_candidate_probe_healthy", healthy.fallback) >>

(* propose_remediation.                                                    *)
proposed_action ==
  CASE healthy.service -> "none"
    [] ~healthy.service /\ approved(described) ->
         IF healthy.candidate THEN "FLIP_TRAFFIC_TO_LAST_GOOD" ELSE "none"
    [] ~healthy.service /\ ~approved(described) ->
         IF healthy.fallback THEN "SHIFT_TRAFFIC_TO_APPROVED_CANDIDATE"
         ELSE "none"

Propose ==
  /\ Charged("propose", 0) /\ step' = "answered"
  /\ answer' = [kind |-> "answer", honest |-> TRUE, target |-> "dispatch_web",
                evidence |-> gathered_evidence, action |-> proposed_action]
  /\ UNCHANGED <<world, described, readings, result>>

(* BudgetExhausted: a terminal answer that carries no evidence.            *)
Exhausted ==
  /\ step \notin {"answered", "done"} /\ ~spend(Now)
  /\ step' = "answered" /\ elapsed' = Now
  /\ answer' = [NoAnswer EXCEPT !.kind = "budget"]
  /\ UNCHANGED <<world, described, readings, calls, result>>

-----------------------------------------------------------------------------
(* Around the worker.                                                      *)

(* An operator shifts traffic or moves a tag, once per investigation.      *)
OperatorMoves ==
  /\ step \notin {"again", "describe", "answered", "done"} /\ ~moved
  /\ service' \in Services \ {service} /\ moved' = TRUE
  /\ UNCHANGED <<sick, looping, step, described, readings, budget, answer,
                 result>>

Tampered(evidence, item) ==
  {<<item>> \o evidence, evidence \o <<item>>}
    \cup {[evidence EXCEPT ![i] = item] : i \in DOMAIN evidence}

(* A faulty worker: an authenticated answer that is not what it observed,  *)
(* with an item more or an item replaced.                                  *)
(* One fault at a time, not while an operator moves the traffic; and what  *)
(* the caller never sees of its work is forgotten.                         *)
Garble ==
  /\ step = "answered" /\ answer.kind = "answer" /\ answer.honest /\ ~moved
  /\ \/ answer' = [NoAnswer EXCEPT !.kind = "malformed", !.honest = FALSE]
     \/ \E items \in UNION {Tampered(answer.evidence, item) : item \in Garbage} :
          \E action \in ActionTypes, target \in Claimable :
            answer' = [kind |-> "answer", honest |-> FALSE, evidence |-> items,
                       action |-> action, target |-> target]
  /\ calls' = 0 /\ elapsed' = 0 /\ live' = <<>>
  /\ UNCHANGED <<world, step, described, healthy, reached, result>>

(* The call fails before its answer is in: a transport error, a 5xx, or    *)
(* the caller's own timeout.                                               *)
Lost ==
  /\ step \notin {"answered", "done"} /\ step' = "done"
  /\ \E category \in {"WORKER_UNAVAILABLE", "WORKER_TIMEOUT"} :
       result' = [NoResult EXCEPT !.category = category]
  /\ UNCHANGED <<world, described, readings, budget, answer>>

-----------------------------------------------------------------------------
(* _run_remediation, up to the decision it saves.                          *)

DecisionOn(decision, action) ==
  CASE decision # "DENIED" -> decision
    [] decision = "DENIED" /\ action \in DANGEROUS_ACTIONS ->
         "DANGEROUS_ACTION_REFUSED"
    [] decision = "DENIED" /\ action \notin DANGEROUS_ACTIONS ->
         "INSUFFICIENT_EVIDENCE"

CategoryOf(a) ==
  CASE a.kind = "error"     -> "WORKER_UNAVAILABLE"
    [] a.kind = "budget"    -> "WORKER_BUDGET_EXCEEDED"
    [] a.kind = "malformed" -> "WORKER_CONTRACT_INVALID"
    [] a.kind = "answer"    ->
         IF a.action = "none" THEN "INSUFFICIENT_EVIDENCE"
         ELSE DecisionOn(evaluate(a.action, a.target,
                                  within_competence("systems", a.evidence)),
                         a.action)

authorized_revision(action) ==
  IF action = "SHIFT_TRAFFIC_TO_APPROVED_CANDIDATE"
  THEN fallback(described).revision ELSE candidate_revision(described)

Receive ==
  /\ step = "answered" /\ step' = "done"
  /\ result' = IF answer.kind = "answer" /\ answer.action # "none"
               THEN [category |-> CategoryOf(answer),
                     pinned   |-> authorized_revision(answer.action),
                     source   |-> active_revision(described)]
               ELSE [NoResult EXCEPT !.category = CategoryOf(answer)]
  /\ UNCHANGED <<world, described, readings, budget, answer>>

Next ==
  \/ Again \/ Describe \/ ProbeLive \/ Confirm \/ ProbeCandidate
  \/ ProbeFallback \/ Propose \/ Exhausted
  \/ OperatorMoves \/ Garble \/ Lost \/ Receive

Spec == Init /\ [][Next]_vars

-----------------------------------------------------------------------------
Steps == {"again", "describe", "probe_live", "confirm", "probe_candidate",
          "probe_fallback", "propose", "answered", "done"}

(* The types; no more steps are granted than the budget has                *)
(* (investigator.py:88-96).                                                *)
TypeOK ==
  /\ service \in Services /\ sick \subseteq Revisions
  /\ looping \in BOOLEAN /\ moved \in BOOLEAN /\ step \in Steps
  /\ described \in Services \cup {<<>>}
  /\ healthy \in [{"candidate", "fallback", "service"} -> BOOLEAN]
  /\ live \in {<<>>, <<FALSE>>, <<TRUE>>} \cup (BOOLEAN \X BOOLEAN)
  /\ reached \in Revisions \cup {NoRevision}
  /\ calls \in 0..MAX_TOOL_CALLS /\ elapsed \in Nat
  /\ answer.kind \in {"none", "error", "budget", "malformed", "answer"}
  /\ answer.evidence \in Seq(Item)
  /\ answer.action \in ActionTypes \cup {"none"} /\ answer.target \in Targets
  /\ {result.pinned, result.source} \subseteq Revisions \cup {NoRevision}

Authorized(category) == category \in {"AUTO_ALLOWED", "APPROVAL_REQUIRED"}

(* What an honest worker's evidence gets authorized pins a revision other  *)
(* than the one that took the traffic, and unless an operator moved a tag  *)
(* meanwhile it pins the very revision that answered its own probe, and    *)
(* that is well (cloud_run_evidence.py:528-586, main.py:1071-1101).        *)
PinnedWasProbed ==
  step = "done" /\ answer.honest /\ Authorized(result.category) =>
    /\ result.pinned \in Revisions \ {result.source}
    /\ moved \/ (result.pinned = reached /\ reached \notin sick)

(* One bad look is a blip: traffic is moved only after two looks at the    *)
(* live service that no well revision answered, and without a person only  *)
(* to the revision behind the known-good tag                               *)
(* (cloud_run_evidence.py:541-551, action_policy.json).                    *)
OutageIsConfirmed ==
  step = "done" /\ answer.honest /\ Authorized(result.category) =>
    /\ live = <<FALSE, FALSE>>
    /\ result.category = "AUTO_ALLOWED" =>
         \E i \in Tagged(described) : described[i].revision = result.pinned

(* Whatever the worker answers, what runs without a person is the rollback *)
(* of a registered non-critical service, and every claim of a key it needs *)
(* that carries trust is the boolean true: not an untrusted claim, not a   *)
(* number, not a claim contradicted by another, not a key this worker      *)
(* cannot observe (engine.py:28-74, main.py:2608-2650).                    *)
OnlyTrueEvidenceAuthorizes ==
  step = "done" /\ result.category = "AUTO_ALLOWED" =>
    /\ answer.action = "FLIP_TRAFFIC_TO_LAST_GOOD"
    /\ answer.target \in {"dispatch_web", "site_directory"}
    /\ \A key \in {"service_unhealthy", "candidate_revision_approved",
                    "candidate_probe_healthy"} :
         {answer.evidence[i].value :
            i \in {j \in DOMAIN answer.evidence :
                     answer.evidence[j].key = key /\ answer.evidence[j].trusted}}
           = {Bool(TRUE)}

(* Wherever the worker probes, any JSON body is read by levels: a nested   *)
(* failure is never outvoted by a healthy top level, nor hidden by a       *)
(* negation, its depth, or a repeated key whose values Python can tell     *)
(* apart (cloud_run_evidence.py:178-263, 311-402, 405-414).                *)
HealthReading ==
  step \in {"probe_live", "confirm", "probe_candidate", "probe_fallback"}
    => ReadsByLevels

(* Even a worker that never converges, and whose every call may hang, keeps*)
(* its caller waiting past the caller's patience at most for what one call *)
(* lasts beyond its timeout: delays do not add up, for none is followed by *)
(* another call (investigator.py:39-58, 80-104, main.py:599-608).          *)
LateByOneCall == elapsed <= CALL_TIMEOUT + OVERRUN

(* The comments claim that the deadline covers the work it bounds          *)
(* (investigator.py:44-49, cloud_run_evidence.py:488-499): an              *)
(* investigation that converges never runs out of budget.                  *)
BudgetCoversTheWork == ~looping => answer.kind # "budget"
=============================================================================
