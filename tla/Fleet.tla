-------------------------------- MODULE Fleet --------------------------------
(***************************************************************************)
(* POST /incidents in full: module Orchestrator with the steps it leaves   *)
(* open filled in (src/src/scf/app/main.py, create_incident and _run_fleet)*)
(*                                                                         *)
(*   - screening the report, and what was read off a screenshot of it,     *)
(*     before a model sees either (security/model_armor.py);               *)
(*   - routing, the governed catalog, the read-only specialists and the    *)
(*     delegation to Systems (agents/routing.py, app/specialists.py);      *)
(*   - what the duty manager is told in the end (app/continuity.py).       *)
(***************************************************************************)
EXTENDS Orchestrator, Selection

CONSTANTS
  Catalogs,    \* the specialists the catalog may declare selectable
  Proposals,   \* what the routing model may ask for
  Reports      \* what a specialist may report, [name -> set of sequences]

Gate == INSTANCE PolicyGate

Specialists == {"network", "systems", "security", "continuity"}
EVIDENCE_SPECIALISTS == {"network", "security"}

FleetKeys == {"network_reachable", "identity_posture_sound", "service_unhealthy"}
FleetItem == [key : FleetKeys, value : Gate!Values, trusted : BOOLEAN]

ASSUME FleetAssumption ==
  /\ Catalogs \subseteq SUBSET Specialists
  /\ Proposals \subseteq Seq(Specialists)
  /\ Reports \in [EVIDENCE_SPECIALISTS -> SUBSET Seq(FleetItem)]

VARIABLES
  stage,       \* where the request is outside the workflow's own steps
  selectable,  \* the catalog's selectable specialists
  image,       \* a screenshot that can be decoded is attached
  response,    \* what the screener answered for each text
  required,    \* the specialists routed to
  pending,     \* the ones still to consult
  evidence,    \* what the consulted ones found
  consulted,   \* whose findings, or work, there are
  final,       \* outcome["final_status"]
  message      \* what the manager is told

request   == <<selectable, image>>
routing   == <<required, pending, evidence, consulted>>
reporting == <<final, message>>
fleetvars == <<stage, request, response, routing, reporting>>

-----------------------------------------------------------------------------
(* Screening.                                                              *)

Texts == {"report", "transcript"}

REQUIRED_FILTER == "pi_and_jailbreak"
Filters == {REQUIRED_FILTER, "rai"}

(* A response: its verdict and what each filter that reported says of      *)
(* itself.  A failed call, a status of 400 or more, and a body that is not *)
(* of this shape are no response.                                          *)
ScreenerResponses ==
  [match   : {"MATCH_FOUND", "NO_MATCH_FOUND", "unrecognised"},
   filters : UNION {[names -> {"ran", "skipped"}] : names \in SUBSET Filters}]

NoResponse == [match |-> "none", filters |-> [f \in {} |-> "ran"]]

(* Mutant: the verdict is believed whoever reported.                       *)
MutantBelievesVerdict(r) ==
  CASE r.match = "NO_MATCH_FOUND" -> "allowed"
    [] r.match = "MATCH_FOUND" -> "refused"
    [] r.match \notin {"MATCH_FOUND", "NO_MATCH_FOUND"} -> "unavailable"

(* _read_verdict.                                                          *)
read_verdict(r) ==
  IF \/ r.match \notin {"MATCH_FOUND", "NO_MATCH_FOUND"}
     \/ REQUIRED_FILTER \notin DOMAIN r.filters
     \/ \E f \in DOMAIN r.filters : r.filters[f] = "skipped"
  THEN "unavailable"
  ELSE IF r.match = "NO_MATCH_FOUND" THEN "allowed" ELSE "refused"

-----------------------------------------------------------------------------
NoMessage == [headline |-> "none", next |-> "none"]

FleetInit ==
  /\ Init
  /\ stage = "screen_report"
  /\ selectable \in Catalogs /\ image \in BOOLEAN
  /\ response = [t \in Texts |-> NoResponse]
  /\ required = <<>> /\ pending = <<>> /\ evidence = <<>> /\ consulted = {}
  /\ final = "none" /\ message = NoMessage

(* The request ends without consulting anybody: _fail, and its answer.     *)
Stop(category) ==
  /\ stage' = "stopped" /\ Fail(Workflow, category) /\ Locally
  /\ UNCHANGED <<request, routing, reporting>>

Advance(next) ==
  /\ stage' = next
  /\ UNCHANGED <<vars, request, routing, reporting>>

(* A text is screened; the request goes on only with a text allowed.       *)
ScreenText(text, next) ==
  \E r \in ScreenerResponses \cup {NoResponse} :
    /\ response' = [response EXCEPT ![text] = r]
    /\ CASE read_verdict(r) = "allowed"     -> Advance(next)
         [] read_verdict(r) = "refused"     -> Stop("UNTRUSTED_CONTENT_BLOCKED")
         [] read_verdict(r) = "unavailable" ->
              Stop("SECURITY_SCREENING_UNAVAILABLE")

(* Any exception counts as unavailable, that of record_screening included. *)
ScreenReport ==
  stage = "screen_report"
    /\ ScreenText("report", IF image THEN "transcribe" ELSE "route")

(* A screenshot that cannot be read, or shows no text, is left out.        *)
Transcribe ==
  /\ stage = "transcribe"
  /\ Advance("screen_transcript") \/ Advance("route")
  /\ UNCHANGED response

ScreenTranscript ==
  stage = "screen_transcript" /\ ScreenText("transcript", "route")

-----------------------------------------------------------------------------
(* Routing.  What the model asks for is cut down to what the catalog       *)
(* allows; an output outside the contract stops the request.               *)

is_selectable(name) == name \in selectable

governed(proposed) == Only(proposed, selectable)

RouteIncident ==
  /\ stage = "route"
  /\ response' = [t \in Texts |-> NoResponse]
  /\ \/ Stop("MODEL_OUTPUT_INVALID")
     \/ \E proposed \in Proposals :
          /\ stage' = "fleet"
          /\ required' = governed(proposed)
          /\ pending' = Only(required', EVIDENCE_SPECIALISTS)
          /\ Goto(Workflow, "route") /\ Locally
          /\ UNCHANGED <<request, evidence, consulted, reporting>>

-----------------------------------------------------------------------------
(* _run_fleet.                                                             *)

(* The keys the registry lets a specialist assert.                         *)
Establishes ==
  [network  |-> {"network_reachable"},
   security |-> {"identity_posture_sound"},
   systems  |-> {"service_unhealthy"}]

(* Mutant: what an authenticated specialist says is kept.                  *)
MutantBelievesAgent(agent, items) == items

within_competence(agent, items) ==
  Only(items, {item \in FleetItem : item.key \in Establishes[agent]})

Consulting == stage = "fleet" /\ At(Workflow, "consult")

(* _consult: a specialist that fails, or breaks its contract, found nothing*)
ConsultSpecialist ==
  /\ Consulting /\ pending # <<>>
  /\ LET name == Head(pending)
     IN  \E items \in Reports[name] \cup {<<>>} :
           LET kept == within_competence(name, items)
           IN  /\ evidence' = evidence \o kept
               /\ consulted' = consulted \cup (IF kept = <<>> THEN {} ELSE {name})
  /\ pending' = Tail(pending)
  /\ UNCHANGED <<vars, stage, request, response, required, reporting>>

(* facts.get("network_reachable") is True.                                 *)
Reachable ==
  Gate!trusted_evidence_map(evidence, "network_reachable") = Gate!Bool(TRUE)

RunSystems ==
  \/ "systems" \in Range(required)
  \/ Reachable /\ is_selectable("systems")

(* Mutants: Systems is brought in before every specialist has been asked;  *)
(* an incident nobody may act on is left where it is.                      *)
MutantDelegatesFirst ==
  /\ Consulting
  /\ IF RunSystems
     THEN Goto(Workflow, "investigate") /\ consulted' = consulted \cup {"systems"}
     ELSE Goto(Workflow, "hand_off") /\ UNCHANGED consulted
  /\ required' = <<>> /\ evidence' = <<>>
  /\ Locally
  /\ UNCHANGED <<stage, request, response, pending, reporting>>

MutantHandsOffNothing ==
  /\ Consulting /\ pending = <<>>
  /\ IF RunSystems
     THEN Goto(Workflow, "investigate") /\ consulted' = consulted \cup {"systems"}
     ELSE Goto(Workflow, "done") /\ UNCHANGED consulted
  /\ required' = <<>> /\ evidence' = <<>>
  /\ Locally
  /\ UNCHANGED <<stage, request, response, pending, reporting>>

(* Systems acts, or nobody does and a person takes over.                   *)
Delegate ==
  /\ Consulting /\ pending = <<>>
  /\ IF RunSystems
     THEN Goto(Workflow, "investigate") /\ consulted' = consulted \cup {"systems"}
     ELSE Goto(Workflow, "hand_off") /\ UNCHANGED consulted
  /\ required' = <<>> /\ evidence' = <<>>
  /\ Locally
  /\ UNCHANGED <<stage, request, response, pending, reporting>>

-----------------------------------------------------------------------------
(* The steps Orchestrator has.  The outcome's final status is read where   *)
(* a failure has settled or the workflow has made its last transition; a   *)
(* failure handler that itself fails leaves none.                          *)

LastTransitions == {"park", "resolve", "hand_off"}

SettlesNow ==
  /\ pc'[Workflow] # pc[Workflow]
  /\ \/ pc'[Workflow] = "save"
     \/ pc'[Workflow] = "done" /\ pc[Workflow] \in LastTransitions

WorkflowStep ==
  /\ ~At(Workflow, "screen") /\ ~At(Workflow, "consult")
  /\ HandlerStep(Workflow)
  /\ final' = IF SettlesNow THEN status' ELSE final
  /\ UNCHANGED <<stage, request, response, routing, message>>

Elsewhere ==
  /\ \/ \E h \in Handlers \ {Workflow} : HandlerStep(h)
     \/ \E c \in Callers : ExecutorStep(c) \/ CloudRunStep(c)
     \/ Environment
  /\ UNCHANGED fleetvars

-----------------------------------------------------------------------------
(* _compose_manager_status and the Continuity Coordinator.                 *)

(* Mutant: a missing key is read as None.                                  *)
MutantMissingIsNone(h) == Mutated(h)

(* Presence, not truthiness: an absent key is False.                       *)
changed_anything(h) == IF changed[h] = "absent" THEN "no" ELSE changed[h]

awaiting_human == final = "WAITING_FOR_APPROVAL"

headline ==
  CASE final = "RESOLVED" -> "restored"
    [] awaiting_human -> "needs_approval"
    [] final \notin {"RESOLVED", "WAITING_FOR_APPROVAL"} ->
         IF "security" \in consulted THEN "sign_in" ELSE "working"

what_happens_next ==
  CASE awaiting_human -> "needs_approval"
    [] final = "RESOLVED" -> "restored"
    [] final \notin {"RESOLVED", "WAITING_FOR_APPROVAL"} ->
         CASE changed_anything(Workflow) = "unknown" -> "unconfirmed"
           [] changed_anything(Workflow) = "no"      -> "nothing_changed"
           [] changed_anything(Workflow) = "yes"     -> "being_confirmed"

(* A Coordinator that is not configured, or fails, costs the message.      *)
ComposeStatus ==
  /\ stage = "fleet" /\ At(Workflow, "done") /\ stage' = "answered"
  /\ message' \in {NoMessage, [headline |-> headline, next |-> what_happens_next]}
  /\ UNCHANGED <<vars, request, response, routing, final>>

FleetNext ==
  \/ ScreenReport \/ Transcribe \/ ScreenTranscript \/ RouteIncident
  \/ ConsultSpecialist \/ Delegate
  \/ WorkflowStep \/ Elsewhere \/ ComposeStatus

FleetSpec == FleetInit /\ [][FleetNext]_<<vars, fleetvars>>

-----------------------------------------------------------------------------
Stages == {"screen_report", "transcribe", "screen_transcript", "route",
           "stopped", "fleet", "answered"}

(* The types; a request that was stopped has consulted nobody, and one that*)
(* is not stopped settles before it is answered (main.py 147-501).         *)
FleetTypeOK ==
  /\ stage \in Stages /\ selectable \in Catalogs /\ image \in BOOLEAN
  /\ response \in [Texts -> ScreenerResponses \cup {NoResponse}]
  /\ required \in Seq(Specialists) /\ pending \in Seq(EVIDENCE_SPECIALISTS)
  /\ evidence \in Seq(FleetItem) /\ consulted \subseteq Specialists
  /\ final \in Statuses \cup {"none"}
  /\ stage = "stopped" => consulted = {} /\ message = NoMessage
  /\ stage = "answered" => pending = <<>> /\ required = <<>>

(* Once a model is asked to route, the report and whatever was read off the*)
(* screenshot have each been cleared, on the word of the detector the gate *)
(* exists for and of no filter that did not run                            *)
(* (main.py 229-240, 345-354, model_armor.py 134-172).                     *)
RoutedIsCleared ==
  stage = "route" =>
    \A t \in Texts :
      \/ t = "transcript" /\ response[t] = NoResponse
      \/ /\ response[t].match = "NO_MATCH_FOUND"
         /\ REQUIRED_FILTER \in DOMAIN response[t].filters
         /\ "skipped" \notin Range(response[t].filters)

(* Systems is brought in only while the catalog offers it, and when nobody *)
(* routed to it only because the last trusted word on the network, given by*)
(* the specialist that can observe it, says that the site is reachable:    *)
(* no other specialist's claim and nothing in the report is enough         *)
(* (main.py 2786-2813, 2608-2650, engine.py 12-25).                        *)
DelegationIsEarned ==
  [][At(Workflow, "consult") /\ pc'[Workflow] = "investigate" =>
       /\ "systems" \in selectable
       /\ \/ "systems" \in Range(required)
          \/ /\ "network" \in consulted
             /\ \E i \in DOMAIN evidence :
                  /\ evidence[i] = [key |-> "network_reachable", trusted |-> TRUE,
                                    value |-> Gate!Bool(TRUE)]
                  /\ \A j \in (i + 1)..Len(evidence) :
                       evidence[j].key = "network_reachable" => ~evidence[j].trusted
    ]_<<vars, fleetvars>>

(* A manager is told that the service has been restored only of an incident*)
(* that is resolved, on an execution closed as VERIFIED                    *)
(* (continuity.py 124-153, main.py 1375-1380).                             *)
RestoredIsVerified ==
  "restored" \in {message.headline, message.next}
    => status = "RESOLVED" /\ exec.state = "VERIFIED"

(* A manager is told of a change, confirmed or not, only if this request's *)
(* own write was accepted: not for another caller's, and not for one that  *)
(* may still be refused (main.py 1255, 2728-2740).                        *)
ToldOfChangeWasMade ==
  message.next \in {"unconfirmed", "being_confirmed"} => put[Workflow] = "accepted"

(* The request, in all this detail, does what Orchestrator says of it: the *)
(* same transitions of the incident, in the same order (main.py 147-501,   *)
(* 2756-2834).                                                             *)
WorkflowSpec == Spec

(* The comment at main.py 2728-2735 says that an absent key means nothing  *)
(* changed: who is told so has no change of this automation's on the way   *)
(* or in place.                                                            *)
UnchangedIsTrue ==
  message.next = "nothing_changed" =>
    \A c \in Callers : put[c] \notin {"inflight", "accepted"}
=============================================================================
