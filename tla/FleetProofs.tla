------------------------------ MODULE FleetProofs ------------------------------
(***************************************************************************)
(* Theorems about Fleet, for any catalog, any proposals and any reports.   *)
(***************************************************************************)
EXTENDS Fleet, OrchestratorProofs

(* What RoutedIsCleared says of one text's response.                       *)
Cleared(r) ==
  /\ r.match = "NO_MATCH_FOUND"
  /\ REQUIRED_FILTER \in DOMAIN r.filters
  /\ "skipped" \notin Range(r.filters)

(* The texts that are cleared by the time the request is at a stage.  An   *)
(* image's text has no response until it is screened.                      *)
ScreenInv ==
  /\ DOMAIN response = Texts
  /\ stage \in {"screen_report", "transcribe", "screen_transcript"} =>
       response["transcript"] = NoResponse
  /\ stage \in {"transcribe", "screen_transcript", "route"} =>
       Cleared(response["report"])
  /\ stage = "route" =>
       response["transcript"] = NoResponse \/ Cleared(response["transcript"])

(* A response that is read as allowed is the gate's own word.              *)
LEMMA AllowedIsCleared ==
  ASSUME NEW r \in ScreenerResponses \cup {NoResponse}, read_verdict(r) = "allowed"
  PROVE  Cleared(r)
<1>1. r.match = "NO_MATCH_FOUND" /\ REQUIRED_FILTER \in DOMAIN r.filters
  BY DEF read_verdict
<1>2. \A f \in DOMAIN r.filters : r.filters[f] # "skipped"
  BY DEF read_verdict
<1>. QED
  BY <1>1, <1>2 DEF Cleared, Range

(* Screening one text: the request goes on only with that text cleared, and*)
(* ends otherwise.                                                         *)
LEMMA ScreenedStep ==
  ASSUME DOMAIN response = Texts, NEW text \in Texts, NEW next,
         ScreenText(text, next)
  PROVE  /\ DOMAIN response' = Texts
         /\ \A t \in Texts \ {text} : response'[t] = response[t]
         /\ \/ stage' = "stopped"
            \/ stage' = next /\ Cleared(response'[text])
<1>1. PICK r \in ScreenerResponses \cup {NoResponse} :
        /\ response' = [response EXCEPT ![text] = r]
        /\ CASE read_verdict(r) = "allowed"     -> Advance(next)
             [] read_verdict(r) = "refused"     -> Stop("UNTRUSTED_CONTENT_BLOCKED")
             [] read_verdict(r) = "unavailable" ->
                  Stop("SECURITY_SCREENING_UNAVAILABLE")
  BY DEF ScreenText
<1>2. read_verdict(r) \in {"allowed", "refused", "unavailable"}
  BY DEF read_verdict
<1>3. /\ DOMAIN response' = Texts
      /\ \A t \in Texts \ {text} : response'[t] = response[t]
      /\ response'[text] = r
  BY <1>1
<1>4. CASE read_verdict(r) = "allowed"
  <2>1. stage' = next
    BY <1>1, <1>4 DEF Advance
  <2>. QED
    BY <2>1, <1>3, <1>4, AllowedIsCleared
<1>5. CASE read_verdict(r) \in {"refused", "unavailable"}
  <2>1. stage' = "stopped"
    BY <1>1, <1>5 DEF Stop
  <2>. QED
    BY <2>1, <1>3
<1>. QED
  BY <1>2, <1>4, <1>5

(* Nothing is screened yet.                                                *)
LEMMA InitScreenInv == FleetInit => ScreenInv
  BY DEF FleetInit, ScreenInv, Texts

(* ScreenInv is kept by every step: four of them move the stage before the *)
(* routing, and the others begin after it or leave stage and responses     *)
(* alone.                                                                  *)
LEMMA NextScreenInv ==
  ScreenInv /\ [FleetNext]_<<vars, fleetvars>> => ScreenInv'
<1>. SUFFICES ASSUME ScreenInv, [FleetNext]_<<vars, fleetvars>>
              PROVE  ScreenInv'
  OBVIOUS
<1>. USE DEF ScreenInv
<1>1. CASE ScreenReport
  <2>. DEFINE next == IF image THEN "transcribe" ELSE "route"
  <2>1. stage = "screen_report" /\ ScreenText("report", next)
    BY <1>1 DEF ScreenReport
  <2>2. /\ DOMAIN response' = Texts
        /\ response'["transcript"] = response["transcript"]
        /\ stage' = "stopped" \/ (stage' = next /\ Cleared(response'["report"]))
    BY <2>1, ScreenedStep DEF Texts
  <2>. QED
    BY <2>1, <2>2
<1>2. CASE Transcribe
  <2>1. stage = "transcribe" /\ stage' \in {"screen_transcript", "route"}
    BY <1>2 DEF Transcribe, Advance
  <2>2. UNCHANGED response
    BY <1>2 DEF Transcribe
  <2>. QED
    BY <2>1, <2>2 DEF Cleared
<1>3. CASE ScreenTranscript
  <2>1. stage = "screen_transcript" /\ ScreenText("transcript", "route")
    BY <1>3 DEF ScreenTranscript
  <2>2. /\ DOMAIN response' = Texts
        /\ response'["report"] = response["report"]
        /\ \/ stage' = "stopped"
           \/ stage' = "route" /\ Cleared(response'["transcript"])
    BY <2>1, ScreenedStep DEF Texts
  <2>3. Cleared(response'["report"])
    BY <2>1, <2>2
  <2>. QED
    BY <2>2, <2>3
<1>4. CASE RouteIncident
  <2>1. DOMAIN response' = Texts
    BY <1>4 DEF RouteIncident
  <2>2. stage' \in {"stopped", "fleet"}
    BY <1>4 DEF RouteIncident, Stop
  <2>. QED
    BY <2>1, <2>2
<1>5. CASE ComposeStatus
  <2>1. stage' = "answered" /\ UNCHANGED response
    BY <1>5 DEF ComposeStatus
  <2>. QED
    BY <2>1
<1>6. CASE UNCHANGED <<stage, response>>
  BY <1>6 DEF Cleared
<1>7. CASE ConsultSpecialist \/ Delegate \/ WorkflowStep
  <2>1. UNCHANGED <<stage, response>>
    BY <1>7 DEF ConsultSpecialist, Delegate, WorkflowStep
  <2>. QED
    BY <2>1, <1>6
<1>8. CASE Elsewhere \/ UNCHANGED <<vars, fleetvars>>
  <2>1. UNCHANGED <<stage, response>>
    BY <1>8 DEF Elsewhere, fleetvars
  <2>. QED
    BY <2>1, <1>6
<1>. QED
  BY <1>1, <1>2, <1>3, <1>4, <1>5, <1>7, <1>8 DEF FleetNext

(* No text reaches the routing model that the screener did not clear.      *)
THEOREM OnlyClearedIsRouted == FleetSpec => []RoutedIsCleared
<1>1. ScreenInv => RoutedIsCleared
  <2>. SUFFICES ASSUME ScreenInv, stage = "route", NEW t \in Texts
                PROVE  \/ t = "transcript" /\ response[t] = NoResponse
                       \/ Cleared(response[t])
    BY DEF RoutedIsCleared, Cleared
  <2>. QED
    BY DEF ScreenInv, Texts
<1>. QED
  BY <1>1, InitScreenInv, NextScreenInv, PTL DEF FleetSpec

-----------------------------------------------------------------------------
(* The request does what Orchestrator says of it.                          *)

(* The workflow is at its screening exactly while texts are screened and   *)
(* routed.                                                                 *)
Screening == {"screen_report", "transcribe", "screen_transcript", "route"}

StageInv ==
  /\ stage \in Stages
  /\ pc[Workflow] = "screen" <=> stage \in Screening
  /\ stage = "answered" => pc[Workflow] \notin {"route", "consult"}

(* A request that stops reports its failure from the screening.            *)
LEMMA StopIsScreen ==
  ASSUME TypeInv, pc[Workflow] = "screen", NEW category \in IntakeFailures, Stop(category)
  PROVE  Screen(Workflow) /\ stage' = "stopped" /\ pc'[Workflow] = "fail"
<1>1. Fail(Workflow, category) /\ Locally /\ stage' = "stopped" /\ Workflow \in Handlers
  BY DEF Stop, Handlers
<1>. QED
  BY <1>1 DEF Screen, At, Fail, Report, TypeInv, LocalTyped

(* Screening a text moves nothing, or reports a failure.                   *)
LEMMA ScreenedOrStopped ==
  ASSUME TypeInv, pc[Workflow] = "screen", NEW text, NEW next, ScreenText(text, next)
  PROVE  /\ UNCHANGED <<request, routing, reporting>>
         /\ \E r \in ScreenerResponses \cup {NoResponse} :
              response' = [response EXCEPT ![text] = r]
         /\ \/ UNCHANGED vars /\ stage' = next
            \/ Screen(Workflow) /\ stage' = "stopped" /\ pc'[Workflow] = "fail"
<1>1. PICK r \in ScreenerResponses \cup {NoResponse} :
        /\ response' = [response EXCEPT ![text] = r]
        /\ CASE read_verdict(r) = "allowed"     -> Advance(next)
             [] read_verdict(r) = "refused"     -> Stop("UNTRUSTED_CONTENT_BLOCKED")
             [] read_verdict(r) = "unavailable" ->
                  Stop("SECURITY_SCREENING_UNAVAILABLE")
  BY DEF ScreenText
<1>2. read_verdict(r) \in {"allowed", "refused", "unavailable"}
  BY DEF read_verdict
<1>3. Advance(next) \/ \E category \in IntakeFailures : Stop(category)
  BY <1>1, <1>2 DEF IntakeFailures
<1>4. CASE Advance(next)
  BY <1>1, <1>4 DEF Advance
<1>5. CASE \E category \in IntakeFailures : Stop(category)
  <2>1. UNCHANGED <<request, routing, reporting>>
    BY <1>5 DEF Stop
  <2>. QED
    BY <1>1, <1>5, <2>1, StopIsScreen
<1>. QED
  BY <1>3, <1>4, <1>5

(* What a step of the request is to the workflow.                          *)
WorkflowMoves(from, to) ==
  HandlerStep(Workflow) /\ pc[Workflow] = from /\ pc'[Workflow] = to

(* The request's steps before the fleet is consulted are silent, end the   *)
(* incident, or hand the workflow on to its routing.                       *)
LEMMA ScreeningSteps ==
  ASSUME TypeInv, StageInv, ScreenReport \/ Transcribe \/ ScreenTranscript \/ RouteIncident
  PROVE  /\ pc[Workflow] = "screen"
         /\ \/ UNCHANGED vars /\ stage' \in Screening
            \/ WorkflowMoves("screen", "fail") /\ stage' = "stopped"
            \/ WorkflowMoves("screen", "route") /\ stage' = "fleet"
<1>. USE DEF Screening
<1>1. pc[Workflow] = "screen"
  BY DEF StageInv, ScreenReport, Transcribe, ScreenTranscript, RouteIncident
<1>2. Screen(Workflow) => HandlerStep(Workflow)
  BY Zenon DEF HandlerStep, CreateIncident
<1>3. CASE ScreenReport
  <2>. DEFINE next == IF image THEN "transcribe" ELSE "route"
  <2>1. ScreenText("report", next) /\ next \in Screening
    BY <1>3 DEF ScreenReport
  <2>. HIDE DEF next
  <2>. QED
    BY <1>1, <1>2, <2>1, ScreenedOrStopped DEF WorkflowMoves
<1>4. CASE Transcribe
  <2>1. UNCHANGED vars /\ stage' \in {"screen_transcript", "route"}
    BY <1>4 DEF Transcribe, Advance
  <2>. QED
    BY <1>1, <2>1
<1>5. CASE ScreenTranscript
  <2>1. ScreenText("transcript", "route")
    BY <1>5 DEF ScreenTranscript
  <2>. QED
    BY <1>1, <1>2, <2>1, ScreenedOrStopped DEF WorkflowMoves
<1>6. CASE RouteIncident
  <2>1. CASE Stop("MODEL_OUTPUT_INVALID")
    BY <1>1, <1>2, <2>1, StopIsScreen DEF WorkflowMoves, IntakeFailures
  <2>2. CASE stage' = "fleet" /\ Goto(Workflow, "route") /\ Locally
    <3>1. Screen(Workflow)
      BY <1>1, <2>2 DEF Screen, At
    <3>2. pc'[Workflow] = "route"
      BY <2>2 DEF Goto, TypeInv, LocalTyped, Handlers
    <3>. QED
      BY <1>1, <1>2, <2>2, <3>1, <3>2 DEF WorkflowMoves
  <2>. QED
    BY <1>6, <2>1, <2>2 DEF RouteIncident
<1>. QED
  BY <1>1, <1>3, <1>4, <1>5, <1>6

(* Delegation is the workflow's consultation.                              *)
LEMMA DelegateIsConsult ==
  ASSUME TypeInv, Delegate
  PROVE  /\ HandlerStep(Workflow) /\ pc[Workflow] = "consult" /\ stage = "fleet"
         /\ pc'[Workflow] \in {"investigate", "hand_off"} /\ stage' = "fleet"
<1>1. /\ At(Workflow, "consult") /\ Locally /\ stage = "fleet" /\ stage' = stage
      /\ Goto(Workflow, "investigate") \/ Goto(Workflow, "hand_off")
  BY DEF Delegate, Consulting
<1>2. Consult(Workflow)
  BY <1>1 DEF Consult
<1>3. HandlerStep(Workflow)
  BY <1>2, Zenon DEF HandlerStep, CreateIncident
<1>4. pc'[Workflow] \in {"investigate", "hand_off"}
  BY <1>1 DEF Goto, TypeInv, LocalTyped, Handlers
<1>. QED
  BY <1>1, <1>3, <1>4 DEF At

(* Every step of the request is a step of the workflow, or none.           *)
LEMMA FleetStepIsNext ==
  ASSUME TypeInv, StageInv, [FleetNext]_<<vars, fleetvars>>
  PROVE  [Next]_vars
<1>1. HandlerStep(Workflow) => Next
  BY DEF Next, Handlers
<1>2. ASSUME ScreenReport \/ Transcribe \/ ScreenTranscript \/ RouteIncident
      PROVE  [Next]_vars
  BY <1>1, <1>2, ScreeningSteps DEF WorkflowMoves
<1>3. Delegate => Next
  BY <1>1, DelegateIsConsult
<1>4. ConsultSpecialist \/ ComposeStatus \/ UNCHANGED <<vars, fleetvars>> => UNCHANGED vars
  BY DEF ConsultSpecialist, ComposeStatus
<1>5. WorkflowStep => Next
  BY <1>1 DEF WorkflowStep
<1>6. Elsewhere => Next
  BY DEF Elsewhere, Next
<1>. QED
  BY <1>2, <1>3, <1>4, <1>5, <1>6 DEF FleetNext

(* StageInv is kept by every step.                                         *)
LEMMA NextStage ==
  ASSUME TypeInv, StageInv, [FleetNext]_<<vars, fleetvars>>
  PROVE  StageInv'
<1>. USE DEF Screening
<1>1. CASE ScreenReport \/ Transcribe \/ ScreenTranscript \/ RouteIncident
  <2>1. pc'[Workflow] = pc[Workflow] \/ ~UNCHANGED vars
    BY DEF vars, local
  <2>. QED
    BY <1>1, <2>1, ScreeningSteps DEF WorkflowMoves, StageInv, Stages
<1>2. CASE Delegate
  BY <1>2, DelegateIsConsult DEF StageInv, Stages
<1>3. CASE ConsultSpecialist \/ UNCHANGED <<vars, fleetvars>>
  <2>1. UNCHANGED <<stage, pc>>
    BY <1>3 DEF ConsultSpecialist, fleetvars, vars, local
  <2>. QED
    BY <2>1 DEF StageInv
<1>4. CASE ComposeStatus
  <2>1. stage = "fleet" /\ stage' = "answered" /\ pc[Workflow] = "done" /\ pc' = pc
    BY <1>4 DEF ComposeStatus, At, vars, local
  <2>. QED
    BY <2>1 DEF StageInv, Stages
<1>5. CASE WorkflowStep
  <2>1. /\ HandlerStep(Workflow) /\ Workflow \in Handlers /\ UNCHANGED stage
        /\ pc[Workflow] \notin {"screen", "consult"}
    BY <1>5 DEF WorkflowStep, At, Handlers
  <2>2. ASSUME pc'[Workflow] \in BeforeCall
        PROVE  <<pc[Workflow], pc'[Workflow]>> \in Forward
    BY <2>1, <2>2, WaysForward
  <2>3. pc'[Workflow] # "screen" /\ pc'[Workflow] # "route"
    BY <2>1, <2>2 DEF Forward, BeforeCall, ReportSteps
  <2>4. pc'[Workflow] = "consult" => pc[Workflow] = "route"
    BY <2>2 DEF Forward, BeforeCall, ReportSteps
  <2>. QED
    BY <2>1, <2>3, <2>4 DEF StageInv
<1>6. CASE Elsewhere
  <2>1. pc'[Workflow] = pc[Workflow]
    <3>1. \A h \in Handlers \ {Workflow} : HandlerStep(h) => pc'[Workflow] = pc[Workflow]
      BY OthersStay DEF Handlers
    <3>2. (\E c \in Callers : ExecutorStep(c) \/ CloudRunStep(c)) \/ Environment => UNCHANGED local
      BY OutsideStays
    <3>. QED
      BY <1>6, <3>1, <3>2 DEF Elsewhere, local
  <2>. QED
    BY <1>6, <2>1 DEF StageInv, Elsewhere, fleetvars
<1>. QED
  BY <1>1, <1>2, <1>3, <1>4, <1>5, <1>6 DEF FleetNext

(* The request, in all the detail of its screening, its routing and its    *)
(* specialists, moves the incident as Orchestrator says, whoever else is   *)
(* handling it (main.py 147-501, 2756-2834).                               *)
THEOREM RequestIsWorkflow == FleetSpec => WorkflowSpec
<1>. DEFINE Inv == TypeInv /\ StageInv
<1>1. FleetInit => Init /\ Inv
  BY InitTyped DEF FleetInit, StageInv, Stages, Screening, Init, Handlers
<1>2. Inv /\ [FleetNext]_<<vars, fleetvars>> => Inv' /\ [Next]_vars
  BY FleetStepIsNext, NextStage, NextTyped
<1>. HIDE DEF Inv
<1>. QED
  BY <1>1, <1>2, PTL DEF FleetSpec, WorkflowSpec, Spec

-----------------------------------------------------------------------------
(* What the request holds.                                                 *)

(* Whoever was routed to is offered by the catalog, and only the specialist*)
(* that observes the network has spoken of it.                             *)
RequestInv ==
  /\ selectable \in Catalogs /\ image \in BOOLEAN
  /\ response \in [Texts -> ScreenerResponses \cup {NoResponse}]
  /\ required \in Seq(Specialists \cap selectable)
  /\ pending \in Seq(EVIDENCE_SPECIALISTS)
  /\ evidence \in Seq(FleetItem) /\ consulted \subseteq Specialists
  /\ \A i \in 1..Len(evidence) :
       evidence[i].key = "network_reachable" => "network" \in consulted
  /\ final \in Statuses \cup {"none"}

(* Before the routing nobody has been asked, and after the delegation there*)
(* is nobody left to ask.                                                  *)
AskedInv ==
  /\ stage \in Screening \cup {"stopped"} =>
       required = <<>> /\ pending = <<>> /\ consulted = {} /\ message = NoMessage
  /\ stage \in {"fleet", "answered"} /\ pc[Workflow] \notin {"route", "consult"} =>
       required = <<>> /\ pending = <<>>

(* A sequence over a set is one over any larger set.                       *)
LEMMA LargerSeq ==
  ASSUME NEW S, NEW T, S \subseteq T, NEW s \in Seq(S)
  PROVE  s \in Seq(T)
<1>1. s \in [1..Len(s) -> S] /\ Len(s) \in Nat
  BY LenProperties
<1>2. s \in [1..Len(s) -> T]
  BY <1>1
<1>. QED
  BY <1>1, <1>2, SeqDef

(* The routing keeps to the catalog.                                       *)
LEMMA RoutedByCatalog ==
  ASSUME RequestInv, NEW proposed \in Proposals
  PROVE  /\ governed(proposed) \in Seq(Specialists \cap selectable)
         /\ Only(governed(proposed), EVIDENCE_SPECIALISTS) \in Seq(EVIDENCE_SPECIALISTS)
<1>1. proposed \in Seq(Specialists)
  BY FleetAssumption
<1>2. governed(proposed) \in Seq(Specialists \cap selectable)
  BY <1>1, OnlyWanted DEF governed
<1>. DEFINE S == (Specialists \cap selectable) \cap EVIDENCE_SPECIALISTS
            chosen == Only(governed(proposed), EVIDENCE_SPECIALISTS)
<1>3. chosen \in Seq(S)
  BY <1>2, OnlyWanted
<1>4. S \subseteq EVIDENCE_SPECIALISTS
  OBVIOUS
<1>. HIDE DEF S, chosen
<1>5. chosen \in Seq(EVIDENCE_SPECIALISTS)
  BY <1>3, <1>4, LargerSeq
<1>. QED
  BY <1>2, <1>5 DEF chosen

(* A specialist's findings are of its own competence.                      *)
LEMMA FindingsOfCompetence ==
  ASSUME NEW name \in EVIDENCE_SPECIALISTS, NEW items \in Reports[name] \cup {<<>>}
  PROVE  /\ within_competence(name, items) \in Seq(FleetItem)
         /\ \A i \in 1..Len(within_competence(name, items)) :
              within_competence(name, items)[i].key = "network_reachable" => name = "network"
<1>. DEFINE own  == {item \in FleetItem : item.key \in Establishes[name]}
            kept == within_competence(name, items)
<1>1. items \in Seq(FleetItem)
  BY FleetAssumption, EmptySeq
<1>2. kept \in Seq(FleetItem \cap own)
  BY <1>1, OnlyWanted DEF within_competence
<1>3. FleetItem \cap own \subseteq FleetItem
  OBVIOUS
<1>4. name # "network" => \A item \in own : item.key # "network_reachable"
  BY DEF Establishes, EVIDENCE_SPECIALISTS
<1>5. \A i \in 1..Len(kept) : kept[i] \in own
  <2>. HIDE DEF own, kept
  <2>. QED
    BY <1>2, ElementOfSeq
<1>6. kept \in Seq(FleetItem)
  <2>. HIDE DEF own, kept
  <2>. QED
    BY <1>2, <1>3, LargerSeq
<1>. HIDE DEF own
<1>. QED
  BY <1>4, <1>5, <1>6

(* One consultation: the findings are appended, and their author noted.    *)
LEMMA ConsultationKept ==
  ASSUME RequestInv, ConsultSpecialist
  PROVE  /\ pending' \in Seq(EVIDENCE_SPECIALISTS)
         /\ evidence' \in Seq(FleetItem) /\ consulted' \subseteq Specialists
         /\ \A i \in 1..Len(evidence') :
              evidence'[i].key = "network_reachable" => "network" \in consulted'
<1>. DEFINE name == Head(pending)
<1>1. /\ pending \in Seq(EVIDENCE_SPECIALISTS) /\ pending # <<>> /\ pending' = Tail(pending)
      /\ evidence \in Seq(FleetItem)
  BY DEF RequestInv, ConsultSpecialist
<1>2. name \in EVIDENCE_SPECIALISTS /\ pending' \in Seq(EVIDENCE_SPECIALISTS)
  BY <1>1, HeadTailProperties
<1>3. PICK items \in Reports[name] \cup {<<>>} :
        /\ evidence' = evidence \o within_competence(name, items)
        /\ consulted' = consulted \cup
             (IF within_competence(name, items) = <<>> THEN {} ELSE {name})
  BY DEF ConsultSpecialist
<1>. DEFINE kept == within_competence(name, items)
<1>4. /\ kept \in Seq(FleetItem)
      /\ \A i \in 1..Len(kept) : kept[i].key = "network_reachable" => name = "network"
  BY <1>2, FindingsOfCompetence
<1>5. /\ evidence' = evidence \o kept
      /\ consulted \subseteq consulted'
      /\ kept # <<>> => name \in consulted'
      /\ consulted' \subseteq consulted \cup {name}
  BY <1>3
<1>6. consulted' \subseteq Specialists
  BY <1>2, <1>5 DEF RequestInv, Specialists, EVIDENCE_SPECIALISTS
<1>. HIDE DEF kept, name
<1>7. /\ evidence' \in Seq(FleetItem) /\ Len(evidence') = Len(evidence) + Len(kept)
      /\ Len(evidence) \in Nat /\ Len(kept) \in Nat
      /\ \A i \in 1..Len(evidence) + Len(kept) :
           evidence'[i] = IF i <= Len(evidence) THEN evidence[i] ELSE kept[i - Len(evidence)]
  BY <1>1, <1>4, <1>5, ConcatProperties, LenProperties
<1>8. ASSUME NEW i \in 1..Len(evidence'), evidence'[i].key = "network_reachable"
      PROVE  "network" \in consulted'
  <2>1. CASE i <= Len(evidence)
    <3>1. i \in 1..Len(evidence) /\ evidence'[i] = evidence[i]
      BY <1>7, <2>1
    <3>. QED
      BY <1>5, <1>8, <3>1 DEF RequestInv
  <2>2. CASE ~(i <= Len(evidence))
    <3>1. i - Len(evidence) \in 1..Len(kept) /\ evidence'[i] = kept[i - Len(evidence)]
      BY <1>7, <2>2
    <3>2. kept # <<>>
      BY <1>4, <3>1, EmptySeq
    <3>. QED
      BY <1>4, <1>5, <1>8, <3>1, <3>2
  <2>. QED
    BY <2>1, <2>2
<1>. QED
  BY <1>2, <1>6, <1>7, <1>8

(* RequestInv is kept by every step.                                       *)
LEMMA NextRequest ==
  ASSUME TypeInv, StageInv, RequestInv, [FleetNext]_<<vars, fleetvars>>
  PROVE  RequestInv'
<1>1. CASE ScreenReport \/ ScreenTranscript
  <2>1. /\ UNCHANGED <<request, routing, reporting>>
        /\ \E text \in Texts : \E r \in ScreenerResponses \cup {NoResponse} :
             response' = [response EXCEPT ![text] = r]
    <3>1. pc[Workflow] = "screen"
      BY <1>1 DEF StageInv, Screening, ScreenReport, ScreenTranscript
    <3>2. ASSUME NEW text \in Texts, NEW next, ScreenText(text, next)
          PROVE  /\ UNCHANGED <<request, routing, reporting>>
                 /\ \E t \in Texts : \E r \in ScreenerResponses \cup {NoResponse} :
                      response' = [response EXCEPT ![t] = r]
      BY <3>1, <3>2, ScreenedOrStopped
    <3>. QED
      BY <1>1, <3>2 DEF ScreenReport, ScreenTranscript, Texts
  <2>2. response' \in [Texts -> ScreenerResponses \cup {NoResponse}]
    BY <2>1 DEF RequestInv
  <2>. QED
    BY <2>1, <2>2 DEF RequestInv, request, routing, reporting
<1>2. CASE Transcribe
  <2>1. UNCHANGED <<request, response, routing, reporting>>
    BY <1>2 DEF Transcribe, Advance
  <2>. QED
    BY <2>1 DEF RequestInv, request, routing, reporting
<1>3. CASE RouteIncident
  <2>1. response' \in [Texts -> ScreenerResponses \cup {NoResponse}]
    BY <1>3 DEF RouteIncident
  <2>2. CASE Stop("MODEL_OUTPUT_INVALID")
    <3>1. UNCHANGED <<request, routing, reporting>>
      BY <2>2 DEF Stop
    <3>. QED
      BY <2>1, <3>1 DEF RequestInv, request, routing, reporting
  <2>3. ASSUME NEW proposed \in Proposals, required' = governed(proposed),
               pending' = Only(required', EVIDENCE_SPECIALISTS),
               UNCHANGED <<request, evidence, consulted, reporting>>
        PROVE  RequestInv'
    BY <2>1, <2>3, RoutedByCatalog DEF RequestInv, request, reporting
  <2>. QED
    BY <1>3, <2>2, <2>3 DEF RouteIncident
<1>4. CASE ConsultSpecialist
  <2>1. UNCHANGED <<request, response, required, reporting>>
    BY <1>4 DEF ConsultSpecialist
  <2>. QED
    BY <1>4, <2>1, ConsultationKept DEF RequestInv, request, reporting
<1>5. CASE Delegate
  <2>1. /\ UNCHANGED <<request, response, pending, reporting>>
        /\ required' = <<>> /\ evidence' = <<>> /\ consulted' \subseteq consulted \cup {"systems"}
    BY <1>5 DEF Delegate
  <2>2. <<>> \in Seq(Specialists \cap selectable) /\ <<>> \in Seq(FleetItem) /\ Len(<<>>) = 0
    BY EmptySeq
  <2>3. consulted' \subseteq Specialists
    BY <2>1 DEF RequestInv, Specialists
  <2>. QED
    BY <2>1, <2>2, <2>3 DEF RequestInv, request, reporting
<1>6. CASE WorkflowStep
  <2>1. UNCHANGED <<request, response, routing>> /\ final' \in {final, status'}
    BY <1>6 DEF WorkflowStep
  <2>2. status' \in Statuses
    BY FleetStepIsNext, NextTyped DEF TypeInv, IncidentTyped
  <2>. QED
    BY <2>1, <2>2 DEF RequestInv, request, routing
<1>7. CASE Elsewhere \/ ComposeStatus \/ UNCHANGED <<vars, fleetvars>>
  <2>1. UNCHANGED <<request, response, routing, final>>
    BY <1>7 DEF Elsewhere, ComposeStatus, fleetvars, reporting
  <2>. QED
    BY <2>1 DEF RequestInv, request, routing
<1>. QED
  BY <1>1, <1>2, <1>3, <1>4, <1>5, <1>6, <1>7 DEF FleetNext

(* AskedInv is kept by every step: only a fault could take the workflow    *)
(* from its routing anywhere but to the consultation.                      *)
LEMMA NextAsked ==
  ASSUME TypeInv, DecisionInv, StageInv, AskedInv, [FleetNext]_<<vars, fleetvars>>
  PROVE  AskedInv'
<1>1. CASE ScreenReport \/ Transcribe \/ ScreenTranscript \/ RouteIncident
  <2>1. /\ stage \in Screening
        /\ \/ stage' \in Screening \cup {"stopped"} /\ UNCHANGED <<routing, reporting>>
           \/ stage' = "fleet" /\ pc'[Workflow] = "route"
    <3>1. stage \in Screening
      BY <1>1, ScreeningSteps DEF StageInv
    <3>2. CASE ScreenReport \/ ScreenTranscript
      BY <3>2, <3>1, ScreenedOrStopped, ScreeningSteps
         DEF StageInv, ScreenReport, ScreenTranscript, Screening, WorkflowMoves
    <3>3. CASE Transcribe
      BY <3>1, <3>3 DEF Transcribe, Advance, Screening
    <3>4. CASE RouteIncident
      <4>1. stage' = "stopped" \/ (stage' = "fleet" /\ pc'[Workflow] = "route")
        BY <3>4, ScreeningSteps DEF WorkflowMoves, Screening, RouteIncident, Stop
      <4>2. stage' = "stopped" => UNCHANGED <<routing, reporting>>
        BY <3>4 DEF RouteIncident, Stop
      <4>. QED
        BY <3>1, <4>1, <4>2
    <3>. QED
      BY <1>1, <3>2, <3>3, <3>4
  <2>. QED
    BY <2>1 DEF AskedInv, routing, reporting, Screening
<1>2. CASE ConsultSpecialist
  <2>1. stage = "fleet" /\ pc[Workflow] = "consult" /\ UNCHANGED <<stage, pc>>
    BY <1>2 DEF ConsultSpecialist, Consulting, At, vars, local
  <2>. QED
    BY <2>1 DEF AskedInv, Screening
<1>3. CASE Delegate
  <2>1. stage' = "fleet" /\ required' = <<>> /\ pending' = <<>>
    BY <1>3, DelegateIsConsult DEF Delegate
  <2>. QED
    BY <2>1 DEF AskedInv, Screening
<1>4. CASE WorkflowStep
  <2>1. /\ HandlerStep(Workflow) /\ Workflow \in Handlers
        /\ UNCHANGED <<stage, routing, message>> /\ pc[Workflow] \notin {"screen", "consult"}
    BY <1>4 DEF WorkflowStep, At, Handlers
  <2>2. ASSUME pc[Workflow] = "route" PROVE pc'[Workflow] = "consult"
    <3>1. status = "INTAKE"
      BY <2>2 DEF DecisionInv, OpeningStatus
    <3>2. Hop(Workflow)
      BY <2>1, <2>2, HandlerCases DEF Opens, Screen, Consult, Investigate, SaveDecision,
         CreateApproval, AttachApproval, Calls, CallExecutor, ReadReceipt, UnreadableReceipt,
         ExecutorUnreachable, Answered, Verify, Terminalize, Receives, ReceiveResume,
         CheckApproval, Decide, CloseUnapproved, ReceiveReconcile, ReconcileReceipt,
         ReconcileUnanswered, Failing, BeginFailure, SettleFailure, Escalate, WalkFailure,
         SaveHandover, At
    <3>3. Transition(Workflow, "route", "INVESTIGATING", "consult")
      BY <2>2, <3>2 DEF Hop, Hops, Transition, At
    <3>4. Goto(Workflow, "consult")
      BY <3>1, <3>3, OpeningIsLegal DEF Transition
    <3>. QED
      BY <2>1, <3>4 DEF Goto, TypeInv, LocalTyped
  <2>. QED
    BY <2>1, <2>2 DEF AskedInv, routing
<1>5. CASE Elsewhere \/ UNCHANGED <<vars, fleetvars>>
  <2>1. pc'[Workflow] = pc[Workflow]
    <3>1. \A h \in Handlers \ {Workflow} : HandlerStep(h) => pc'[Workflow] = pc[Workflow]
      BY OthersStay DEF Handlers
    <3>2. (\E c \in Callers : ExecutorStep(c) \/ CloudRunStep(c)) \/ Environment \/ UNCHANGED vars
            => UNCHANGED local
      BY OutsideStays
    <3>. QED
      BY <1>5, <3>1, <3>2 DEF Elsewhere, local
  <2>2. UNCHANGED <<stage, routing, reporting>>
    BY <1>5 DEF Elsewhere, fleetvars
  <2>. QED
    BY <2>1, <2>2 DEF AskedInv, routing, reporting
<1>6. CASE ComposeStatus
  <2>1. /\ stage = "fleet" /\ stage' = "answered" /\ pc[Workflow] = "done" /\ pc' = pc
        /\ UNCHANGED routing
    BY <1>6 DEF ComposeStatus, At, vars, local
  <2>. QED
    BY <2>1 DEF AskedInv, routing, Screening
<1>. QED
  BY <1>1, <1>2, <1>3, <1>4, <1>5, <1>6 DEF FleetNext

-----------------------------------------------------------------------------
(* The theorems.                                                           *)

(* What Orchestrator's invariants say holds of the request in full.        *)
LEMMA WorkflowInvariant == FleetSpec => [](IInv /\ CallsOnceInv /\ RunsInv /\ OwnCallInv)
  BY RequestIsWorkflow, Invariant, OwnCallInvariant, PTL DEF WorkflowSpec

(* Nothing has been asked of anybody.                                      *)
LEMMA InitRequest == FleetInit => StageInv /\ RequestInv /\ AskedInv
<1>. SUFFICES ASSUME FleetInit PROVE StageInv /\ RequestInv /\ AskedInv
  OBVIOUS
<1>1. StageInv
  BY DEF FleetInit, StageInv, Stages, Screening, Init, Handlers
<1>2. AskedInv
  BY DEF FleetInit, AskedInv, Screening
<1>3. <<>> \in Seq(Specialists \cap selectable) /\ <<>> \in Seq(EVIDENCE_SPECIALISTS)
      /\ <<>> \in Seq(FleetItem) /\ Len(<<>>) = 0
  BY EmptySeq
<1>4. RequestInv
  BY <1>3 DEF FleetInit, RequestInv
<1>. QED
  BY <1>1, <1>2, <1>4

(* The invariants of the request hold throughout.                          *)
LEMMA RequestInvariant == FleetSpec => [](StageInv /\ RequestInv /\ AskedInv)
<1>. DEFINE Inv == StageInv /\ RequestInv /\ AskedInv
<1>1. IInv /\ Inv /\ [FleetNext]_<<vars, fleetvars>> => Inv'
  BY NextStage, NextRequest, NextAsked DEF IInv
<1>. HIDE DEF Inv
<1>2. FleetSpec => []Inv
  <2>1. FleetInit => Inv
    BY InitRequest DEF Inv
  <2>. QED
    BY <1>1, <2>1, WorkflowInvariant, PTL DEF FleetSpec
<1>. QED
  BY <1>2 DEF Inv

(* A request that was stopped has consulted nobody, one that is answered   *)
(* has nobody left to consult, and nothing loses its type                  *)
(* (main.py 147-501).                                                      *)
THEOREM FleetTyped == FleetSpec => []FleetTypeOK
<1>1. StageInv /\ RequestInv /\ AskedInv => FleetTypeOK
  <2>. SUFFICES ASSUME StageInv, RequestInv, AskedInv PROVE FleetTypeOK
    OBVIOUS
  <2>1. required \in Seq(Specialists)
    <3>1. Specialists \cap selectable \subseteq Specialists
      OBVIOUS
    <3>2. required \in Seq(Specialists \cap selectable)
      BY DEF RequestInv
    <3>. QED
      BY <3>1, <3>2, LargerSeq
  <2>2. stage = "answered" => pending = <<>> /\ required = <<>>
    BY DEF StageInv, AskedInv
  <2>3. stage = "stopped" => consulted = {} /\ message = NoMessage
    BY DEF AskedInv
  <2>4. /\ stage \in Stages /\ selectable \in Catalogs /\ image \in BOOLEAN
        /\ response \in [Texts -> ScreenerResponses \cup {NoResponse}]
        /\ pending \in Seq(EVIDENCE_SPECIALISTS)
        /\ evidence \in Seq(FleetItem) /\ consulted \subseteq Specialists
        /\ final \in Statuses \cup {"none"}
    BY DEF StageInv, RequestInv
  <2>. QED
    BY <2>1, <2>2, <2>3, <2>4 DEF FleetTypeOK
<1>. QED
  BY <1>1, RequestInvariant, PTL

(* What was settled as resolved stays resolved.                            *)
RestoredInv ==
  final = "RESOLVED" \/ "restored" \in {message.headline, message.next}
    => status = "RESOLVED"

(* RestoredInv is kept by every step of the fleet.                         *)
LEMMA NextRestored ==
  ASSUME TypeInv, StageInv, RestoredInv, [FleetNext]_<<vars, fleetvars>>
  PROVE  RestoredInv'
<1>1. status = "RESOLVED" => status' = "RESOLVED"
  <2>1. status \in Statuses /\ status' \in Statuses
    BY FleetStepIsNext, NextTyped DEF TypeInv, IncidentTyped
  <2>2. status' = status \/ can_transition(status, status')
    BY FleetStepIsNext, LegalStep
  <2>. QED
    BY <2>1, <2>2, WaysToRest DEF TERMINAL_STATES
<1>2. CASE ScreenReport \/ Transcribe \/ ScreenTranscript \/ RouteIncident
  <2>1. pc[Workflow] = "screen"
    BY <1>2, ScreeningSteps
  <2>2. UNCHANGED reporting
    BY <1>2, <2>1, ScreenedOrStopped DEF ScreenReport, Transcribe, ScreenTranscript, RouteIncident,
       Advance, Stop
  <2>. QED
    BY <1>1, <2>2 DEF RestoredInv, reporting
<1>3. CASE ConsultSpecialist \/ Delegate \/ Elsewhere \/ UNCHANGED <<vars, fleetvars>>
  <2>1. UNCHANGED reporting
    BY <1>3 DEF ConsultSpecialist, Delegate, Elsewhere, fleetvars
  <2>. QED
    BY <1>1, <2>1 DEF RestoredInv, reporting
<1>4. CASE WorkflowStep
  BY <1>1, <1>4 DEF WorkflowStep, RestoredInv
<1>5. CASE ComposeStatus
  <2>1. /\ UNCHANGED <<vars, final>>
        /\ message' \in {NoMessage, [headline |-> headline, next |-> what_happens_next]}
    BY <1>5 DEF ComposeStatus
  <2>2. "restored" \in {headline, what_happens_next} => final = "RESOLVED"
    <3>1. changed_anything(Workflow) \in {"no", "yes", "unknown"}
      BY DEF changed_anything, TypeInv, LocalTyped, Beliefs, Handlers
    <3>2. headline = "restored" => final = "RESOLVED"
      BY DEF headline, awaiting_human
    <3>3. what_happens_next = "restored" => final = "RESOLVED"
      BY <3>1 DEF what_happens_next, awaiting_human
    <3>. QED
      BY <3>2, <3>3
  <2>3. "restored" \in {message'.headline, message'.next} => final = "RESOLVED"
    BY <2>1, <2>2 DEF NoMessage
  <2>. QED
    BY <1>1, <2>1, <2>3 DEF RestoredInv
<1>. QED
  BY <1>2, <1>3, <1>4, <1>5 DEF FleetNext

(* A manager is told that the service has been restored only of an incident*)
(* that is resolved, on an execution closed as VERIFIED                    *)
(* (continuity.py 124-153, main.py 1375-1380).                             *)
THEOREM Restored == FleetSpec => []RestoredIsVerified
<1>1. FleetInit => RestoredInv
  BY DEF FleetInit, RestoredInv, NoMessage
<1>2. IInv /\ StageInv /\ RestoredInv /\ [FleetNext]_<<vars, fleetvars>> => RestoredInv'
  BY NextRestored DEF IInv
<1>3. IInv /\ RestoredInv => RestoredIsVerified
  BY DEF IInv, VerifiedInv, RestoredInv, RestoredIsVerified
<1>. QED
  BY <1>1, <1>2, <1>3, WorkflowInvariant, RequestInvariant, PTL DEF FleetSpec

(* What the manager is told of a change is what the workflow believes, and *)
(* an accepted write stays accepted.                                       *)
LEMMA NextTold ==
  ASSUME TypeInv, StageInv, RunsInv, OwnCallInv, ToldOfChangeWasMade, [FleetNext]_<<vars, fleetvars>>
  PROVE  ToldOfChangeWasMade'
<1>1. put[Workflow] = "accepted" => put'[Workflow] = "accepted"
  BY FleetStepIsNext, AcceptedForGood, OrchestratorAssumption DEF Callers, Handlers
<1>2. CASE ScreenReport \/ Transcribe \/ ScreenTranscript \/ RouteIncident
  <2>1. pc[Workflow] = "screen"
    BY <1>2, ScreeningSteps
  <2>2. UNCHANGED reporting
    BY <1>2, <2>1, ScreenedOrStopped DEF ScreenReport, Transcribe, ScreenTranscript, RouteIncident,
       Advance, Stop
  <2>. QED
    BY <1>1, <2>2 DEF ToldOfChangeWasMade, reporting
<1>3. CASE ConsultSpecialist \/ Delegate \/ WorkflowStep \/ Elsewhere \/ UNCHANGED <<vars, fleetvars>>
  <2>1. UNCHANGED message
    BY <1>3 DEF ConsultSpecialist, Delegate, WorkflowStep, Elsewhere, fleetvars, reporting
  <2>. QED
    BY <1>1, <2>1 DEF ToldOfChangeWasMade
<1>4. CASE ComposeStatus
  <2>1. message' \in {NoMessage, [headline |-> headline, next |-> what_happens_next]}
    BY <1>4 DEF ComposeStatus
  <2>2. what_happens_next \in {"unconfirmed", "being_confirmed"} => changed[Workflow] # "absent"
    BY DEF what_happens_next, awaiting_human, changed_anything
  <2>3. message'.next \in {"unconfirmed", "being_confirmed"} => changed[Workflow] # "absent"
    BY <2>1, <2>2 DEF NoMessage
  <2>. QED
    BY <1>1, <2>3 DEF ToldOfChangeWasMade, OwnCallInv
<1>. QED
  BY <1>2, <1>3, <1>4 DEF FleetNext

(* A manager is told of a change, confirmed or not, only if this request's *)
(* own write was accepted, whatever a reconciliation did meanwhile         *)
(* (main.py 2728-2740).                                                    *)
THEOREM ToldOfChange == FleetSpec => []ToldOfChangeWasMade
<1>1. FleetInit => ToldOfChangeWasMade
  BY DEF FleetInit, ToldOfChangeWasMade, NoMessage
<1>2. IInv /\ StageInv /\ RunsInv /\ OwnCallInv /\ ToldOfChangeWasMade
        /\ [FleetNext]_<<vars, fleetvars>> => ToldOfChangeWasMade'
  BY NextTold DEF IInv
<1>. QED
  BY <1>1, <1>2, WorkflowInvariant, RequestInvariant, PTL DEF FleetSpec

(* The gate's last trusted word on a key.                                  *)
LEMMA LastTrustedWord ==
  ASSUME NEW items \in Seq(FleetItem), NEW key,
         Gate!trusted_evidence_map(items, key) = Gate!Bool(TRUE)
  PROVE  \E i \in 1..Len(items) :
           /\ items[i].key = key /\ items[i].trusted /\ items[i].value = Gate!Bool(TRUE)
           /\ \A j \in (i + 1)..Len(items) : items[j].key = key => ~items[j].trusted
<1>. DEFINE N == Len(items)
            S == {N - i : i \in Gate!Trusted(items, key)}
            chosen == CHOOSE i \in DOMAIN items : Gate!IsLatest(items, key, i)
<1>1. N \in Nat /\ DOMAIN items = 1..N /\ \A i \in 1..N : items[i] \in FleetItem
  BY LenProperties, ElementOfSeq
<1>2. Gate!Trusted(items, key) # {} /\ items[chosen].value = Gate!Bool(TRUE)
  BY DEF Gate!trusted_evidence_map, Gate!Bool, Gate!None
<1>3. Gate!Trusted(items, key) \subseteq 1..N
  BY <1>1 DEF Gate!Trusted
<1>. HIDE DEF N
<1>4. S \subseteq Nat /\ S # {}
  BY <1>1, <1>2, <1>3
<1>5. PICK m \in S : \A k \in S : m <= k
  BY <1>4, LeastNumber
<1>6. PICK last \in Gate!Trusted(items, key) : m = N - last
  BY <1>5
<1>7. \A j \in Gate!Trusted(items, key) : j <= last
  <2>1. \A j \in Gate!Trusted(items, key) : N - j \in S /\ N - last <= N - j
    BY <1>5, <1>6
  <2>2. \A j \in Gate!Trusted(items, key) : j \in 1..N
    BY <1>3
  <2>. HIDE DEF S
  <2>. QED
    BY <1>1, <2>1, <2>2
<1>8. last \in DOMAIN items /\ Gate!IsLatest(items, key, last)
  BY <1>1, <1>3, <1>7 DEF Gate!IsLatest
<1>9. chosen \in DOMAIN items /\ Gate!IsLatest(items, key, chosen)
  BY <1>8
<1>. HIDE DEF chosen
<1>10. /\ chosen \in 1..N /\ items[chosen].trusted /\ items[chosen].key = key
       /\ \A j \in Gate!Trusted(items, key) : j <= chosen
  BY <1>1, <1>9 DEF Gate!IsLatest, Gate!Trusted
<1>11. ASSUME NEW j \in (chosen + 1)..N, items[j].key = key PROVE ~items[j].trusted
  <2>1. j \in 1..N /\ ~(j <= chosen)
    BY <1>1, <1>10
  <2>2. j \notin Gate!Trusted(items, key)
    BY <1>10, <2>1
  <2>. QED
    BY <1>1, <1>11, <2>1, <2>2 DEF Gate!Trusted
<1>. QED
  BY <1>2, <1>10, <1>11 DEF N

(* Systems is brought in only while the catalog offers it, and when nobody *)
(* routed to it only because the last trusted word on the network, given by*)
(* the specialist that can observe it, says that the site is reachable     *)
(* (main.py 2786-2813, 2608-2650, engine.py 12-25).                        *)
THEOREM DelegationEarned == FleetSpec => DelegationIsEarned
<1>. DEFINE Earned ==
       At(Workflow, "consult") /\ pc'[Workflow] = "investigate" =>
         /\ "systems" \in selectable
         /\ \/ "systems" \in Range(required)
            \/ /\ "network" \in consulted
               /\ \E i \in DOMAIN evidence :
                    /\ evidence[i] = [key |-> "network_reachable", trusted |-> TRUE,
                                      value |-> Gate!Bool(TRUE)]
                    /\ \A j \in (i + 1)..Len(evidence) :
                         evidence[j].key = "network_reachable" => ~evidence[j].trusted
<1>1. ASSUME TypeInv, StageInv, RequestInv, [FleetNext]_<<vars, fleetvars>>,
             At(Workflow, "consult"), pc'[Workflow] = "investigate"
      PROVE  Delegate /\ RunSystems
  <2>1. pc[Workflow] = "consult" /\ pc'[Workflow] # pc[Workflow]
    BY <1>1 DEF At
  <2>2. ~(ScreenReport \/ Transcribe \/ ScreenTranscript \/ RouteIncident)
    BY <1>1, <2>1, ScreeningSteps
  <2>3. ~(ConsultSpecialist \/ ComposeStatus \/ UNCHANGED <<vars, fleetvars>>)
    BY <2>1 DEF ConsultSpecialist, ComposeStatus, vars, local
  <2>4. ~WorkflowStep
    BY <1>1 DEF WorkflowStep
  <2>5. ~Elsewhere
    <3>1. \A h \in Handlers \ {Workflow} : HandlerStep(h) => pc'[Workflow] = pc[Workflow]
      BY <1>1, OthersStay DEF Handlers
    <3>2. (\E c \in Callers : ExecutorStep(c) \/ CloudRunStep(c)) \/ Environment => UNCHANGED local
      BY <1>1, OutsideStays
    <3>. QED
      BY <2>1, <3>1, <3>2 DEF Elsewhere, local
  <2>6. Delegate
    BY <1>1, <2>2, <2>3, <2>4, <2>5 DEF FleetNext
  <2>7. Goto(Workflow, "hand_off") => pc'[Workflow] = "hand_off"
    BY <1>1 DEF Goto, TypeInv, LocalTyped, Handlers
  <2>. QED
    BY <1>1, <2>6, <2>7 DEF Delegate
<1>2. ASSUME RequestInv, Reachable
      PROVE  /\ "network" \in consulted
             /\ \E i \in DOMAIN evidence :
                  /\ evidence[i] = [key |-> "network_reachable", trusted |-> TRUE,
                                    value |-> Gate!Bool(TRUE)]
                  /\ \A j \in (i + 1)..Len(evidence) :
                       evidence[j].key = "network_reachable" => ~evidence[j].trusted
  <2>1. evidence \in Seq(FleetItem)
    BY <1>2 DEF RequestInv
  <2>2. PICK i \in 1..Len(evidence) :
          /\ evidence[i].key = "network_reachable" /\ evidence[i].trusted
          /\ evidence[i].value = Gate!Bool(TRUE)
          /\ \A j \in (i + 1)..Len(evidence) :
               evidence[j].key = "network_reachable" => ~evidence[j].trusted
    BY <1>2, <2>1, LastTrustedWord DEF Reachable
  <2>3. evidence[i] \in FleetItem /\ i \in DOMAIN evidence
    BY <2>1, <2>2, ElementOfSeq, LenProperties
  <2>4. evidence[i] = [key |-> "network_reachable", trusted |-> TRUE, value |-> Gate!Bool(TRUE)]
    BY <2>2, <2>3 DEF FleetItem
  <2>5. "network" \in consulted
    BY <1>2, <2>2 DEF RequestInv
  <2>. QED
    BY <2>2, <2>3, <2>4, <2>5
<1>3. ASSUME RequestInv, "systems" \in Range(required) PROVE "systems" \in selectable
  <2>1. required \in Seq(Specialists \cap selectable)
    BY <1>3 DEF RequestInv
  <2>2. PICK i \in DOMAIN required : required[i] = "systems"
    BY <1>3 DEF Range
  <2>3. i \in 1..Len(required)
    BY <2>1, <2>2, LenProperties
  <2>4. required[i] \in Specialists \cap selectable
    BY <2>1, <2>3, ElementOfSeq
  <2>. QED
    BY <2>2, <2>4
<1>4. IInv /\ StageInv /\ RequestInv /\ [FleetNext]_<<vars, fleetvars>> => Earned
  BY <1>1, <1>2, <1>3, Zenon DEF IInv, RunSystems, is_selectable
<1>. HIDE DEF Earned
<1>5. FleetSpec => [][Earned]_<<vars, fleetvars>>
  BY <1>4, WorkflowInvariant, RequestInvariant, PTL DEF FleetSpec
<1>. QED
  BY <1>5 DEF Earned, DelegationIsEarned

================================================================================
