--------------------------- MODULE LifecycleProofs ---------------------------
(* Proofs about IncidentLifecycle: what the transition table guarantees of *)
(* every history, however many handlers move the incident and in whatever  *)
(* order.                                                                  *)
EXTENDS EscalationRoute, PathProofs

vars == <<status, visited>>

(* A transition into a status tells which statuses it can have come from.  *)
LEMMA Predecessors ==
  ASSUME NEW s \in Statuses, NEW t \in Statuses, can_transition(s, t)
  PROVE  /\ t \in {"AUTO_ALLOWED", "APPROVED"} \cup Refusals
              => s \in BeforeExecution \ {"AUTO_ALLOWED", "APPROVED"}
         /\ t \in BeforeExecution => s \in BeforeExecution
         /\ t = "EXECUTING" => s \in {"AUTO_ALLOWED", "APPROVED"}
         /\ t \in AfterExecution \ {"EXECUTING"} => s \in AfterExecution
         /\ t \in {"VERIFYING", "RESOLVED", "REMEDIATION_FAILED"}
              => s \in {"EXECUTED", "VERIFYING", "REMEDIATION_FAILED"}
         /\ t \in {"RESOLVED", "REMEDIATION_FAILED"} => s = "VERIFYING"
         /\ s \notin TERMINAL_STATES
         /\ t # "INTAKE"
  BY DEF can_transition, LEGAL_TRANSITIONS, Statuses, TERMINAL_STATES,
         BeforeExecution, AfterExecution, Refusals

(* The history starts at INTAKE.                                          *)
LEMMA InitLInv == Init => LInv
  BY DEF Init, LInv, TypeOK, HistoryIsCoherent, Statuses, BeforeExecution,
         AfterExecution, Refusals, TERMINAL_STATES

(* Every transition preserves what the status says of the history.         *)
LEMMA NextLInv == LInv /\ [Next]_vars => LInv'
<1>. SUFFICES ASSUME LInv, Next PROVE LInv'
  BY DEF vars, LInv, TypeOK, HistoryIsCoherent
<1>1. PICK t \in Statuses : transition(t)
  BY DEF Next
<1>2. status \in Statuses /\ can_transition(status, t)
  BY <1>1 DEF LInv, TypeOK, transition
<1>3. status' = t /\ visited' = visited \cup {t}
  BY <1>1 DEF transition
<1>. QED
  BY <1>2, <1>3, Predecessors
     DEF LInv, TypeOK, HistoryIsCoherent, Statuses, BeforeExecution,
         AfterExecution, Refusals, TERMINAL_STATES

(* What each status implies about the history holds in every behaviour.    *)
THEOREM HistoryInvariant == Spec => []LInv
  BY InitLInv, NextLInv, PTL DEF Spec, vars

(* Authorization precedes execution, refusal excludes it, and resolution   *)
(* rests on execution and verification, in every history the table allows. *)
THEOREM Coherent == Spec => []HistoryIsCoherent
<1>1. LInv => HistoryIsCoherent
  BY DEF LInv
<1>. QED
  BY <1>1, HistoryInvariant, PTL

(* No sequence of transitions executes an incident twice or reopens it.    *)
THEOREM NeverReopened == Spec => ExecutesOnce
<1>1. LInv /\ [Next]_vars =>
        [/\ status \in TERMINAL_STATES => status' = status
         /\ status' = "EXECUTING" /\ status # "EXECUTING"
              => "EXECUTING" \notin visited]_vars
  <2>. SUFFICES ASSUME LInv, Next
       PROVE  /\ status \in TERMINAL_STATES => status' = status
              /\ status' = "EXECUTING" /\ status # "EXECUTING"
                   => "EXECUTING" \notin visited
    BY DEF vars
  <2>1. PICK t \in Statuses : transition(t)
    BY DEF Next
  <2>2. status \in Statuses /\ can_transition(status, t) /\ status' = t
    BY <2>1 DEF LInv, TypeOK, transition
  <2>3. status \notin TERMINAL_STATES
    BY <2>2, Predecessors
  <2>4. t = "EXECUTING" => status \in BeforeExecution
    BY <2>2, Predecessors DEF BeforeExecution
  <2>. QED
    BY <2>2, <2>3, <2>4 DEF LInv, AfterExecution
<1>. QED
  BY <1>1, HistoryInvariant, PTL DEF Spec, ExecutesOnce, vars

-----------------------------------------------------------------------------
(* EscalationRoute: an errand's route is what path_to answered from the    *)
(* status the walker read.                                                 *)

routeVars == <<status, visited, errand, route>>

ErrandOf(from, to, avoid) ==
  [from |-> from, to |-> to, avoid |-> avoid, path |-> path_to(from, to, avoid)]

RouteInv ==
  /\ status \in Statuses
  /\ \/ errand = Idle
     \/ \E from, to \in Statuses, avoid \in {{}, ASSERTION_STATES} :
          errand = ErrandOf(from, to, avoid)

(* No errand at the start.                                                 *)
LEMMA InitRouteInv == RouteInit => RouteInv
  BY DEF RouteInit, Init, RouteInv, Statuses

(* Only reading a route makes an errand, and it makes one of those.        *)
LEMMA NextRouteInv == RouteInv /\ [RouteNext]_routeVars => RouteInv'
<1>. SUFFICES ASSUME RouteInv, [RouteNext]_routeVars PROVE RouteInv'
  OBVIOUS
<1>1. ASSUME NEW t \in Statuses, transition(t) PROVE status' \in Statuses
  BY <1>1 DEF transition
<1>2. ASSUME NEW to \in Statuses, NEW avoid \in {{}, ASSERTION_STATES},
             ReadRoute(to, avoid)
      PROVE  RouteInv'
  <2>1. status \in Statuses /\ status' = status
    BY <1>2 DEF RouteInv, ReadRoute
  <2>2. errand' = ErrandOf(status, to, avoid)
    BY <1>2 DEF ReadRoute, ErrandOf
  <2>. QED
    BY <2>1, <2>2 DEF RouteInv
<1>3. CASE Walk
  <2>1. Head(route) \in Statuses
    BY <1>3 DEF Walk, transition, can_transition, LEGAL_TRANSITIONS, Statuses, RouteInv,
                TERMINAL_STATES
  <2>. QED
    BY <1>1, <1>3, <2>1 DEF Walk, RouteInv
<1>4. CASE Raise
  BY <1>4 DEF Raise, RouteInv
<1>5. CASE Arrive
  BY <1>5 DEF Arrive, RouteInv
<1>6. CASE Next /\ UNCHANGED <<errand, route>>
  BY <1>1, <1>6 DEF Next, RouteInv
<1>7. CASE UNCHANGED routeVars
  BY <1>7 DEF routeVars, RouteInv
<1>. QED
  BY <1>2, <1>3, <1>4, <1>5, <1>6, <1>7 DEF RouteNext

(* Every errand's route is one path_to answered with.                      *)
LEMMA RouteInvariant == RouteSpec => []RouteInv
  BY InitRouteInv, NextRouteInv, PTL DEF RouteSpec, routeVars

(* Whatever status is read, wherever the errand leads and whatever it must *)
(* not claim on the way, the route is a shortest legal one, and missing    *)
(* only when there is none.                                                *)
THEOREM RoutesAreShortest == RouteSpec => []RouteIsShortest
<1>1. RouteInv => RouteIsShortest
  <2>. SUFFICES ASSUME NEW from \in Statuses, NEW to \in Statuses, NEW avoid,
                       errand = ErrandOf(from, to, avoid)
                PROVE  RouteIsShortest
    BY DEF RouteInv, RouteIsShortest
  <2>1. IsShortestRoute(path_to(from, to, avoid), from, to, avoid)
    BY PathIsShortest
  <2>. QED
    BY <2>1 DEF RouteIsShortest, ErrandOf
<1>. QED
  BY <1>1, RouteInvariant, PTL

(* A failure always has a route to a person.                               *)
THEOREM AlwaysEscalates == RouteSpec => []EscalationIsAlwaysPossible
<1>1. RouteInv => EscalationIsAlwaysPossible
  <2>1. Idle.to # "ESCALATED"
    BY DEF Idle
  <2>. SUFFICES ASSUME NEW from \in Statuses, NEW to \in Statuses,
                       NEW avoid \in {{}, ASSERTION_STATES},
                       errand = ErrandOf(from, to, avoid),
                       to = "ESCALATED", from \notin TERMINAL_STATES
                PROVE  path_to(from, to, avoid) # <<>>
    BY <2>1 DEF RouteInv, ErrandOf, EscalationIsAlwaysPossible
  <2>2. "REMEDIATION_FAILED" \notin avoid
    BY DEF ASSERTION_STATES
  <2>. QED
    BY <2>2, OpenCanEscalate
<1>. QED
  BY <1>1, RouteInvariant, PTL

(* However handlers walk their routes, the incident's history is one the   *)
(* table allows: the walker refines the lifecycle.                         *)
THEOREM WalkersKeepTheTable == RouteSpec => Spec
<1>1. RouteInit => Init
  BY DEF RouteInit
<1>2. RouteInv /\ [RouteNext]_routeVars => [Next]_vars
  <2>. SUFFICES ASSUME RouteInv, RouteNext PROVE Next \/ UNCHANGED vars
    BY DEF routeVars, vars
  <2>1. CASE Walk
    <3>1. Head(route) \in Statuses
      BY <2>1 DEF Walk, transition, can_transition, LEGAL_TRANSITIONS, Statuses, RouteInv,
                  TERMINAL_STATES
    <3>. QED
      BY <2>1, <3>1 DEF Walk, Next
  <2>2. CASE \E to \in Statuses, avoid \in {{}, ASSERTION_STATES} : ReadRoute(to, avoid)
    BY <2>2 DEF ReadRoute, vars
  <2>3. CASE Raise \/ Arrive
    BY <2>3 DEF Raise, Arrive, vars
  <2>. QED
    BY <2>1, <2>2, <2>3 DEF RouteNext
<1>. QED
  BY <1>1, <1>2, RouteInvariant, PTL DEF RouteSpec, Spec, routeVars, vars
=============================================================================
