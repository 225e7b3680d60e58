--------------------------- MODULE EscalationRoute ---------------------------
(***************************************************************************)
(* A failure handler walking an incident to where it must rest             *)
(* (src/src/scf/app/main.py, _escalate and _fail_unguarded) while other    *)
(* handlers move the same incident: the route is computed from a status    *)
(* read once and then taken one transaction at a time.                     *)
(***************************************************************************)
EXTENDS IncidentLifecycle

VARIABLES
  errand, \* what the walker set out to do, from the status it read
  route   \* the transitions it has still to take

Idle == [from |-> "none", to |-> "none", avoid |-> {}, path |-> <<>>]

Goals == {"ESCALATED"} \cup RECONCILABLE_STATES

RouteInit == Init /\ errand = Idle /\ route = <<>>

(* The status is read and the route computed.                              *)
ReadRoute(to, avoid) ==
  /\ errand = Idle
  /\ errand' = [from |-> status, to |-> to, avoid |-> avoid,
                path |-> path_to(status, to, avoid)]
  /\ route' = errand'.path
  /\ UNCHANGED <<status, visited>>

Walk ==
  /\ route # <<>>
  /\ transition(Head(route))
  /\ route' = Tail(route)
  /\ UNCHANGED errand

(* IllegalTransition: the incident is no longer where it was read.         *)
Raise ==
  /\ route # <<>>
  /\ ~can_transition(status, Head(route))
  /\ errand' = Idle /\ route' = <<>>
  /\ UNCHANGED <<status, visited>>

Arrive ==
  /\ errand # Idle /\ route = <<>>
  /\ errand' = Idle
  /\ UNCHANGED <<status, visited, route>>

RouteNext ==
  \/ \E to \in Statuses, avoid \in {{}, ASSERTION_STATES} : ReadRoute(to, avoid)
  \/ Walk \/ Raise \/ Arrive
  \/ Next /\ UNCHANGED <<errand, route>>

RouteSpec == RouteInit /\ [][RouteNext]_<<status, visited, errand, route>>

-----------------------------------------------------------------------------
(* path_to returns a route exactly when the transition table has one that  *)
(* asserts nothing on the way, and then a shortest one (state_machine.py   *)
(* 100-135).                                                               *)
RouteIsShortest ==
  errand # Idle =>
    IsShortestRoute(errand.path, errand.from, errand.to, errand.avoid)

(* A failure can always be brought to a person without writing a false     *)
(* claim into the history: every open status has a truthful route to       *)
(* ESCALATED (main.py 571-593, state_machine.py 24-30).                    *)
EscalationIsAlwaysPossible ==
  errand.to = "ESCALATED" /\ errand.from \notin TERMINAL_STATES
    => errand.path # <<>>
=============================================================================
