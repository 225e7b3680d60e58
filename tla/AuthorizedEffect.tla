-------------------------- MODULE AuthorizedEffect --------------------------
(***************************************************************************)
(* What the executor promises of one authorization, without requests,      *)
(* leases, crashes or lost answers: it may be spent on one change of the   *)
(* infrastructure, and its execution ends knowing whose change it was.     *)
(*                                                                         *)
(*   open       nothing was issued                                         *)
(*   attempted  a change may have been issued                              *)
(*   foreign    the authorized state is present and is somebody else's     *)
(*   mutated    the authorized state is present and may be ours            *)
(*   verified_* closed on evidence, with the same two provenances          *)
(*   stale      closed because the premise no longer held                  *)
(***************************************************************************)
CONSTANTS Executions, Authorizations, AuthorizationOf

VARIABLES phase, applied

Phases == {"open", "attempted", "foreign", "mutated",
           "verified_foreign", "verified_mutated", "stale"}

Init == /\ phase = [e \in Executions |-> "open"]
        /\ applied = [a \in Authorizations |-> FALSE]

Moves(e, from, to) == /\ phase[e] = from
                      /\ phase' = [phase EXCEPT ![e] = to]
                      /\ UNCHANGED applied

Attempt(e) == Moves(e, "open", "attempted")

(* The one change.  It can land late, after the execution moved on.        *)
Apply(e) == /\ phase[e] \in {"attempted", "mutated", "verified_mutated"}
            /\ ~applied[AuthorizationOf[e]]
            /\ applied' = [applied EXCEPT ![AuthorizationOf[e]] = TRUE]
            /\ UNCHANGED phase

(* The platform proved that nothing was applied.                           *)
Withdraw(e) == /\ ~applied[AuthorizationOf[e]]
               /\ Moves(e, "attempted", "open")

Disclaim(e) == Moves(e, "open", "foreign")
Record(e)   == Moves(e, "attempted", "mutated")
Verify(e)   == \/ Moves(e, "foreign", "verified_foreign")
               \/ Moves(e, "mutated", "verified_mutated")
Abandon(e)  == Moves(e, "open", "stale")

Next == \E e \in Executions :
          \/ Attempt(e) \/ Apply(e) \/ Withdraw(e) \/ Disclaim(e)
          \/ Record(e) \/ Verify(e) \/ Abandon(e)

Spec == Init /\ [][Next]_<<phase, applied>>
=============================================================================
