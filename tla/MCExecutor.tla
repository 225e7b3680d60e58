----------------------------- MODULE MCExecutor -----------------------------
(* Small instances of Executor for TLC.                                    *)
EXTENDS Executor, TLC

CONSTANTS d1, d2, f1, i1, w1, r1, r2, r3, good, bad

MCRevisions == {good, bad}

(* One incident and one authorization: a rollback from bad to good, decided*)
(* once, or issued again as a second decision document.                    *)
MCFingerprintOf  == [d \in Decisions |-> f1]
MCIncidentOf     == [d \in Decisions |-> i1]
MCAuthorized     == [d \in Decisions |-> good]
MCExpectedSource == [d \in Decisions |-> bad]
MCNoSource       == [d \in Decisions |-> NoSource]

(* Every request on one process: the owner alone tells nobody apart.       *)
MCOneWorker == [r \in Requests |-> w1]

(* Requests, callers of /terminalize and equivalent decisions are alike.   *)
Symmetry == Permutations(Requests) \cup Permutations(Closers)
              \cup Permutations(Decisions)
=============================================================================
