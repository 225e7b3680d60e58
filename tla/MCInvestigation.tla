--------------------------- MODULE MCInvestigation ---------------------------
(***************************************************************************)
(* TLC instance: seven traffic layouts of three revisions, the items a     *)
(* faulty worker may add, and what revisions answer.                       *)
(***************************************************************************)
EXTENDS MCHealthValues, Investigation

CONSTANTS r1, r2, r3

Entry(r, percent, tag) == [revision |-> r, percent |-> percent, tag |-> tag]

(* A plain deployment; a rollback target; one besides a canary; the tag on *)
(* the failing revision; a canary only; split traffic; after a rollback.   *)
MCServices ==
  { << Entry(r1, 100, "") >>,
    << Entry(r1, 100, ""), Entry(r2, 0, "known-good") >>,
    << Entry(r3, 0, "canary"), Entry(r1, 100, ""), Entry(r2, 0, "known-good") >>,
    << Entry(r1, 100, "known-good"), Entry(r3, 0, "canary") >>,
    << Entry(r1, 100, ""), Entry(r3, 0, "canary") >>,
    << Entry(r1, 50, ""), Entry(r2, 50, "known-good") >>,
    << Entry(r2, 100, "known-good"), Entry(r1, 0, "canary") >> }

MCGarbage ==
  [key     : {"service_unhealthy", "server_reachable"},
   value   : Values,
   trusted : BOOLEAN]
=============================================================================
