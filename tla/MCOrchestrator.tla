--------------------------- MODULE MCOrchestrator ---------------------------
(* Small instances of Orchestrator for TLC.                                *)
EXTENDS Orchestrator, TLC
Symmetry == Permutations(Resumes) \cup Permutations(Reconciles)
              \cup Permutations(Approvers)
=============================================================================
