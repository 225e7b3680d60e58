---------------------------- MODULE MCAuditChain ----------------------------
(* A small instance of AuditChain for TLC.  The calls are alike.           *)
EXTENDS AuditChain

Symmetry == Permutations(Writers)
=============================================================================
