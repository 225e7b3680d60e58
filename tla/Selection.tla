------------------------------ MODULE Selection ------------------------------
(***************************************************************************)
(* The comprehension that cuts a list down to what is allowed in it: the   *)
(* specialists asked for to the catalog, the evidence an agent answers     *)
(* with to what it can observe (src/src/scf/app/main.py).                  *)
(***************************************************************************)
EXTENDS Naturals, Sequences

(* [x for x in items if x in wanted].                                      *)
Only(items, wanted) ==
  LET upto[n \in 0..Len(items)] ==
        IF n = 0 THEN <<>>
        ELSE IF items[n] \in wanted THEN Append(upto[n-1], items[n]) ELSE upto[n-1]
  IN  upto[Len(items)]
=============================================================================
