---------------------------- MODULE MCProductWrites ----------------------------
(* Two calls of any operations, one after the other or side by side, with one *)
(* failure, against every consistent plan; the calls are interchangeable.     *)
EXTENDS ProductWrites, TLC

Symmetry == Permutations(Calls)
================================================================================
