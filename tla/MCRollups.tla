------------------------------- MODULE MCRollups -------------------------------
(* Two buckets, each with rows or without; three runs that overlap or follow  *)
(* one another; three changes of the source.                                  *)
EXTENDS Rollups, TLC

Symmetry == Permutations(Runs)
================================================================================
