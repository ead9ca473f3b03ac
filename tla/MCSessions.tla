------------------------------- MODULE MCSessions -------------------------------
(* One sign-in of one member of staff, four requests - one that is overtaken, *)
(* one that changes something, and two that arrive before and after it - and  *)
(* one process with its staff cache.                                          *)
EXTENDS Sessions, TLC

Symmetry == Permutations(Sessions) \cup Permutations(Requests) \cup Permutations(Instances)
================================================================================
