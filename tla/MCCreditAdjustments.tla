-------------------------- MODULE MCCreditAdjustments --------------------------
(* Two adjustments, at and above the threshold, and two requests at a time: *)
(* enough for two approvers, an approval and a rejection, a retry and a     *)
(* late call to race over one row while the other has money of its own.     *)
EXTENDS CreditAdjustments, TLC

Symmetry == Permutations(Adjustments) \cup Permutations(Keys) \cup Permutations(Requests) \cup
            Permutations(Staff)
================================================================================
