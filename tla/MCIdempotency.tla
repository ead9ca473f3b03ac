----------------------------- MODULE MCIdempotency -----------------------------
(* One key more than the race needs, two payloads and four calls: a winner,  *)
(* two losers and a retry, with a call under another key beside them.        *)
EXTENDS Idempotency, TLC

Symmetry == Permutations(Calls) \cup Permutations(Keys) \cup Permutations(Bodies)
================================================================================
