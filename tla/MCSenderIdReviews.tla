--------------------------- MODULE MCSenderIdReviews ---------------------------
(* One checklist item stands for the four; one decision beside the sync of    *)
(* two workers; a first filing and a resubmission.  Liveness is checked, so   *)
(* no symmetry is declared.                                                   *)
EXTENDS SenderIdReviews
================================================================================
