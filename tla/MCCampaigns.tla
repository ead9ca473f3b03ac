------------------------------ MODULE MCCampaigns ------------------------------
(* Two accounts, one more than the threshold; one route at a time beside one *)
(* worker; a retry and a fault.  Liveness is checked, so no symmetry is       *)
(* declared.                                                                  *)
EXTENDS Campaigns
================================================================================
