------------------------------ MODULE MCCampaign ------------------------------
(* The instance: two runner processes (interchangeable), two builds, and the  *)
(* preregistration texts v0.6, v0.7 and v0.8.                                 *)
EXTENDS Campaign, TLC
Symmetry == Permutations(Runners)
===============================================================================
