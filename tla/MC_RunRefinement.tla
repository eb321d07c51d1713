-------------------------- MODULE MC_RunRefinement --------------------------
(* Bounds for model-checking RunRefinement: runs of two repositories with  *)
(* one app each.                                                          *)
EXTENDS RunRefinement

MCRequests == {[local |-> FALSE, auto |-> FALSE, apps |-> Apps]}
=============================================================================
