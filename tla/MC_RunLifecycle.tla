-------------------------- MODULE MC_RunLifecycle --------------------------
(* Bounds for model-checking RunLifecycle.                                 *)
EXTENDS RunLifecycle, TLC

\* A manually configured run of every app, one on a local tree, and an
\* auto-detected run, whose app rows appear only after detection.
MCRequests ==
  {[local |-> FALSE, auto |-> FALSE, apps |-> Apps],
   [local |-> TRUE,  auto |-> TRUE,  apps |-> {}]}

Symmetry == Permutations(Repos) \cup Permutations(Apps)
=============================================================================
