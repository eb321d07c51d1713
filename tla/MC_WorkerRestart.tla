------------------------- MODULE MC_WorkerRestart -------------------------
(* Bounds for model-checking WorkerRestart.                               *)
EXTENDS WorkerRestart

\* Versions 1, 2 and 4 compile, 3 does not: the fix follows the mistake.
MCBroken == {3}
=============================================================================
