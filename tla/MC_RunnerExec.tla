--------------------------- MODULE MC_RunnerExec ---------------------------
(* A run with a setup command and two apps.                                *)
EXTENDS RunnerExec

MCSteps == <<"phase", "app", "app">>
=============================================================================
