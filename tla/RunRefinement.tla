--------------------------- MODULE RunRefinement ---------------------------
(***************************************************************************)
(* RunLifecycle implements RunQueue, and every run it accepts ends.        *)
(***************************************************************************)
EXTENDS RunLifecycle

PhaseOf(s) ==
  CASE s = "queued"      -> "waiting"
    [] s \in Executing   -> "working"
    [] s \in Terminal    -> "over"
    [] OTHER             -> "absent"

Queue == INSTANCE RunQueue WITH
  issued <- created,
  owner  <- [r \in Runs |-> RepoOf(r)],
  phase  <- [r \in Runs |-> PhaseOf(status[r])]

\* The restart policy brings a dead worker back, Docker, git and the test
\* commands answer or run into their time limits, and the process is not
\* killed or rebuilt for ever; it may end itself (Prune).  Nobody has to
\* submit, stop or delete anything.
LiveSpec ==
  /\ Spec
  /\ WF_vars(Boot) /\ WF_vars(Recover) /\ WF_vars(Execute)
  /\ WF_vars(RemoveOnShutdown) /\ WF_vars(Exit)
  /\ <>[][Crash \/ Terminate => Execute]_vars

\* Single execution, first come first served, finality and safe pruning at
\* once: every step of server, worker, crash and recovery is a step of the
\* queue or invisible to it.
ImplementsQueue == Queue!QueueSpec

\* Every accepted run ends, and so does every accepted stop: no crash, time
\* limit or lost command leaves a run active for ever.
EveryRunEnds == \A r \in Runs : status[r] \in Active ~> status[r] \notin Active
=============================================================================
