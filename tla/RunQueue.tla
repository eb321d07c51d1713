------------------------------ MODULE RunQueue ------------------------------
(***************************************************************************)
(* What QA Buddy promises of its runs, whatever happens to the processes   *)
(* that keep the promise: one unfinished run per repository, one run at a  *)
(* time, oldest first, a finished run stays finished, and only finished    *)
(* runs are ever forgotten.  RunLifecycle implements it.                   *)
(***************************************************************************)
EXTENDS Integers

CONSTANTS Repos, MaxRuns, NoRepo

VARIABLES
  issued,   \* runs submitted so far; run n is the n-th
  owner,    \* run -> its repository
  phase     \* run -> how far it is

queueVars == <<issued, owner, phase>>

Ids == 1 .. MaxRuns
Unfinished == {"waiting", "working"}

QueueInit ==
  /\ issued = 0
  /\ owner = [r \in Ids |-> NoRepo]
  /\ phase = [r \in Ids |-> "absent"]

Submitted(p) ==
  /\ issued < MaxRuns
  /\ \A r \in Ids : owner[r] = p => phase[r] \notin Unfinished
  /\ issued' = issued + 1
  /\ owner' = [owner EXCEPT ![issued + 1] = p]
  /\ phase' = [phase EXCEPT ![issued + 1] = "waiting"]

\* One run at a time, and the oldest first.
Begun(r) ==
  /\ phase[r] = "waiting"
  /\ \A q \in Ids : phase[q] # "working" /\ (phase[q] = "waiting" => r <= q)
  /\ phase' = [phase EXCEPT ![r] = "working"]
  /\ UNCHANGED <<issued, owner>>

Ended(r) ==
  /\ phase[r] \in Unfinished
  /\ phase' = [phase EXCEPT ![r] = "over"]
  /\ UNCHANGED <<issued, owner>>

\* Old runs are forgotten, never a repository's newest one unless the whole
\* repository goes.
Forgotten(S) ==
  /\ \A r \in S :
       /\ phase[r] = "over"
       /\ \/ \E q \in Ids \ S : owner[q] = owner[r] /\ q > r
          \/ \A q \in Ids : owner[q] = owner[r] => q \in S
  /\ owner' = [r \in Ids |-> IF r \in S THEN NoRepo ELSE owner[r]]
  /\ phase' = [r \in Ids |-> IF r \in S THEN "absent" ELSE phase[r]]
  /\ UNCHANGED issued

QueueNext ==
  \/ \E p \in Repos : Submitted(p)
  \/ \E r \in Ids : Begun(r) \/ Ended(r)
  \/ \E S \in SUBSET Ids : Forgotten(S)

QueueSpec == QueueInit /\ [][QueueNext]_queueVars
=============================================================================
