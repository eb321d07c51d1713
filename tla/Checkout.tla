------------------------------ MODULE Checkout ------------------------------
(***************************************************************************)
(* How a run gets its source (apps/worker/src/git.ts): a sequence of child *)
(* processes (runProcess), each allowed what is left of the run's time.    *)
(* From GitHub the fetch is retried, with delays and a probe of the token  *)
(* that spend the same time; locally the commands read a checkout that its *)
(* developer may go on editing.                                            *)
(*                                                                         *)
(* Time is discrete and stands still while a timer is due.  The verdict is *)
(* what executeRun's catch block makes of the error (worker.ts).           *)
(***************************************************************************)
EXTENDS WorkingTree, Sequences

CONSTANTS
  Deadline,    \* the run's time limit, when remaining() starts to throw
  RetryDelays, \* fetchRetryDelaysMs
  ProbeLimit,  \* how long probeGitHubToken may take
  MaxEdits     \* bound: what the developer does while the copy is made

ASSUME CheckoutAssumption ==
  /\ Deadline \in Nat \ {0}
  /\ RetryDelays \in Seq(Nat \ {0})
  /\ ProbeLimit \in Nat \ {0}
  /\ MaxEdits \in Nat

VARIABLES
  local,    \* run.useLocalWorkingTree
  token,    \* a GITHUB_TOKEN is configured; without meaning if local
  clock,
  step,     \* the command cloneRepository or archiveLocalWorkingTree is at
  phase,    \* "spawn", "running", "probe" or "delay" in it, "over" at the end;
            \* "listed" once git has read the changed files
  attempt,  \* fetches that failed and were retried
  wakeAt,   \* when the probe is aborted, or the delay ends
  error,    \* the error last thrown
  verdict,  \* "none", then "source", "failed" or "timed_out"
  head, index, work,       \* the developer's checkout
  edits, committed,        \* what the developer did meanwhile
  copy, dirty,      \* the run's copy; it differs from the commit
  sha,              \* resolvedSha, as the tree of that commit
  deleted, changed  \* the lists git gave

env     == <<local, token>>
fetch   == <<attempt, wakeAt>>
dev     == <<head, index, work, edits, committed>>
lists   == <<deleted, changed>>
source  == <<copy, sha, dirty, lists>>
vars    == <<env, clock, step, phase, fetch, error, verdict, dev, source>>

CloneCommands   == <<"init", "remote", "fetch", "checkout", "head">>
ArchiveCommands == <<"head", "archive", "extract", "deleted", "changed">>
Commands == IF local THEN ArchiveCommands ELSE CloneCommands
Command == Commands[step]
Running == {"running", "listed"}

\* A ProcessError carries the exit code, null after a signal or a timeout,
\* and what stderr said; another error is a child that never started.
NoError == [kind |-> "none", stderr |-> "none"]
Errors  == [kind : {"exit", "null", "spawn"}, stderr : {"auth", "missing", "other"}]

Init ==
  /\ local \in BOOLEAN /\ token \in IF local THEN {FALSE} ELSE BOOLEAN
  /\ clock = 0 /\ step = 1 /\ phase = "spawn"
  /\ attempt = 0 /\ wakeAt = 0 /\ error = NoError /\ verdict = "none"
  /\ head \in Committable
  /\ IF local THEN index \in Committable /\ work \in Trees
              ELSE index = head /\ work = head
  /\ edits = 0 /\ committed = FALSE
  /\ copy = NoFiles /\ sha = NoFiles /\ dirty = FALSE /\ deleted = {} /\ changed = {}

Over(v) == phase' = "over" /\ verdict' = v

\* remaining(deadline) throws a RunnerTimeoutError once the time is spent.
TimeIsSpent == clock >= Deadline

-----------------------------------------------------------------------------
(* runProcess                                                              *)

Spawn ==
  /\ phase = "spawn"
  /\ IF TimeIsSpent THEN Over("timed_out") ELSE phase' = "running" /\ UNCHANGED verdict
  /\ UNCHANGED <<env, clock, step, fetch, error, dev, source>>

\* Mutant: a fetch whose time is up is tried again.
DecideRetry_IgnoresTimeout(err) ==
  IF \/ attempt >= Len(RetryDelays)
     \/ err.stderr = "missing"
  THEN Over(IF err.kind = "null" THEN "timed_out" ELSE "failed") /\ UNCHANGED fetch
  ELSE IF TimeIsSpent THEN Over("timed_out") /\ UNCHANGED fetch
  ELSE IF RetryDelays[attempt + 1] >= Deadline - clock THEN Over("failed") /\ UNCHANGED fetch
  ELSE /\ phase' = "delay" /\ wakeAt' = clock + RetryDelays[attempt + 1]
       /\ UNCHANGED <<attempt, verdict>>

\* Mutant: the delay is not compared with the time left.
DecideRetry_IgnoresBudget(err) ==
  IF \/ attempt >= Len(RetryDelays)
     \/ err.kind = "null"
     \/ err.stderr = "missing"
  THEN Over(IF err.kind = "null" THEN "timed_out" ELSE "failed") /\ UNCHANGED fetch
  ELSE IF TimeIsSpent THEN Over("timed_out") /\ UNCHANGED fetch
  ELSE /\ phase' = "delay" /\ wakeAt' = clock + RetryDelays[attempt + 1]
       /\ UNCHANGED <<attempt, verdict>>

\* The end of the fetch's catch block: the operands of the guard in order,
\* the last of which calls remaining().
DecideRetry(err) ==
  IF \/ attempt >= Len(RetryDelays)
     \/ err.kind = "null"
     \/ err.stderr = "missing"
  THEN Over(IF err.kind = "null" THEN "timed_out" ELSE "failed") /\ UNCHANGED fetch
  ELSE IF TimeIsSpent THEN Over("timed_out") /\ UNCHANGED fetch
  ELSE IF RetryDelays[attempt + 1] >= Deadline - clock THEN Over("failed") /\ UNCHANGED fetch
  ELSE /\ phase' = "delay" /\ wakeAt' = clock + RetryDelays[attempt + 1]
       /\ UNCHANGED <<attempt, verdict>>

\* A command's promise is rejected.
Fails(err) ==
  /\ error' = err
  /\ IF Command = "fetch" /\ err.kind # "spawn"
     THEN IF token /\ err.stderr = "auth"
          THEN phase' = "probe" /\ wakeAt' = clock + ProbeLimit /\ UNCHANGED <<attempt, verdict>>
          ELSE DecideRetry(err)
     ELSE Over(IF err.kind = "null" THEN "timed_out" ELSE "failed") /\ UNCHANGED fetch

\* The child exits with a code other than 0, dies of a signal, or could not
\* be started.
ChildFails ==
  /\ phase \in Running
  /\ \E err \in Errors :
       /\ (Command # "fetch" \/ err.kind = "spawn") => err.stderr = "other"
       /\ Fails(err)
  /\ UNCHANGED <<env, clock, step, dev, source>>

\* Mutant: the timer kills the child but does not reject.
TimerFires_KillsOnly ==
  /\ phase \in Running /\ clock >= Deadline
  /\ UNCHANGED vars

\* The timer: every command may take all the time that is left.
TimerFires ==
  /\ phase \in Running /\ clock >= Deadline
  /\ \E s \in IF Command = "fetch" THEN {"auth", "other"} ELSE {"other"} :
       Fails([kind |-> "null", stderr |-> s])
  /\ UNCHANGED <<env, clock, step, dev, source>>

ProbeEnds ==
  /\ phase = "probe"
  /\ DecideRetry(error)
  /\ UNCHANGED <<env, clock, step, error, dev, source>>

Retry ==
  /\ phase = "delay" /\ clock >= wakeAt
  /\ phase' = "spawn" /\ attempt' = attempt + 1
  /\ UNCHANGED <<env, clock, step, wakeAt, error, verdict, dev, source>>

\* git ls-files reads the checkout; what it listed is copied when it has
\* ended, from a checkout that may have changed since.
ListChanged ==
  /\ phase = "running" /\ Command = "changed"
  /\ phase' = "listed" /\ changed' = LsChanged(index, work)
  /\ UNCHANGED <<env, clock, step, fetch, error, verdict, dev, copy, sha, dirty, deleted>>

\* What a command that exits with 0 leaves.
Effect ==
  CASE Command = "head"     -> sha' = head /\ UNCHANGED <<copy, dirty, lists>>
    [] Command \in {"archive", "checkout"} -> copy' = head /\ UNCHANGED <<sha, dirty, lists>>
    [] Command = "deleted"  -> /\ deleted' = LsDeleted(index, work)
                               /\ UNCHANGED <<copy, sha, dirty, changed>>
    [] Command = "changed"  -> LET laid == Overlay(copy, work, deleted, changed)
                               IN  copy' = laid.copy /\ dirty' = laid.dirty /\ UNCHANGED <<sha, lists>>
    [] OTHER -> UNCHANGED source

ChildSucceeds ==
  /\ phase = IF Command = "changed" THEN "listed" ELSE "running"
  /\ Effect
  /\ IF step < Len(Commands)
     THEN step' = step + 1 /\ phase' = "spawn" /\ UNCHANGED verdict
     ELSE Over("source") /\ UNCHANGED step
  /\ UNCHANGED <<env, clock, fetch, error, dev>>

Tick ==
  /\ \/ phase \in Running /\ clock < Deadline
     \/ phase \in {"probe", "delay"} /\ clock < wakeAt
  /\ clock' = clock + 1
  /\ UNCHANGED <<env, step, phase, fetch, error, verdict, dev, source>>

-----------------------------------------------------------------------------
(* The developer, whose checkout is mounted read-only.                     *)

Editing == local /\ phase \in Running /\ edits < MaxEdits /\ edits' = edits + 1

Edit ==
  /\ Editing
  /\ \E f \in Files, c \in Contents \cup {Absent} : c # work[f] /\ work' = [work EXCEPT ![f] = c]
  /\ UNCHANGED <<env, clock, step, phase, fetch, error, verdict, head, index, committed, source>>

\* git commit -a
Commit ==
  /\ Editing
  /\ index' = [f \in Files |-> IF index[f] # Absent THEN work[f] ELSE Absent]
  /\ head' = index' /\ head' # head /\ committed' = TRUE
  /\ UNCHANGED <<env, clock, step, phase, fetch, error, verdict, work, source>>

Next ==
  \/ Spawn \/ ListChanged \/ ChildFails \/ ChildSucceeds \/ TimerFires
  \/ ProbeEnds \/ Retry \/ Tick
  \/ Edit \/ Commit

Spec == Init /\ [][Next]_vars

\* Timers fire and time passes; nothing is assumed of git, GitHub or the
\* developer.
LiveSpec ==
  /\ Spec
  /\ WF_vars(Spawn) /\ WF_vars(TimerFires) /\ WF_vars(Tick)
  /\ WF_vars(phase = "probe" /\ clock >= wakeAt /\ ProbeEnds) /\ WF_vars(Retry)
-----------------------------------------------------------------------------
(* What a checkout promises.                                               *)

TypeOK ==
  /\ local \in BOOLEAN /\ token \in BOOLEAN /\ committed \in BOOLEAN /\ dirty \in BOOLEAN
  /\ clock \in Nat /\ wakeAt \in Nat /\ edits \in 0 .. MaxEdits
  /\ attempt \in 0 .. Len(RetryDelays)
  /\ step \in 1 .. 5
  /\ phase \in Running \cup {"spawn", "probe", "delay", "over"}
  /\ error \in Errors \cup {NoError}
  /\ verdict \in {"none", "source", "failed", "timed_out"}
  /\ phase = "over" <=> verdict # "none"
  /\ {head, index, work, copy, sha} \subseteq Trees
  /\ deleted \subseteq Files /\ changed \subseteq Files

\* Retries, delays and probes never carry the checkout past the run's
\* deadline, but for one last probe (git.ts:125, whose time nobody takes from
\* the run's): no command runs and no retry is waited for beyond it.
EndsInTime ==
  /\ clock <= Deadline + ProbeLimit
  /\ clock > Deadline => phase \in {"probe", "over"}
  /\ phase = "delay" => wakeAt < Deadline

\* The fetch is tried again only after a failure of its own that can pass,
\* with its delay waited out and time left (git.ts:130-142).
RetryIsWorthIt ==
  [][attempt' # attempt =>
       /\ attempt' = attempt + 1 /\ clock >= wakeAt /\ clock < Deadline
       /\ error.kind = "exit" /\ error.stderr # "missing"]_vars

\* A checkout nobody touched meanwhile, with nothing staged, is copied as it
\* is: edits and new files in, deleted and ignored files out, credentials as
\* committed; and the run is marked dirty exactly if that differs from HEAD.
Quiet == edits = 0 /\ index = head
CopyIsTree ==
  verdict = "source" /\ Quiet =>
    /\ \A f \in Files :
         copy[f] = IF f \in Ignored \/ (f \in Sensitive /\ work[f] # Absent) THEN head[f] ELSE work[f]
    /\ dirty <=> copy # head

\* A run that is not marked dirty tests exactly the commit it is recorded
\* under, unless the developer commits while the copy is made: edits during
\* the copy show in the copy and the mark, or in neither.
CleanIsCommit == verdict = "source" /\ ~dirty /\ ~committed => copy = sha

\* The checkout comes to an end.
CheckoutEnds == <>(verdict # "none")

\* README.md:137: "uncommitted work is included".
UncommittedWorkIsIncluded ==
  verdict = "source" /\ edits = 0 =>
    \A f \in Files \ (Sensitive \cup Ignored) : copy[f] = work[f]
=============================================================================
