----------------------------- MODULE RunnerExec -----------------------------
(***************************************************************************)
(* The commands of one run inside its runner container: DockerRunner.exec, *)
(* stopCommand and forceStop (apps/worker/src/docker-runner.ts), and the   *)
(* loop of executeRun that calls them and tells their errors apart.  A     *)
(* command's output races three limits: the run's, the command's and the   *)
(* one on silence.                                                         *)
(*                                                                         *)
(* Time is discrete.  A timer fires at its time, unless the worker is      *)
(* busy with a call to Docker; what those calls take is counted in lag.    *)
(* Docker is modelled as the code uses it: the stream of an exec ends no   *)
(* earlier than its command, but may stay open longer, or for ever.  What  *)
(* the command left in the background may outlive both.  The exec is a     *)
(* process group; a process that leaves the group is not followed.         *)
(***************************************************************************)
EXTENDS Integers, Sequences, FiniteSets

CONSTANTS
  Steps,      \* the run's commands: "phase" (setup, build) or "app"
  Deadline,   \* the run's overall limit
  Idle,       \* idleMs, the limit on silence of every command
  AppLimit,   \* commandMs, the limit of an app's test command
  Grace,      \* killGraceMs
  MaxLag,     \* bound: ticks spent in calls to Docker
  MaxFaults   \* bound: what fails in Docker: a call, a connection, a container, a kill

ASSUME ExecAssumption ==
  /\ Steps \in Seq({"phase", "app"})
  /\ {Deadline, Idle, AppLimit, Grace} \subseteq Nat \ {0}
  /\ {MaxLag, MaxFaults} \subseteq Nat

VARIABLES
  now, lag, faults,
  cancelled,   \* the stop poll: "no", "noticed" or "sent" (its kill arrived)
  container,   \* "up" or "dead"
  procs,       \* the process group of each command: once the command itself is
               \* over, processes it started may be "left" in the group
  stream,      \* the output stream of the current command
  phase,       \* where exec is, or its caller ("head", "done")
  remaining,   \* runRemainingMs
  due,         \* when each timer fires, 0 if it is not set
  error,       \* the error exec is about to throw
  lastOutput,  \* when the racing command last printed, or was started
  step,        \* the command the run is at
  result,      \* how each command ended
  verdict      \* the run's status

envVars    == <<now, lag, faults, cancelled>>
dockerVars == <<container, procs, stream>>
execVars   == <<phase, remaining, due, error, lastOutput>>
runVars    == <<step, result, verdict>>
vars == <<envVars, dockerVars, execVars, runVars>>

StepIds == 1 .. Len(Steps)
Timers  == {"run", "command", "idle", "grace"}
NoTimers == [t \in Timers |-> 0]

CommandTimeouts == {"idle", "command"}   \* CommandTimeoutError
RunnerTimeouts  == {"run", "stuck"}      \* RunnerTimeoutError
Errors == CommandTimeouts \cup RunnerTimeouts \cup {"docker"}

\* In these the worker awaits an answer of Docker and nothing else.
Calls == {"open", "kill", "force", "inspect"}

Init ==
  /\ now = 0 /\ lag = 0 /\ faults = 0 /\ cancelled = "no"
  /\ container = "up"
  /\ procs = [s \in StepIds |-> "none"]
  /\ stream = "none"
  /\ phase = "head" /\ remaining = 0 /\ due = NoTimers
  /\ error = "none" /\ lastOutput = 0
  /\ step = 1
  /\ result = [s \in StepIds |-> "none"]
  /\ verdict = "none"

Alive == {"running", "left"}

\* What SIGKILL makes of a process group; of one that is "left" its command
\* had exited before.
Killed(p) == CASE p = "running" -> "killed" [] p = "left" -> "exited" [] OTHER -> p

Fault == faults < MaxFaults /\ faults' = faults + 1

\* container.kill(): everything in the container dies with it.
KillContainer ==
  /\ container' = "dead"
  /\ procs' = [s \in StepIds |-> Killed(procs[s])]
  /\ UNCHANGED stream

-----------------------------------------------------------------------------
(* Time, the command and Docker.                                           *)

\* The worker has nothing to do until something outside it happens.
Waiting ==
  \/ phase \in {"race", "release"} /\ stream = "open"
  \/ phase = "killing"

Tick ==
  /\ \A t \in Timers : due[t] # 0 => due[t] > now
  /\ \/ Waiting /\ UNCHANGED lag
     \/ phase \in Calls /\ lag < MaxLag /\ lag' = lag + 1
  /\ now' = now + 1
  /\ UNCHANGED <<faults, cancelled, dockerVars, execVars, runVars>>

\* Mutant: output does not push the idle limit back.
Output_NoReset ==
  /\ stream = "open" /\ procs[step] \in Alive
  /\ phase \in {"race", "kill", "killing", "release", "force"}
  /\ lastOutput' = now
  /\ UNCHANGED <<envVars, dockerVars, phase, remaining, due, error, runVars>>

\* A chunk reaches the sink, which restarts the idle timer until exec settles
Output ==
  /\ stream = "open" /\ procs[step] \in Alive
  /\ phase \in {"race", "kill", "killing", "release", "force"}
  /\ lastOutput' = now
  /\ due' = [due EXCEPT !["idle"] = now + Idle]
  /\ UNCHANGED <<envVars, dockerVars, phase, remaining, error, runVars>>

\* The command is over: whatever it started has ended with it, or has not
CommandExits ==
  /\ step \in StepIds /\ procs[step] = "running"
  /\ \E p \in {"exited", "left"} : procs' = [procs EXCEPT ![step] = p]
  /\ UNCHANGED <<envVars, container, stream, execVars, runVars>>

\* The last process a command left behind ends by itself, now or commands later
LeftoverEnds(s) ==
  /\ procs[s] = "left"
  /\ procs' = [procs EXCEPT ![s] = "exited"]
  /\ UNCHANGED <<envVars, container, stream, execVars, runVars>>

\* A process that is left holds the stream open only if it writes to it: one
\* with its output redirected does not.
StreamEnds ==
  /\ stream = "open" /\ procs[step] # "running"
  /\ stream' = "ended"
  /\ UNCHANGED <<envVars, container, procs, execVars, runVars>>

StreamBreaks ==
  /\ stream = "open" /\ Fault
  /\ stream' = "error"
  /\ UNCHANGED <<now, lag, cancelled, container, procs, execVars, runVars>>

\* Killed by something other than the worker: out of memory, an operator
ContainerDies ==
  /\ container = "up" /\ phase # "done" /\ Fault
  /\ KillContainer
  /\ UNCHANGED <<now, lag, cancelled, execVars, runVars>>

\* The stop poll notices a request; its kill is sent once and not awaited
StopNoticed ==
  /\ cancelled = "no" /\ phase # "done"
  /\ cancelled' = "noticed"
  /\ UNCHANGED <<now, lag, faults, dockerVars, execVars, runVars>>

StopKills ==
  /\ cancelled = "noticed"
  /\ cancelled' = "sent"
  /\ \/ KillContainer /\ UNCHANGED faults
     \/ Fault /\ UNCHANGED dockerVars
  /\ UNCHANGED <<now, lag, execVars, runVars>>

-----------------------------------------------------------------------------
(* What executeRun does with the end of a command.                         *)

ExecOver == remaining' = 0 /\ due' = NoTimers /\ error' = "none" /\ lastOutput' = 0

End(v)   == phase' = "done" /\ verdict' = v /\ UNCHANGED step
NextStep == phase' = "head" /\ step' = step + 1 /\ UNCHANGED verdict

\* Mutant: a command's timeout ends the run, as the run's own does.
Throw_EndsRun(e) ==
  /\ ExecOver
  /\ result' = [result EXCEPT ![step] = e]
  /\ IF Steps[step] = "app"
     THEN \/ cancelled # "no" /\ End("interrupted")
          \/ cancelled = "no" /\ e # "docker" /\ End("timed_out")
          \/ cancelled = "no" /\ e = "docker" /\ NextStep
     ELSE End(IF e = "docker" THEN "failed" ELSE "timed_out")

\* exec throws e: an app that was cut fails alone, a phase fails the run
Throw(e) ==
  /\ ExecOver
  /\ result' = [result EXCEPT ![step] = e]
  /\ IF Steps[step] = "app"
     THEN \/ cancelled # "no" /\ End("interrupted")
          \/ cancelled = "no" /\ e \in RunnerTimeouts /\ End("timed_out")
          \/ cancelled = "no" /\ e \notin RunnerTimeouts /\ NextStep
     ELSE End(IF e = "docker" THEN "failed" ELSE "timed_out")

\* exec returns an exit code; with r = "ok" the app also has its reports
Return(r) ==
  /\ ExecOver
  /\ result' = [result EXCEPT ![step] = r]
  /\ \/ cancelled # "no" /\ End("interrupted")
     \/ cancelled = "no" /\ (Steps[step] = "app" \/ r = "ok") /\ NextStep
     \/ cancelled = "no" /\ Steps[step] = "phase" /\ r # "ok" /\ End("failed")

StopSeen ==
  /\ phase = "head" /\ step \in StepIds
  /\ Steps[step] = "app" /\ cancelled # "no"
  /\ End("interrupted")
  /\ UNCHANGED <<envVars, dockerVars, remaining, due, error, lastOutput, result>>

AllDone ==
  /\ phase = "head" /\ step \notin StepIds
  /\ End(IF \A s \in StepIds : result[s] = "ok" THEN "passed" ELSE "failed")
  /\ UNCHANGED <<envVars, dockerVars, remaining, due, error, lastOutput, result>>

-----------------------------------------------------------------------------
(* exec.                                                                   *)

NextCommand ==
  phase = "head" /\ step \in StepIds /\ ~(Steps[step] = "app" /\ cancelled # "no")

NoTimeLeft ==
  /\ NextCommand /\ now >= Deadline
  /\ Throw("run")
  /\ UNCHANGED <<envVars, dockerVars>>

\* exec is called with the time left: Docker is asked to create the exec
Open ==
  /\ NextCommand /\ now < Deadline
  /\ phase' = "open"
  /\ remaining' = Deadline - now
  /\ UNCHANGED <<envVars, dockerVars, due, error, lastOutput, runVars>>

\* Mutant: the run's own limit is not set.
Started_NoRunTimer ==
  /\ phase = "open" /\ container = "up"
  /\ phase' = "race"
  /\ procs' = [procs EXCEPT ![step] = "running"]
  /\ stream' = "open"
  /\ lastOutput' = now
  /\ due' = [NoTimers EXCEPT !["idle"] = now + Idle,
               !["command"] = IF Steps[step] = "app" THEN now + AppLimit ELSE 0]
  /\ UNCHANGED <<envVars, container, remaining, error, runVars>>

\* The exec has started: timers are set from the limits computed before it
Started ==
  /\ phase = "open" /\ container = "up"
  /\ phase' = "race"
  /\ procs' = [procs EXCEPT ![step] = "running"]
  /\ stream' = "open"
  /\ lastOutput' = now
  /\ due' = [NoTimers EXCEPT !["run"] = now + remaining, !["idle"] = now + Idle,
               !["command"] = IF Steps[step] = "app" THEN now + AppLimit ELSE 0]
  /\ UNCHANGED <<envVars, container, remaining, error, runVars>>

StartFails ==
  /\ phase = "open"
  /\ \/ container = "dead" /\ UNCHANGED faults
     \/ container = "up" /\ Fault
  /\ Throw("docker")
  /\ UNCHANGED <<now, lag, cancelled, dockerVars>>

\* Mutant: an error of the stream resolves completion, as its end does.
Completed_ErrorResolves ==
  /\ phase = "race" /\ stream \in {"ended", "error"}
  /\ phase' = "inspect"
  /\ due' = NoTimers
  /\ UNCHANGED <<envVars, dockerVars, remaining, error, lastOutput, runVars>>

\* completion resolves, or rejects with the stream's error
Completed ==
  /\ phase = "race"
  /\ \/ stream = "ended" /\ phase' = "inspect" /\ due' = NoTimers /\ UNCHANGED error
     \/ stream = "error" /\ phase' = "force" /\ error' = "docker" /\ UNCHANGED due
  /\ UNCHANGED <<envVars, dockerVars, remaining, lastOutput, runVars>>

Due(t) == due[t] # 0 /\ due[t] <= now

\* Mutant: a command over its limit is stopped with its container.
TimerFires_ForceStop(t) ==
  /\ phase = "race" /\ t # "grace" /\ Due(t)
  /\ phase' = "force"
  /\ error' = t
  /\ due' = [due EXCEPT ![t] = 0]
  /\ UNCHANGED <<envVars, dockerVars, remaining, lastOutput, runVars>>

\* timedOut wins the race
TimerFires(t) ==
  /\ phase = "race" /\ t # "grace" /\ Due(t)
  /\ phase' = IF t \in CommandTimeouts THEN "kill" ELSE "force"
  /\ error' = t
  /\ due' = [due EXCEPT ![t] = 0]
  /\ UNCHANGED <<envVars, dockerVars, remaining, lastOutput, runVars>>

\* A timer that fires after the race rejects a promise already settled
TimerIsLate(t) ==
  /\ phase # "race" /\ t # "grace" /\ Due(t)
  /\ due' = [due EXCEPT ![t] = 0]
  /\ UNCHANGED <<envVars, dockerVars, phase, remaining, error, lastOutput, runVars>>

InspectReturns ==
  /\ phase = "inspect"
  /\ \E r \in {"ok", "failed"} : (r = "ok" => procs[step] \in {"exited", "left"}) /\ Return(r)
  /\ UNCHANGED <<envVars, dockerVars>>

InspectFails ==
  /\ phase = "inspect" /\ Fault
  /\ Throw("docker")
  /\ UNCHANGED <<now, lag, cancelled, dockerVars>>

-----------------------------------------------------------------------------
(* stopCommand and forceStop.                                              *)

KillStarted ==
  /\ phase = "kill" /\ container = "up"
  /\ phase' = "killing"
  /\ due' = [due EXCEPT !["grace"] = now + Grace]
  /\ UNCHANGED <<envVars, dockerVars, remaining, error, lastOutput, runVars>>

KillFails ==
  /\ phase = "kill"
  /\ \/ container = "dead" /\ UNCHANGED faults
     \/ container = "up" /\ Fault
  /\ phase' = "force"
  /\ error' = "stuck"
  /\ UNCHANGED <<now, lag, cancelled, dockerVars, remaining, due, lastOutput, runVars>>

\* Mutant: the signal goes to the command and not to its process group.
KillEnds_CommandOnly ==
  /\ phase = "killing"
  /\ phase' = "release"
  /\ due' = [due EXCEPT !["grace"] = now + Grace]
  /\ procs' = [procs EXCEPT ![step] = IF @ = "running" THEN "left" ELSE @]
  /\ UNCHANGED <<now, lag, faults, cancelled, container, stream, remaining, error,
                 lastOutput, runVars>>

\* The kill's stream ended.  Its exit code is not read: if the pid file was
\* gone, it has killed nothing.
KillEnds ==
  /\ phase = "killing"
  /\ phase' = "release"
  /\ due' = [due EXCEPT !["grace"] = now + Grace]
  /\ \/ procs' = [procs EXCEPT ![step] = Killed(@)] /\ UNCHANGED faults
     \/ procs[step] \in Alive /\ Fault /\ UNCHANGED procs
  /\ UNCHANGED <<now, lag, cancelled, container, stream, remaining, error, lastOutput, runVars>>

\* completion.catch(...): the command has let go of its stream
Released ==
  /\ phase = "release" /\ stream # "open"
  /\ Throw(error)
  /\ UNCHANGED <<envVars, dockerVars>>

\* Mutant: the kill command itself has no time limit.
GraceOver_KillUnlimited ==
  /\ phase = "release" /\ Due("grace")
  /\ phase' = "force"
  /\ error' = "stuck"
  /\ due' = [due EXCEPT !["grace"] = 0]
  /\ UNCHANGED <<envVars, dockerVars, remaining, lastOutput, runVars>>

GraceOver ==
  /\ phase \in {"killing", "release"} /\ Due("grace")
  /\ phase' = "force"
  /\ error' = "stuck"
  /\ due' = [due EXCEPT !["grace"] = 0]
  /\ UNCHANGED <<envVars, dockerVars, remaining, lastOutput, runVars>>

\* forceStop swallows the failure of its kill
ForceStop ==
  /\ phase = "force"
  /\ \/ KillContainer /\ UNCHANGED faults
     \/ Fault /\ UNCHANGED dockerVars
  /\ Throw(error)
  /\ UNCHANGED <<now, lag, cancelled>>

-----------------------------------------------------------------------------
Outside ==
  \/ Output \/ CommandExits \/ StreamEnds \/ StreamBreaks
  \/ \E s \in StepIds : LeftoverEnds(s)
  \/ ContainerDies \/ StopNoticed

Exec ==
  \/ NoTimeLeft \/ Open \/ Started \/ StartFails \/ Completed
  \/ \E t \in Timers : TimerFires(t) \/ TimerIsLate(t)
  \/ InspectReturns \/ InspectFails
  \/ KillStarted \/ KillFails \/ KillEnds \/ Released \/ GraceOver \/ ForceStop

Caller == StopSeen \/ AllDone

Next == Tick \/ Outside \/ StopKills \/ Exec \/ Caller

Spec == Init /\ [][Next]_vars

(* Timers fire, time passes and Docker answers its calls.  Nothing obliges  *)
(* a command to print or exit, a kill to end or a stream to close.          *)
Prompt ==
  \/ NoTimeLeft \/ Open \/ Started \/ StartFails \/ Completed
  \/ \E t \in Timers : TimerFires(t) \/ TimerIsLate(t)
  \/ InspectReturns \/ KillStarted \/ KillFails \/ Released \/ GraceOver \/ ForceStop
  \/ Caller

LiveSpec == Spec /\ WF_vars(Prompt) /\ WF_vars(Tick)

-----------------------------------------------------------------------------
(* The types, and how far one exec's locals and its state agree.           *)
TypeOK ==
  /\ now \in Nat /\ lag \in 0 .. MaxLag /\ faults \in 0 .. MaxFaults
  /\ cancelled \in {"no", "noticed", "sent"}
  /\ container \in {"up", "dead"}
  /\ procs \in [StepIds -> {"none", "running", "left", "exited", "killed"}]
  /\ stream \in {"none", "open", "ended", "error"}
  /\ phase \in {"head", "race", "killing", "release", "done"} \cup Calls
  /\ remaining \in 0 .. Deadline
  /\ due \in [Timers -> Nat]
  /\ error \in Errors \cup {"none"}
  /\ lastOutput \in Nat
  /\ step \in 1 .. Len(Steps) + 1
  /\ result \in [StepIds -> Errors \cup {"none", "ok", "failed"}]
  /\ verdict \in {"none", "passed", "failed", "timed_out", "interrupted"}

(* Two commands never run at once in the container, and none runs between   *)
(* two: exec settles on the end of the stream, a broken stream costs the     *)
(* container, and no cut is taken for done while the stream is open.  One    *)
(* thing may have failed in Docker; a broken stream and a container that     *)
(* then cannot be killed are two.  What a command left in the background is  *)
(* not a command: it may run beside the next one.                            *)
OneCommandAtATime ==
  faults <= 1 =>
    \A s \in StepIds : procs[s] = "running" => s = step /\ phase \notin {"head", "open"}

(* README, Time limits: a command over its limit is killed "and every worker *)
(* it started", and the run continues in the same runner.  While Docker does *)
(* not fail, nothing of its process group is alive once exec has reported    *)
(* the timeout, then or later; a command that ended by itself may leave      *)
(* processes behind, and those it keeps while it is cut have to go.          *)
CutCommandIsGone ==
  faults = 0 => \A s \in StepIds : result[s] \in CommandTimeouts => procs[s] \notin Alive

(* The run goes on only in a runner that works ("the runner is still        *)
(* usable"): as long as Docker does not fail and nobody stops the run, the  *)
(* worker never reaches for the next command after it killed the container. *)
RunnerIsUsable ==
  phase \in {"head", "open"} /\ faults = 0 /\ cancelled = "no" => container = "up"

(* The overall limit is a cap: a run outlives its deadline by no more than  *)
(* the two grace periods of stopCommand and the time Docker took to answer. *)
OverrunIsBounded == now <= Deadline + 2 * Grace + lag

(* A command that prints nothing is cut, and one that prints is not cut for *)
(* silence: the idle limit counts from the last output.                     *)
SilenceIsCut ==
  /\ [](phase = "race" => now - lastOutput <= Idle)
  /\ [][phase = "race" /\ error' = "idle" => now - lastOutput >= Idle]_vars

(* A run times out only at its deadline, when a command could not be        *)
(* stopped, or in a phase it cannot skip; an app over its own limit leaves  *)
(* the run failed and the later apps tried (README, Time limits).           *)
TimeoutIsEarned ==
  /\ \A s \in StepIds : result[s] = "run" => now >= Deadline
  /\ verdict = "timed_out" =>
       \/ result[step] \in RunnerTimeouts
       \/ Steps[step] = "phase" /\ result[step] = "idle"
  /\ verdict \in {"passed", "failed"} =>
       \/ \A s \in StepIds : result[s] # "none" /\ result[s] \notin RunnerTimeouts
       \/ Steps[step] = "phase"

(* A run ends however its commands hang: silent, printing for ever, or      *)
(* refusing to be killed.                                                   *)
RunEnds == <>(phase = "done")
=============================================================================
