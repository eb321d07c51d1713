------------------------- MODULE RunnerExec_proofs --------------------------
(***************************************************************************)
(* Proofs about RunnerExec for any commands, any limits and any delays.    *)
(*                                                                         *)
(* The invariant IInv follows the time a command may still take from where *)
(* exec is (Clock), what each kind of error says of the moment it arose    *)
(* (Pending), which failures explain a command that outlives its exec      *)
(* (Alone) and what is left of one that was cut (Gone), and what the       *)
(* commands already run say of the run (Earned).                           *)
(***************************************************************************)
EXTENDS RunnerExec, TLAPS

\* The latest moment, in time the worker itself may spend, of each phase.
Clock ==
  /\ phase = "open" => remaining > 0 /\ now + remaining <= Deadline + lag
                       /\ now + remaining >= Deadline
  /\ due["run"] # 0 => due["run"] <= Deadline + lag /\ due["run"] >= Deadline
  /\ phase = "race" => due["run"] # 0 /\ now <= due["run"]
  /\ phase = "kill" => now <= Deadline + lag
  /\ phase = "killing" =>
       due["grace"] # 0 /\ now <= due["grace"] /\ due["grace"] <= Deadline + lag + Grace
  /\ phase = "release" =>
       due["grace"] # 0 /\ now <= due["grace"] /\ due["grace"] <= Deadline + lag + 2 * Grace
  /\ OverrunIsBounded

\* The errors each phase can be about to throw.
Pending ==
  /\ phase \notin {"head", "done"} => step \in StepIds
  /\ phase \in {"kill", "killing", "release"} => error \in CommandTimeouts
  /\ phase = "force" => error \in RunnerTimeouts \cup {"docker"}
  /\ error = "run" => now >= Deadline
  /\ step \in StepIds /\ Steps[step] = "phase" => error # "command" /\ due["command"] = 0
  /\ phase \notin {"kill", "killing", "release", "force"} => error = "none"

\* Only Docker's failures let a command outlive its exec.
Alone ==
  /\ faults <= 1 /\ stream \in {"none", "ended"} => \A s \in StepIds : procs[s] # "running"
  /\ phase = "inspect" => stream = "ended"
  /\ stream = "error" => faults >= 1
  /\ phase = "force" /\ error = "docker" => faults >= 1
  /\ phase = "release" /\ procs[step] = "running" =>
       faults >= (IF stream = "error" THEN 2 ELSE 1)
  /\ OneCommandAtATime

\* Once the kill has ended nothing of the command is alive, and a command that
\* is still to run has no result.
Gone ==
  /\ phase = "release" /\ faults = 0 => procs[step] \notin Alive
  /\ phase # "done" => \A s \in StepIds : s >= step => result[s] = "none"
  /\ CutCommandIsGone

Usable == phase # "done" /\ faults = 0 /\ cancelled = "no" => container = "up"

Earned ==
  /\ phase # "done" => /\ verdict = "none"
                       /\ \A s \in StepIds : s < step => result[s] \notin RunnerTimeouts \cup {"none"}
  /\ TimeoutIsEarned

IInv == TypeOK /\ Clock /\ Pending /\ Alone /\ Gone /\ Usable /\ Earned

-----------------------------------------------------------------------------
(* exec throws e, from wherever it can: what the five actions share.        *)
ThrowStep(e) ==
  /\ e \in Errors /\ step \in StepIds /\ Throw(e)
  /\ UNCHANGED <<now, lag, cancelled>>
  /\ \/ phase = "head" /\ e = "run" /\ now >= Deadline /\ UNCHANGED <<faults, dockerVars>>
     \/ phase = "open" /\ e = "docker" /\ UNCHANGED <<faults, dockerVars>>
     \/ phase \in {"open", "inspect"} /\ e = "docker" /\ Fault /\ UNCHANGED dockerVars
     \/ phase = "release" /\ e = error /\ stream # "open" /\ UNCHANGED <<faults, dockerVars>>
     \/ phase = "force" /\ e = error /\ KillContainer /\ UNCHANGED faults
     \/ phase = "force" /\ e = error /\ Fault /\ UNCHANGED dockerVars

Throwing == NoTimeLeft \/ StartFails \/ InspectFails \/ Released \/ ForceStop

(* The steps that leave the worker where it is.                             *)
OutsideStep == Tick \/ Outside \/ StopKills

\* The constants, as facts about numbers and about the steps.
LEMMA Numbers ==
  /\ Deadline \in Nat /\ Deadline > 0 /\ Idle \in Nat /\ Idle > 0
  /\ AppLimit \in Nat /\ AppLimit > 0 /\ Grace \in Nat /\ Grace > 0
  /\ MaxLag \in Nat /\ MaxFaults \in Nat
BY ExecAssumption DEF ExecAssumption

LEMMA StepFacts ==
  /\ Len(Steps) \in Nat
  /\ \A s \in StepIds : s \in Nat /\ s >= 1 /\ s <= Len(Steps) /\ Steps[s] \in {"phase", "app"}
  /\ \A s \in 1 .. Len(Steps) + 1 : s \in Nat /\ (s \in StepIds \/ s = Len(Steps) + 1)
BY ExecAssumption DEF ExecAssumption, StepIds

\* The initial state satisfies the invariant.
LEMMA InitHolds == Init => IInv
BY Numbers, StepFacts
   DEF Init, IInv, TypeOK, Clock, Pending, Alone, Gone, Usable, Earned, OverrunIsBounded,
       OneCommandAtATime, CutCommandIsGone, Alive, TimeoutIsEarned, StepIds, Timers, NoTimers, Calls, Errors,
       RunnerTimeouts, CommandTimeouts

-----------------------------------------------------------------------------
(* Types.                                                                  *)

LEMMA Throws == IInv /\ Throwing => \E e \in Errors : ThrowStep(e)
<1> SUFFICES ASSUME IInv, Throwing PROVE \E e \in Errors : ThrowStep(e)
  OBVIOUS
<1>1. /\ {"run", "docker"} \subseteq Errors
      /\ phase \in {"release", "force"} => error \in Errors
      /\ phase \in {"open", "inspect", "release", "force"} => step \in StepIds
  BY DEF IInv, Pending, Errors, RunnerTimeouts, CommandTimeouts
<1>2. CASE NoTimeLeft
  <2>1. ThrowStep("run")
    BY <1>1, <1>2 DEF NoTimeLeft, NextCommand, ThrowStep, envVars, dockerVars
  <2> QED
    BY <1>1, <2>1
<1>3. CASE StartFails
  <2>1. ThrowStep("docker")
    BY <1>1, <1>3 DEF StartFails, ThrowStep, dockerVars
  <2> QED
    BY <1>1, <2>1
<1>4. CASE InspectFails
  <2>1. ThrowStep("docker")
    BY <1>1, <1>4 DEF InspectFails, ThrowStep, dockerVars
  <2> QED
    BY <1>1, <2>1
<1>5. CASE Released \/ ForceStop
  <2>1. ThrowStep(error)
    BY <1>1, <1>5 DEF Released, ForceStop, ThrowStep, envVars, dockerVars
  <2> QED
    BY <1>1, <1>5, <2>1 DEF Released, ForceStop
<1> QED
  BY <1>2, <1>3, <1>4, <1>5 DEF Throwing

LEMMA TypeStep == IInv /\ [Next]_vars => TypeOK'
<1> SUFFICES ASSUME IInv, [Next]_vars PROVE TypeOK'
  OBVIOUS
<1>1. TypeOK /\ Pending
  BY DEF IInv
<1>2. NoTimers \in [Timers -> Nat] /\ Idle \in Nat /\ Grace \in Nat /\ Deadline \in Nat
        /\ AppLimit \in Nat /\ MaxLag \in Nat /\ MaxFaults \in Nat
  BY Numbers DEF NoTimers, Timers
<1>3. CASE Throwing
  <2> PICK e \in Errors : ThrowStep(e)
    BY <1>3, Throws
  <2>1. /\ procs' \in [StepIds -> {"none", "running", "left", "exited", "killed"}]
        /\ container' \in {"up", "dead"} /\ stream' = stream
    BY <1>1 DEF ThrowStep, KillContainer, Killed, dockerVars, TypeOK
  <2>2. faults' \in 0 .. MaxFaults
    BY <1>1, <1>2 DEF ThrowStep, Fault, TypeOK
  <2> QED
    BY <1>1, <1>2, <2>1, <2>2, StepFacts DEF ThrowStep, Throw, ExecOver, End, NextStep, TypeOK
<1>4. CASE InspectReturns
  BY <1>1, <1>2, <1>4, StepFacts DEF InspectReturns, Return, ExecOver, End, NextStep, envVars, dockerVars,
     TypeOK, Pending
<1>5. CASE Caller
  BY <1>1, <1>2, <1>5 DEF Caller, StopSeen, AllDone, End, envVars, dockerVars, TypeOK
<1>6. CASE Open \/ Completed \/ KillFails
  <2>1. CASE Open
    BY <1>1, <1>2, <2>1 DEF Open, NextCommand, Fault, envVars, dockerVars, runVars,
         TypeOK, Calls, Errors, RunnerTimeouts, Pending
  <2>2. CASE Completed
    BY <1>1, <1>2, <2>2 DEF Completed, NextCommand, Fault, envVars, dockerVars, runVars,
         TypeOK, Calls, Errors, RunnerTimeouts, Pending
  <2>3. CASE KillFails
    BY <1>1, <1>2, <2>3 DEF KillFails, NextCommand, Fault, envVars, dockerVars, runVars,
         TypeOK, Calls, Errors, RunnerTimeouts, Pending
  <2> QED BY <1>6, <2>1, <2>2, <2>3
<1>7. CASE Started
  <2>1. step \in StepIds /\ now \in Nat /\ remaining \in Nat
    BY <1>1, <1>2, <1>7 DEF Started, TypeOK, Pending
  <2>2. due' \in [Timers -> Nat]
    BY <1>1, <1>2, <1>7, <2>1 DEF Started, TypeOK, Timers, NoTimers
  <2> QED
    BY <1>1, <1>2, <1>7, <2>1, <2>2 DEF Started, envVars, runVars, TypeOK
<1>8. CASE \E t \in Timers : TimerFires(t) \/ TimerIsLate(t)
  <2> PICK t \in Timers : TimerFires(t) \/ TimerIsLate(t)
    BY <1>8
  <2>1. due' \in [Timers -> Nat]
    BY <1>1, <1>2 DEF TimerFires, TimerIsLate, TypeOK
  <2>2. error' \in Errors \cup {"none"}
    BY <1>1, <1>2 DEF TimerFires, TimerIsLate, TypeOK, Errors, RunnerTimeouts, CommandTimeouts, Timers
  <2>3. CASE TimerFires(t)
    BY <1>1, <1>2, <2>1, <2>2, <2>3 DEF TimerFires, envVars, dockerVars, runVars, TypeOK, Calls
  <2>4. CASE TimerIsLate(t)
    BY <1>1, <1>2, <2>1, <2>2, <2>4 DEF TimerIsLate, envVars, dockerVars, runVars, TypeOK, Calls
  <2> QED BY <2>3, <2>4
<1>9. CASE KillStarted \/ KillEnds \/ GraceOver
  <2>1. due' \in [Timers -> Nat]
    BY <1>1, <1>2, <1>9 DEF KillStarted, KillEnds, GraceOver, TypeOK
  <2>2. procs' \in [StepIds -> {"none", "running", "left", "exited", "killed"}]
    BY <1>1, <1>2, <1>9 DEF KillStarted, KillEnds, GraceOver, Killed, dockerVars, TypeOK
  <2>3. CASE KillStarted
    BY <1>1, <1>2, <2>1, <2>2, <2>3 DEF KillStarted, Fault, envVars, dockerVars, runVars,
         TypeOK, Calls, Errors, RunnerTimeouts
  <2>4. CASE KillEnds
    BY <1>1, <1>2, <2>1, <2>2, <2>4 DEF KillEnds, Fault, envVars, dockerVars, runVars,
         TypeOK, Calls, Errors, RunnerTimeouts
  <2>5. CASE GraceOver
    BY <1>1, <1>2, <2>1, <2>2, <2>5 DEF GraceOver, Fault, envVars, dockerVars, runVars,
         TypeOK, Calls, Errors, RunnerTimeouts
  <2> QED BY <1>9, <2>3, <2>4, <2>5
<1>10. CASE OutsideStep
  <2>1. CASE Tick
    BY <1>1, <1>2, <2>1 DEF Tick, dockerVars, execVars, runVars, TypeOK
  <2>2. CASE StopKills \/ ContainerDies
    <3>1. UNCHANGED dockerVars \/ KillContainer
      BY <2>2 DEF StopKills, ContainerDies
    <3>2. /\ procs' \in [StepIds -> {"none", "running", "left", "exited", "killed"}]
          /\ container' \in {"up", "dead"} /\ stream' = stream
      BY <1>1, <1>2, <3>1 DEF dockerVars, KillContainer, Killed, TypeOK
    <3>3. CASE StopKills
      BY <1>1, <1>2, <3>2, <3>3 DEF StopKills, Fault, execVars, runVars, TypeOK
    <3>4. CASE ContainerDies
      BY <1>1, <1>2, <3>2, <3>4 DEF ContainerDies, Fault, execVars, runVars, TypeOK
    <3> QED BY <2>2, <3>3, <3>4
  <2>3. CASE Output
    <3>0. now \in Nat /\ now + Idle \in Nat /\ due \in [Timers -> Nat]
      BY <1>1, <1>2 DEF TypeOK
    <3>1. due' \in [Timers -> Nat]
      BY <3>0, <2>3 DEF Output
    <3> QED
      BY <1>1, <1>2, <2>3, <3>1 DEF Output, envVars, dockerVars, runVars, TypeOK
  <2>4. CASE CommandExits \/ \E s \in StepIds : LeftoverEnds(s)
    BY <1>1, <2>4 DEF CommandExits, LeftoverEnds, envVars, execVars, runVars, TypeOK
  <2>5. CASE StreamEnds \/ StreamBreaks \/ StopNoticed
    <3>1. CASE StreamEnds
      BY <1>1, <1>2, <3>1 DEF StreamEnds, Fault, envVars, dockerVars, execVars, runVars, TypeOK
    <3>2. CASE StreamBreaks
      BY <1>1, <1>2, <3>2 DEF StreamBreaks, Fault, envVars, dockerVars, execVars, runVars, TypeOK
    <3>3. CASE StopNoticed
      BY <1>1, <1>2, <3>3 DEF StopNoticed, Fault, envVars, dockerVars, execVars, runVars, TypeOK
    <3> QED BY <2>5, <3>1, <3>2, <3>3
  <2> QED
    BY <1>10, <2>1, <2>2, <2>3, <2>4, <2>5 DEF OutsideStep, Outside
<1>11. CASE UNCHANGED vars
  BY <1>1, <1>2, <1>11 DEF vars, envVars, dockerVars, execVars, runVars, TypeOK
<1> QED
  BY <1>3, <1>4, <1>5, <1>6, <1>7, <1>8, <1>9, <1>10, <1>11
     DEF Next, Exec, OutsideStep, Throwing
-----------------------------------------------------------------------------
(* Time.                                                                   *)

\* A step that leaves exec, or never was in it, has only the cap to keep.
LEMMA ClockStep == IInv /\ [Next]_vars => Clock'
<1> SUFFICES ASSUME IInv, [Next]_vars PROVE Clock'
  OBVIOUS
<1>1. /\ now \in Nat /\ lag \in Nat /\ remaining \in Nat /\ due \in [Timers -> Nat]
      /\ Deadline \in Nat /\ Grace \in Nat /\ Deadline > 0
  BY Numbers DEF IInv, TypeOK
<1>2. Clock /\ OverrunIsBounded
  BY DEF IInv, Clock
<1>3. Timers = {"run", "command", "idle", "grace"} /\ NoTimers = [t \in Timers |-> 0]
  BY DEF Timers, NoTimers
<1>4. ASSUME phase' \in {"head", "done", "inspect"}, due' = NoTimers, now' = now, lag' = lag
      PROVE  Clock'
  BY <1>1, <1>2, <1>3, <1>4 DEF Clock, OverrunIsBounded
<1>5. CASE Throwing \/ InspectReturns
  <2>1. CASE Throwing
    BY <2>1, <1>4, Throws DEF ThrowStep, Throw, ExecOver, End, NextStep
  <2>2. CASE InspectReturns
    BY <2>2, <1>4 DEF InspectReturns, Return, ExecOver, End, NextStep, envVars
  <2> QED
    BY <1>5, <2>1, <2>2
<1>6. CASE Caller
  BY <1>1, <1>2, <1>6 DEF Caller, StopSeen, AllDone, End, envVars, Clock, OverrunIsBounded
<1>7. CASE Open
  BY <1>1, <1>2, <1>7 DEF Open, envVars, Clock, OverrunIsBounded
<1>8. CASE Started
  BY <1>1, <1>2, <1>3, <1>8 DEF Started, envVars, Clock, OverrunIsBounded
<1>9. CASE Completed
  BY <1>1, <1>2, <1>3, <1>9 DEF Completed, envVars, Clock, OverrunIsBounded
<1>10. CASE \E t \in Timers : TimerFires(t) \/ TimerIsLate(t)
  BY <1>1, <1>2, <1>3, <1>10 DEF TimerFires, TimerIsLate, envVars, Clock, OverrunIsBounded
<1>11. CASE KillStarted \/ KillEnds
  <2>1. /\ due' = [due EXCEPT !["grace"] = now + Grace]
        /\ now' = now /\ lag' = lag
        /\ \/ phase = "kill" /\ phase' = "killing"
           \/ phase = "killing" /\ phase' = "release"
    BY <1>11 DEF KillStarted, KillEnds, envVars
  <2>2. due'["grace"] = now + Grace /\ due'["run"] = due["run"]
    BY <1>1, <1>3, <2>1
  <2>3. /\ now <= Deadline + lag + Grace
        /\ phase = "kill" => now <= Deadline + lag
    BY <1>1, <1>2, <1>3, <2>1 DEF Clock
  <2>4. due'["grace"] # 0 /\ now <= due'["grace"] /\ due'["grace"] <= Deadline + lag + 2 * Grace
        /\ (phase = "kill" => due'["grace"] <= Deadline + lag + Grace)
    BY <1>1, <2>2, <2>3, Numbers
  <2> QED
    BY <1>2, <2>1, <2>2, <2>4 DEF Clock, OverrunIsBounded
<1>12. CASE KillFails \/ GraceOver
  <2>1. /\ due' = due \/ due' = [due EXCEPT !["grace"] = 0]
        /\ now' = now /\ lag' = lag /\ phase' = "force"
    BY <1>12 DEF KillFails, GraceOver, envVars
  <2>2. due'["run"] = due["run"]
    BY <1>1, <1>3, <2>1
  <2> QED
    BY <1>1, <1>2, <2>1, <2>2 DEF Clock, OverrunIsBounded
<1>13. CASE Tick
  BY <1>1, <1>2, <1>3, <1>13 DEF Tick, Waiting, Calls, execVars, Clock, OverrunIsBounded
<1>14. CASE Output
  BY <1>1, <1>2, <1>3, <1>14 DEF Output, envVars, Clock, OverrunIsBounded
<1>15. CASE UNCHANGED <<now, lag, execVars>>
  BY <1>2, <1>15 DEF execVars, Clock, OverrunIsBounded
<1>16. (Outside /\ ~Output) \/ StopKills \/ UNCHANGED vars => UNCHANGED <<now, lag, execVars>>
  BY DEF Outside, CommandExits, LeftoverEnds, StreamEnds, StreamBreaks, ContainerDies, StopNoticed, StopKills,
     vars, envVars
<1> QED
  BY <1>5, <1>6, <1>7, <1>8, <1>9, <1>10, <1>11, <1>12, <1>13, <1>14, <1>15, <1>16
     DEF Next, Exec, Throwing
-----------------------------------------------------------------------------
(* Which errors are pending where.                                         *)

LEMMA PendingStep == IInv /\ [Next]_vars => Pending'
<1> SUFFICES ASSUME IInv, [Next]_vars PROVE Pending'
  OBVIOUS
<1>1. /\ now \in Nat /\ now' \in Nat /\ now' >= now
      /\ due \in [Timers -> Nat] /\ Deadline \in Nat
      /\ Timers = {"run", "command", "idle", "grace"}
  <2>1. now \in Nat /\ now' >= now
    <3>1. now' = now \/ now' = now + 1
      BY DEF Next, Exec, Caller, Outside, Tick, Output, CommandExits, LeftoverEnds, StreamEnds, StreamBreaks,
         ContainerDies, StopNoticed, StopKills, NoTimeLeft, Open, Started, StartFails, Completed,
         TimerFires, TimerIsLate, InspectReturns, InspectFails, KillStarted, KillFails, KillEnds,
         Released, GraceOver, ForceStop, StopSeen, AllDone, vars, envVars
    <3> QED
      BY <3>1 DEF IInv, TypeOK
  <2> QED
    BY <2>1, TypeStep, Numbers DEF IInv, TypeOK, Timers
<1>2. Pending /\ Clock /\ TypeOK
  BY DEF IInv
<1>3. NoTimers = [t \in Timers |-> 0]
  BY DEF NoTimers
<1>4. CASE phase' \in {"head", "done"} /\ error' = "none" /\ due' = NoTimers
  BY <1>1, <1>3, <1>4 DEF Pending, CommandTimeouts
<1>5. CASE Throwing \/ InspectReturns
  <2>1. Throwing => phase' \in {"head", "done"} /\ error' = "none" /\ due' = NoTimers
    BY Throws DEF ThrowStep, Throw, ExecOver, End, NextStep
  <2>2. InspectReturns => phase' \in {"head", "done"} /\ error' = "none" /\ due' = NoTimers
    BY DEF InspectReturns, Return, ExecOver, End, NextStep
  <2> QED
    BY <1>4, <1>5, <2>1, <2>2
<1>6. CASE Caller \/ Open
  BY <1>1, <1>2, <1>6 DEF Caller, StopSeen, AllDone, End, Open, NextCommand, envVars, runVars,
     Pending
<1>7. CASE Started
  BY <1>1, <1>2, <1>3, <1>7 DEF Started, envVars, runVars, Pending, CommandTimeouts
<1>8. CASE Completed
  BY <1>1, <1>2, <1>3, <1>8 DEF Completed, envVars, runVars, Pending, CommandTimeouts,
     RunnerTimeouts
<1>9. CASE \E t \in Timers : TimerFires(t) \/ TimerIsLate(t)
  <2> PICK t \in Timers : TimerFires(t) \/ TimerIsLate(t)
    BY <1>9
  <2>1. CASE TimerFires(t)
    BY <1>1, <1>2, <2>1 DEF TimerFires, Due, envVars, runVars, Pending, Clock, CommandTimeouts,
       RunnerTimeouts
  <2>2. CASE TimerIsLate(t)
    BY <1>1, <1>2, <2>2 DEF TimerIsLate, envVars, runVars, Pending
  <2> QED
    BY <2>1, <2>2
<1>10. CASE KillStarted \/ KillFails \/ KillEnds \/ GraceOver
  BY <1>1, <1>2, <1>10 DEF KillStarted, KillFails, KillEnds, GraceOver, envVars, runVars,
     Pending, CommandTimeouts, RunnerTimeouts
<1>11. CASE Output
  BY <1>1, <1>2, <1>11 DEF Output, envVars, runVars, Pending
<1>12. CASE UNCHANGED <<execVars, runVars>>
  BY <1>1, <1>2, <1>12 DEF execVars, runVars, Pending
<1>13. Tick \/ (Outside /\ ~Output) \/ StopKills \/ UNCHANGED vars
         => UNCHANGED <<execVars, runVars>>
  BY DEF Tick, Outside, CommandExits, LeftoverEnds, StreamEnds, StreamBreaks, ContainerDies, StopNoticed,
     StopKills, vars
<1> QED
  BY <1>5, <1>6, <1>7, <1>8, <1>9, <1>10, <1>11, <1>12, <1>13 DEF Next, Exec, Throwing
-----------------------------------------------------------------------------
(* Commands that outlive their exec.                                       *)

LEMMA AloneStep == IInv /\ [Next]_vars => Alone'
<1> SUFFICES ASSUME IInv, [Next]_vars PROVE Alone'
  OBVIOUS
<1>1. /\ faults \in Nat /\ faults <= MaxFaults /\ MaxFaults \in Nat
      /\ faults' \in Nat /\ faults' <= MaxFaults
      /\ procs \in [StepIds -> {"none", "running", "left", "exited", "killed"}]
      /\ step \in Nat
  BY TypeStep, Numbers, StepFacts DEF IInv, TypeOK
<1>2. Alone /\ OneCommandAtATime /\ Pending
  BY DEF IInv, Alone
<1>3. KillContainer => \A s \in StepIds : procs'[s] # "running"
  BY <1>1 DEF KillContainer, Killed
<1>4. CASE Throwing
  <2> PICK e \in Errors : ThrowStep(e)
    BY <1>4, Throws
  <2>1. /\ phase' \in {"head", "done"} /\ error' = "none" /\ stream' = stream
        /\ faults' \in {faults, faults + 1}
        /\ procs' = procs \/ KillContainer
    BY DEF ThrowStep, Throw, ExecOver, End, NextStep, Fault, KillContainer, dockerVars
  <2>2. \A s \in StepIds : procs'[s] = "running" => procs[s] = "running"
    BY <1>3, <2>1
  <2>3. ASSUME faults' <= 1, phase' = "head", NEW s \in StepIds, procs'[s] = "running"
        PROVE  FALSE
    <3>1. s = step /\ phase \notin {"head", "open"}
      BY <1>1, <1>2, <2>1, <2>2, <2>3 DEF OneCommandAtATime
    <3>2. phase # "inspect"
      BY <1>1, <1>2, <2>1, <2>2, <2>3 DEF Alone
    <3>3. CASE phase = "release"
      <4>1. stream \in {"ended", "error"}
        BY <1>1, <1>2, <2>1, <2>2, <2>3, <3>3 DEF ThrowStep, IInv, TypeOK, Alone
      <4>2. faults >= 2
        BY <1>1, <1>2, <2>1, <2>2, <2>3, <3>1, <3>3, <4>1 DEF Alone
      <4> QED
        BY <1>1, <2>1, <2>3, <4>2
    <3>4. CASE phase = "force"
      <4>1. e = error /\ Fault /\ error \in RunnerTimeouts \cup {"docker"}
        BY <1>2, <1>3, <2>3, <3>4 DEF ThrowStep, Pending
      <4>2. error = "docker"
        BY <2>3, <4>1 DEF ThrowStep, Throw, End, NextStep, RunnerTimeouts
      <4>3. faults >= 1
        BY <1>2, <3>4, <4>2 DEF Alone
      <4> QED
        BY <1>1, <2>3, <4>1, <4>3 DEF Fault
    <3> QED
      BY <3>1, <3>2, <3>3, <3>4 DEF ThrowStep
  <2>4. phase' # "head" => step' = step
    BY DEF ThrowStep, Throw, End, NextStep
  <2>5. OneCommandAtATime'
    BY <1>1, <1>2, <2>1, <2>2, <2>3, <2>4 DEF OneCommandAtATime
  <2> QED
    BY <1>1, <1>2, <2>1, <2>2, <2>5 DEF Alone
<1>5. CASE InspectReturns
  <2>1. faults <= 1 => \A s \in StepIds : procs[s] # "running"
    BY <1>2, <1>5 DEF InspectReturns, Alone
  <2> QED
    BY <1>1, <1>2, <1>5, <2>1 DEF InspectReturns, Return, ExecOver, End, NextStep, envVars,
       dockerVars, Alone, OneCommandAtATime
<1>6. CASE Caller \/ Open
  BY <1>1, <1>2, <1>6 DEF Caller, StopSeen, AllDone, End, Open, NextCommand, envVars, dockerVars,
     runVars, Alone, OneCommandAtATime
<1>7. CASE Started
  BY <1>1, <1>2, <1>7 DEF Started, envVars, runVars, Alone, OneCommandAtATime
<1>8. CASE Completed
  BY <1>1, <1>2, <1>8 DEF Completed, envVars, dockerVars, runVars, Alone, OneCommandAtATime
<1>9. CASE \E t \in Timers : TimerFires(t) \/ TimerIsLate(t)
  BY <1>1, <1>2, <1>9 DEF TimerFires, TimerIsLate, envVars, dockerVars, runVars, Alone,
     OneCommandAtATime, Timers
<1>10. CASE KillStarted \/ KillFails \/ GraceOver
  BY <1>1, <1>2, <1>10 DEF KillStarted, KillFails, GraceOver, Fault, envVars, dockerVars, runVars,
     Alone, OneCommandAtATime
<1>11. CASE KillEnds
  <2>1. step \in StepIds
    BY <1>2, <1>11 DEF KillEnds, Pending
  <2>2. CASE procs' = procs /\ faults' = faults + 1
    BY <1>1, <1>2, <1>11, <2>1, <2>2 DEF KillEnds, runVars, Alone, OneCommandAtATime
  <2>3. CASE procs' = [procs EXCEPT ![step] = Killed(@)] /\ faults' = faults
    <3>1. \A s \in StepIds : procs'[s] = "running" => procs[s] = "running" /\ s # step
      BY <1>1, <2>1, <2>3 DEF Killed
    <3> QED
      BY <1>1, <1>2, <1>11, <2>1, <2>3, <3>1 DEF KillEnds, runVars, Alone, OneCommandAtATime
  <2> QED
    BY <1>11, <2>2, <2>3 DEF KillEnds, Fault
<1>12. CASE StopKills \/ ContainerDies
  <2>1. /\ UNCHANGED <<phase, error, step, stream>> /\ faults' \in {faults, faults + 1}
        /\ \A s \in StepIds : procs'[s] = "running" => procs[s] = "running"
    BY <1>1, <1>3, <1>12 DEF StopKills, ContainerDies, Fault, KillContainer, dockerVars, execVars, runVars
  <2>2. phase = "release" => step \in StepIds
    BY <1>2 DEF Pending
  <2> QED
    BY <1>1, <1>2, <2>1, <2>2 DEF Alone, OneCommandAtATime
<1>13. CASE Output \/ CommandExits \/ (\E s \in StepIds : LeftoverEnds(s)) \/ StreamEnds \/ StreamBreaks
  <2>1. CASE Output \/ CommandExits \/ \E s \in StepIds : LeftoverEnds(s)
    BY <1>1, <1>2, <2>1 DEF Output, CommandExits, LeftoverEnds, envVars, dockerVars, execVars, runVars, Alone,
       OneCommandAtATime, Pending
  <2>2. CASE StreamEnds
    BY <1>1, <1>2, <2>2 DEF StreamEnds, envVars, execVars, runVars, Alone, OneCommandAtATime
  <2>3. CASE StreamBreaks
    BY <1>1, <1>2, <2>3 DEF StreamBreaks, Fault, execVars, runVars, Alone, OneCommandAtATime
  <2> QED
    BY <1>13, <2>1, <2>2, <2>3
<1>14. CASE Tick \/ StopNoticed \/ UNCHANGED vars
  BY <1>2, <1>14 DEF Tick, StopNoticed, vars, envVars, dockerVars, execVars, runVars, Alone,
     OneCommandAtATime
<1> QED
  BY <1>4, <1>5, <1>6, <1>7, <1>8, <1>9, <1>10, <1>11, <1>12, <1>13, <1>14
     DEF Next, Exec, Outside, Throwing
-----------------------------------------------------------------------------
(* Commands that were cut.                                                 *)

LEMMA GoneStep == IInv /\ [Next]_vars => Gone'
<1> SUFFICES ASSUME IInv, [Next]_vars PROVE Gone'
  OBVIOUS
<1>1. /\ faults \in Nat /\ step \in Nat
      /\ procs \in [StepIds -> {"none", "running", "left", "exited", "killed"}]
      /\ result \in [StepIds -> Errors \cup {"none", "ok", "failed"}]
      /\ \A s \in StepIds : s \in Nat
  BY StepFacts DEF IInv, TypeOK
<1>2. Gone /\ CutCommandIsGone /\ Pending
  BY DEF IInv, Gone
<1>3. ASSUME NEW p \in {"none", "running", "left", "exited", "killed"}
      PROVE  Killed(p) \notin Alive
  BY <1>3 DEF Killed, Alive
<1>4. CASE Throwing
  <2> PICK e \in Errors : ThrowStep(e)
    BY <1>4, Throws
  <2>1. /\ phase' \in {"head", "done"} /\ phase # "done" /\ step \in StepIds
        /\ result' = [result EXCEPT ![step] = e]
        /\ step' = step + 1 \/ (step' = step /\ phase' = "done")
        /\ faults' = 0 => faults = 0
        /\ procs' = procs \/ KillContainer
    BY <1>1 DEF ThrowStep, Throw, End, NextStep, Fault, KillContainer, dockerVars
  <2>2. \A s \in StepIds : procs[s] \notin Alive => procs'[s] \notin Alive
    BY <1>1, <1>3, <2>1 DEF KillContainer
  <2>3. faults' = 0 /\ e \in CommandTimeouts => procs'[step] \notin Alive
    <3>1. e \in CommandTimeouts => phase = "release"
      BY <1>2 DEF ThrowStep, Pending, CommandTimeouts, RunnerTimeouts
    <3> QED
      BY <1>2, <2>1, <2>2, <3>1 DEF Gone
  <2>4. CutCommandIsGone'
    BY <1>1, <1>2, <2>1, <2>2, <2>3 DEF CutCommandIsGone
  <2> QED
    BY <1>1, <1>2, <2>1, <2>4 DEF Gone
<1>5. CASE InspectReturns
  <2> PICK r \in {"ok", "failed"} : Return(r)
    BY <1>5 DEF InspectReturns
  <2>1. /\ phase' \in {"head", "done"} /\ phase # "done" /\ step \in StepIds
        /\ result' = [result EXCEPT ![step] = r]
        /\ step' = step + 1 \/ (step' = step /\ phase' = "done")
        /\ UNCHANGED <<faults, procs>>
    BY <1>2, <1>5 DEF InspectReturns, Pending, Return, End, NextStep, envVars, dockerVars
  <2>2. r \notin CommandTimeouts
    BY DEF CommandTimeouts
  <2>3. CutCommandIsGone'
    BY <1>1, <1>2, <2>1, <2>2 DEF CutCommandIsGone
  <2> QED
    BY <1>1, <1>2, <2>1, <2>3 DEF Gone
<1>6. CASE Started
  <2>1. /\ step \in StepIds /\ result[step] = "none" /\ phase' = "race"
        /\ procs' = [procs EXCEPT ![step] = "running"]
        /\ UNCHANGED <<faults, step, result>>
    BY <1>1, <1>2, <1>6 DEF Started, Pending, Gone, envVars, runVars
  <2>2. CutCommandIsGone'
    BY <1>1, <1>2, <2>1 DEF CutCommandIsGone, CommandTimeouts
  <2> QED
    BY <1>2, <1>6, <2>1, <2>2 DEF Started, Gone
<1>7. CASE KillEnds
  <2>1. step \in StepIds
    BY <1>2, <1>7 DEF KillEnds, Pending
  <2>2. CASE procs' = procs /\ faults' = faults + 1
    BY <1>1, <1>2, <1>7, <2>2 DEF KillEnds, runVars, Gone, CutCommandIsGone
  <2>3. CASE procs' = [procs EXCEPT ![step] = Killed(@)] /\ faults' = faults
    <3>1. procs'[step] \notin Alive /\ \A s \in StepIds : procs[s] \notin Alive => procs'[s] \notin Alive
      BY <1>1, <1>3, <2>1, <2>3
    <3> QED
      BY <1>1, <1>2, <1>7, <2>3, <3>1 DEF KillEnds, runVars, Gone, CutCommandIsGone
  <2> QED
    BY <1>7, <2>2, <2>3 DEF KillEnds, Fault
<1>8. ASSUME UNCHANGED runVars, faults' = 0 => faults = 0,
             phase' = "release" => phase = "release",
             phase = "done" => phase' = "done",
             phase = "release" => step \in StepIds,
             \A s \in StepIds : procs[s] \notin Alive => procs'[s] \notin Alive
      PROVE  Gone'
  BY <1>1, <1>2, <1>8 DEF runVars, Gone, CutCommandIsGone
<1>9. phase = "release" => step \in StepIds
  BY <1>2 DEF Pending
<1>10. CASE StopKills \/ ContainerDies
  <2>1. procs' = procs \/ KillContainer
    BY <1>10 DEF StopKills, ContainerDies, dockerVars
  <2>2. \A s \in StepIds : procs[s] \notin Alive => procs'[s] \notin Alive
    BY <1>1, <1>3, <2>1 DEF KillContainer
  <2> QED
    BY <1>1, <1>8, <1>9, <1>10, <2>2 DEF StopKills, ContainerDies, Fault, execVars
<1>11. CASE CommandExits \/ \E s \in StepIds : LeftoverEnds(s)
  <2>1. \A s \in StepIds : procs[s] \notin Alive => procs'[s] \notin Alive
    BY <1>1, <1>11 DEF CommandExits, LeftoverEnds, Alive
  <2> QED
    BY <1>8, <1>9, <1>11, <2>1 DEF CommandExits, LeftoverEnds, envVars, execVars
<1>12. CASE \/ Tick \/ Output \/ StreamEnds \/ StreamBreaks \/ StopNoticed \/ Open \/ Completed
            \/ KillStarted \/ KillFails \/ GraceOver
            \/ (\E t \in Timers : TimerFires(t) \/ TimerIsLate(t)) \/ UNCHANGED vars
  BY <1>1, <1>8, <1>9, <1>12 DEF Tick, Output, StreamEnds, StreamBreaks, StopNoticed, Open,
     NextCommand, Completed, KillStarted, KillFails, GraceOver, TimerFires, TimerIsLate, Fault,
     vars, envVars, dockerVars, execVars, runVars
<1>13. CASE Caller
  BY <1>2, <1>13 DEF Caller, StopSeen, AllDone, End, envVars, dockerVars, Gone, CutCommandIsGone
<1> QED
  BY <1>4, <1>5, <1>6, <1>7, <1>10, <1>11, <1>12, <1>13 DEF Next, Exec, Outside, Throwing
-----------------------------------------------------------------------------
(* The runner, and the verdict.                                            *)

LEMMA UsableStep == IInv /\ [Next]_vars => Usable'
<1> SUFFICES ASSUME IInv, [Next]_vars,
                    phase' # "done", faults' = 0, cancelled' = "no"
             PROVE  container' = "up"
  BY DEF Usable
<1>1. TypeOK /\ Usable /\ Pending /\ faults \in Nat
  BY DEF IInv, TypeOK
<1>2. Fault => FALSE
  BY <1>1 DEF Fault
<1>3. CASE Throwing
  <2> PICK e \in Errors : ThrowStep(e)
    BY <1>3, Throws
  <2>1. phase # "done" /\ cancelled = "no"
    BY DEF ThrowStep
  <2>2. CASE phase = "force"
    <3>1. e = error /\ faults = 0 /\ error \in RunnerTimeouts \cup {"docker"}
      BY <1>1, <1>2, <2>2 DEF ThrowStep, Pending
    <3>2. error = "docker"
      BY <2>1, <3>1 DEF ThrowStep, Throw, End, NextStep, RunnerTimeouts
    <3> QED
      BY <2>2, <3>1, <3>2 DEF IInv, Alone
  <2>3. CASE phase # "force"
    BY <1>1, <1>2, <2>1, <2>3 DEF ThrowStep, Usable, dockerVars
  <2> QED
    BY <2>2, <2>3
<1>4. CASE StopKills \/ ContainerDies
  BY <1>2, <1>4 DEF StopKills, ContainerDies
<1>5. CASE UNCHANGED <<container, cancelled>> /\ faults' >= faults /\ (phase = "done" => phase' = "done")
  BY <1>1, <1>5 DEF Usable
<1>6. CASE InspectReturns \/ Caller \/ Open \/ Started \/ Completed \/ Tick \/ StopNoticed
           \/ KillStarted \/ KillFails \/ KillEnds \/ GraceOver \/ Output \/ CommandExits
           \/ (\E s \in StepIds : LeftoverEnds(s)) \/ StreamEnds \/ StreamBreaks \/ UNCHANGED vars
           \/ \E t \in Timers : TimerFires(t) \/ TimerIsLate(t)
  BY <1>1, <1>2, <1>5, <1>6 DEF InspectReturns, Caller, StopSeen, AllDone, End, Open, Started, Completed,
     Tick, StopNoticed, KillStarted, KillFails, KillEnds, GraceOver, Output, CommandExits,
     LeftoverEnds, StreamEnds, StreamBreaks, TimerFires, TimerIsLate, NextCommand, Return, vars, envVars,
     dockerVars, execVars, runVars
<1> QED
  BY <1>3, <1>4, <1>6 DEF Next, Exec, Outside, Throwing

LEMMA EarnedStep == IInv /\ [Next]_vars => Earned'
<1> SUFFICES ASSUME IInv, [Next]_vars PROVE Earned'
  OBVIOUS
<1>1. /\ Earned /\ TimeoutIsEarned /\ Pending
      /\ result \in [StepIds -> Errors \cup {"none", "ok", "failed"}]
      /\ step \in 1 .. Len(Steps) + 1
      /\ now \in Nat /\ Deadline \in Nat
  BY Numbers DEF IInv, Earned, TypeOK
<1>2. \A s \in StepIds : s \in Nat /\ Steps[s] \in {"phase", "app"}
  BY StepFacts
<1>3. CASE Throwing
  <2> PICK e \in Errors : ThrowStep(e)
    BY <1>3, Throws
  <2>1. /\ step \in StepIds /\ phase # "done" /\ now' = now
        /\ result' = [result EXCEPT ![step] = e]
        /\ e = "run" => now >= Deadline
        /\ Steps[step] = "phase" => e # "command"
    BY <1>1 DEF ThrowStep, Throw, Pending
  <2>2. \A s \in StepIds : result'[s] = "run" => now' >= Deadline
    BY <1>1, <2>1 DEF TimeoutIsEarned
  <2>3. CASE Steps[step] = "app"
    <3>1. CASE phase' = "done"
      <4>1. step' = step /\ verdict' \in {"interrupted", "timed_out"}
            /\ (verdict' = "timed_out" => e \in RunnerTimeouts)
        BY <2>3, <3>1 DEF ThrowStep, Throw, End, NextStep
      <4> QED
        BY <1>1, <2>1, <2>2, <3>1, <4>1 DEF Earned, TimeoutIsEarned
    <3>2. CASE phase' # "done"
      <4>1. step' = step + 1 /\ verdict' = "none" /\ e \notin RunnerTimeouts /\ e # "none"
        BY <1>1, <2>1, <2>3, <3>2 DEF ThrowStep, Throw, End, NextStep, Earned, Errors,
           RunnerTimeouts, CommandTimeouts
      <4>2. \A s \in StepIds : s < step' => result'[s] \notin RunnerTimeouts \cup {"none"}
        BY <1>1, <1>2, <2>1, <4>1 DEF Earned
      <4> QED
        BY <2>2, <4>1, <4>2 DEF Earned, TimeoutIsEarned
    <3> QED
      BY <3>1, <3>2
  <2>4. CASE Steps[step] = "phase"
    <3>1. phase' = "done" /\ step' = step /\ verdict' = (IF e = "docker" THEN "failed" ELSE "timed_out")
      BY <2>4 DEF ThrowStep, Throw, End
    <3>2. verdict' = "timed_out" => e \in RunnerTimeouts \cup {"idle"}
      BY <2>1, <2>4, <3>1 DEF Errors, CommandTimeouts, RunnerTimeouts
    <3> QED
      BY <1>1, <2>1, <2>2, <2>4, <3>1, <3>2 DEF Earned, TimeoutIsEarned
  <2> QED
    BY <1>2, <2>1, <2>3, <2>4
<1>4. CASE InspectReturns
  <2> PICK r \in {"ok", "failed"} : Return(r)
    BY <1>4 DEF InspectReturns
  <2>1. /\ step \in StepIds /\ phase # "done" /\ now' = now
        /\ result' = [result EXCEPT ![step] = r]
    BY <1>1, <1>4 DEF InspectReturns, Pending, Return, envVars
  <2>2. \A s \in StepIds : result'[s] = "run" => now' >= Deadline
    BY <1>1, <2>1 DEF TimeoutIsEarned
  <2>3. CASE phase' = "done"
    <3>1. /\ step' = step
          /\ verdict' = "interrupted" \/ (verdict' = "failed" /\ Steps[step] = "phase")
      BY <2>3 DEF Return, End, NextStep
    <3> QED
      BY <2>2, <2>3, <3>1 DEF Earned, TimeoutIsEarned
  <2>4. CASE phase' # "done"
    <3>1. step' = step + 1 /\ verdict' = "none"
      BY <1>1, <2>1, <2>4 DEF Return, End, NextStep, Earned
    <3>2. \A s \in StepIds : s < step' => result'[s] \notin RunnerTimeouts \cup {"none"}
      BY <1>1, <1>2, <2>1, <3>1 DEF Earned, RunnerTimeouts
    <3> QED
      BY <2>2, <3>1, <3>2 DEF Earned, TimeoutIsEarned
  <2> QED
    BY <2>3, <2>4
<1>5. CASE StopSeen
  BY <1>1, <1>5 DEF StopSeen, End, envVars, Earned, TimeoutIsEarned
<1>6. CASE AllDone
  <2>1. \A s \in StepIds : s < step
    BY <1>1, <1>6, StepFacts DEF AllDone, StepIds
  <2> QED
    BY <1>1, <1>6, <2>1 DEF AllDone, End, envVars, Earned, TimeoutIsEarned
<1>7. CASE UNCHANGED runVars /\ now' \in {now, now + 1} /\ (phase' = "done" <=> phase = "done")
  BY <1>1, <1>7 DEF runVars, Earned, TimeoutIsEarned
<1>8. CASE Open \/ Started \/ Completed \/ KillStarted \/ KillFails \/ KillEnds \/ GraceOver
           \/ OutsideStep \/ UNCHANGED vars \/ \E t \in Timers : TimerFires(t) \/ TimerIsLate(t)
  <2>1. UNCHANGED runVars /\ now' \in {now, now + 1}
    BY <1>8 DEF Open, Started, Completed, KillStarted, KillFails, KillEnds, GraceOver, OutsideStep,
       Outside, Tick, Output, CommandExits, LeftoverEnds, StreamEnds, StreamBreaks, ContainerDies, StopNoticed,
       StopKills, TimerFires, TimerIsLate, vars, envVars
  <2>2. phase' = "done" <=> phase = "done"
    BY <1>8 DEF Open, NextCommand, Started, Completed, KillStarted, KillFails, KillEnds, GraceOver,
       OutsideStep, Outside, Tick, Output, CommandExits, LeftoverEnds, StreamEnds, StreamBreaks, ContainerDies,
       StopNoticed, StopKills, TimerFires, TimerIsLate, vars, execVars
  <2> QED
    BY <1>7, <2>1, <2>2
<1> QED
  BY <1>3, <1>4, <1>5, <1>6, <1>8 DEF Next, Exec, Caller, OutsideStep, Throwing

-----------------------------------------------------------------------------
(* The theorems.                                                           *)

\* The inductive invariant holds in every reachable state.
THEOREM Invariance == Spec => []IInv
<1>1. IInv /\ [Next]_vars => IInv'
  BY TypeStep, ClockStep, PendingStep, AloneStep, GoneStep, UsableStep, EarnedStep DEF IInv
<1> QED
  BY InitHolds, <1>1, PTL DEF Spec

\* Every variable keeps its type.
THEOREM TypeCorrect == Spec => []TypeOK
<1>1. IInv => TypeOK
  BY DEF IInv
<1> QED
  BY <1>1, Invariance, PTL

\* With at most one failure in Docker, no two commands run at once and none
\* runs between two; without any, a command that was cut has left nothing of
\* its process group behind.
THEOREM CommandsRunAlone == Spec => [](OneCommandAtATime /\ CutCommandIsGone)
<1>1. IInv => OneCommandAtATime /\ CutCommandIsGone
  BY DEF IInv, Alone, Gone
<1> QED
  BY <1>1, Invariance, PTL

\* The worker goes on only with a runner it has not killed.
THEOREM RunnerStaysUsable == Spec => []RunnerIsUsable
<1>1. IInv => RunnerIsUsable
  BY DEF IInv, Usable, RunnerIsUsable
<1> QED
  BY <1>1, Invariance, PTL

\* Whatever the limits, a run ends within two grace periods of its deadline,
\* apart from what Docker's answers take.
THEOREM DeadlineIsACap == Spec => []OverrunIsBounded
<1>1. IInv => OverrunIsBounded
  BY DEF IInv, Clock
<1> QED
  BY <1>1, Invariance, PTL

\* A run times out only for its deadline, a command that could not be
\* stopped or a phase; otherwise every app was tried.
THEOREM TimeoutsAreEarned == Spec => []TimeoutIsEarned
<1>1. IInv => TimeoutIsEarned
  BY DEF IInv, Earned
<1> QED
  BY <1>1, Invariance, PTL

\* While a command races its limits, the idle timer stands one limit after its
\* last output, and has not passed.
Listening == phase = "race" => due["idle"] = lastOutput + Idle /\ now <= due["idle"]

LEMMA ListeningStep == IInv /\ Listening /\ [Next]_vars => Listening'
<1> SUFFICES ASSUME IInv, Listening, [Next]_vars, phase' = "race"
             PROVE  due'["idle"] = lastOutput' + Idle /\ now' <= due'["idle"]
  BY DEF Listening
<1> USE Numbers
<1>0. due \in [Timers -> Nat] /\ now \in Nat /\ lastOutput \in Nat /\ "idle" \in Timers
  BY DEF IInv, TypeOK, Timers
<1>1. CASE Started
  BY <1>0, <1>1 DEF Started, NoTimers, Timers, envVars
<1>2. CASE Output
  BY <1>0, <1>2 DEF Output, envVars
<1>3. CASE Tick
  BY <1>0, <1>3 DEF Tick, execVars, Listening
<1>4. CASE UNCHANGED <<now, phase, due, lastOutput>>
  BY <1>4 DEF Listening
<1>5. \/ Started \/ Output \/ Tick \/ UNCHANGED <<now, phase, due, lastOutput>>
  BY DEF Next, Outside, CommandExits, LeftoverEnds, StreamEnds, StreamBreaks, ContainerDies, StopNoticed, StopKills,
         Exec, NoTimeLeft, Open, StartFails, Completed, TimerFires, TimerIsLate, InspectReturns,
         InspectFails, KillStarted, KillFails, KillEnds, Released, GraceOver, ForceStop, Caller,
         StopSeen, AllDone, Throw, Return, End, NextStep, vars, envVars, execVars
<1> QED
  BY <1>1, <1>2, <1>3, <1>4, <1>5

\* A command is cut for silence once its output is older than the limit, and
\* never before.
THEOREM SilenceAlone == Spec => SilenceIsCut
<1>1. Init => Listening
  BY DEF Init, Listening
<1>2. IInv /\ Listening => (phase = "race" => now - lastOutput <= Idle)
  BY Numbers DEF IInv, TypeOK, Listening
<1>3. IInv /\ Listening /\ [Next]_vars => [phase = "race" /\ error' = "idle" => now - lastOutput >= Idle]_vars
  <2> SUFFICES ASSUME IInv, Listening, Next, phase = "race", error' = "idle"
               PROVE  now - lastOutput >= Idle
    OBVIOUS
  <2>1. error # "idle"
    BY DEF IInv, Pending
  <2>2. \E t \in Timers : TimerFires(t) /\ t = "idle"
    BY <2>1 DEF Next, Tick, Outside, Output, CommandExits, LeftoverEnds, StreamEnds, StreamBreaks, ContainerDies,
         StopNoticed, StopKills, Exec, NoTimeLeft, NextCommand, Open, Started, StartFails, Completed, TimerFires,
         TimerIsLate, InspectReturns, InspectFails, KillStarted, KillFails, KillEnds, Released,
         GraceOver, ForceStop, Caller, StopSeen, AllDone, vars, execVars
  <2>3. due["idle"] <= now
    BY <2>2 DEF TimerFires, Due
  <2> QED
    BY <2>3, Numbers DEF IInv, TypeOK, Listening
<1> QED
  BY <1>1, <1>2, <1>3, ListeningStep, Invariance, PTL DEF Spec, SilenceIsCut
=============================================================================
