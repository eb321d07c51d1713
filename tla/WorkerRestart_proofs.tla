------------------------ MODULE WorkerRestart_proofs ------------------------
(***************************************************************************)
(* The watcher and held restarts, for any versions, faults and decisions.  *)
(*                                                                         *)
(* IInv adds what the checked properties rest on: where rebuild() stands,  *)
(* the worker is stopped, signalled or gone (Stopping); a watcher that is  *)
(* down has nothing under way (Resting); and what the running callback has *)
(* read of the held work still holds when it acts on it (Reading).         *)
(***************************************************************************)
EXTENDS WorkerRestart, TLAPS

Stopping ==
  /\ rb = "build" => app = "none"
  /\ rb = "kill" => app \in {"dead", "none"}

Resting ==
  /\ shut \in {"down", "off"} => app = "none" /\ ~holding /\ rb = "idle" /\ task = NoTask
  /\ ~HoldsRestarts => ~holding /\ ~heldWork /\ task.at \notin {"read", "write"}

Reading ==
  /\ heldWork => work
  /\ task.at = "go" /\ heldWork =>
       app = "none" \/ task.copy = "now" \/ task.saw = "unreadable"

IInv == TypeOK /\ OneWorker /\ HeldRestartIsShown /\ Stopping /\ Resting /\ Reading

\* TypeOK in parts.
Flags ==
  /\ debounced \in BOOLEAN /\ holding \in BOOLEAN /\ queued \in BOOLEAN
  /\ two \in BOOLEAN /\ work \in BOOLEAN /\ heldWork \in BOOLEAN

Values ==
  /\ src \in 1..MaxVersion /\ built \in 1..MaxVersion /\ from \in 1..src
  /\ rb \in {"idle", "stop", "kill", "build"}
  /\ shut \in {"no", "stop", "kill", "down", "off"}
  /\ app \in {"none", "dying", "dead"} \cup Alive
  /\ file \in Files
  /\ post \in Choices \cup {"idle"}
  /\ works \in 0..MaxWork /\ faults \in 0..MaxFaults
  /\ decisions \in 0..MaxDecisions

-----------------------------------------------------------------------------
(* The initial state and every step keep the invariant.                    *)

LEMMA InitHolds == RestartInit => IInv
<1> SUFFICES ASSUME RestartInit PROVE IInv
  OBVIOUS
<1>1. Flags
  BY DEF RestartInit, Flags
<1>2. Values
  BY RestartAssumption DEF RestartInit, Values, Files, Choices, Alive
<1>3. task \in Task
  BY DEF RestartInit, NoTask, Task, Files
<1>4. OneWorker /\ HeldRestartIsShown /\ Stopping /\ Resting /\ Reading
  BY DEF RestartInit, OneWorker, HeldRestartIsShown, Stopping, Resting, Reading, NoTask
<1> QED BY <1>1, <1>2, <1>3, <1>4 DEF IInv, TypeOK, Flags, Values

\* Callbacks only take copies of the file and of the database.
LEMMA TaskStep == TypeOK /\ [Next]_vars => task' \in Task
<1> SUFFICES ASSUME TypeOK, [Next]_vars PROVE task' \in Task
  OBVIOUS
<1>1. task \in Task /\ file \in Files /\ NoTask \in Task
  BY DEF TypeOK, Task, NoTask, Files
<1>2. CASE Debounced
  <2>1. task' = [NoTask EXCEPT !.at = "write", !.copy = file]
          \/ task' = [NoTask EXCEPT !.at = "read", !.saw = "work"]
          \/ task' = [NoTask EXCEPT !.at = "go"]
          \/ \E saw \in {"unreadable", "nothing"} : task' = [NoTask EXCEPT !.at = "go", !.saw = saw]
    BY <1>2 DEF Debounced, ChangeNoted, ChangeHeld, ChangeRebuilds, ActiveWork
  <2> QED BY <1>1, <2>1 DEF Task, NoTask
<1>3. CASE ReadPending
  BY <1>1, <1>3 DEF ReadPending, Task
<1>4. CASE CheckHeldRestart
  BY <1>1, <1>4 DEF CheckHeldRestart, Task, NoTask
<1>5. CASE ReleaseHeldRestart
  <2>1. \E saw \in {"unreadable", "nothing", "work"} : task' = [task EXCEPT !.at = "go", !.saw = saw]
    BY <1>5 DEF ReleaseHeldRestart, ActiveWork
  <2> QED BY <1>1, <2>1 DEF Task
<1>6. CASE task' = NoTask \/ task' = task
  BY <1>1, <1>6
<1> QED BY <1>2, <1>3, <1>4, <1>5, <1>6
        DEF Next, Watcher, Worker, Server, vars, watcherVars, Change, WritePending, KeepHolding, Rebuild,
            StopTimesOut, StopReturns, BuildEnds, ExitHandled, Shutdown, ShutdownTimesOut, ShutdownEnds,
            Boot, Recover, ClaimWork, FinishWork, WorkerExits, DecideRead, DecideWrite, ServerDies,
            WorkerDies, PowerLoss, Gone

\* The flags stay flags.
LEMMA FlagStep == TypeOK /\ [Next]_vars => Flags'
<1> SUFFICES ASSUME TypeOK, [Next]_vars PROVE Flags'
  OBVIOUS
<1>0. Flags
  BY DEF TypeOK, Flags
<1>1. CASE Change
  BY <1>0, <1>1 DEF Change, Flags, watcherVars, appVars, workVars, fileVars, counters
<1>2. CASE Debounced
  BY <1>0, <1>2 DEF Debounced, Free, Flags, watcherVars, appVars, workVars, fileVars, counters
<1>3. CASE ReadPending
  BY <1>0, <1>3 DEF ReadPending, Flags, watcherVars, appVars, workVars, fileVars, counters
<1>4. CASE WritePending
  BY <1>0, <1>4 DEF WritePending, RecordChange, Flags, watcherVars, appVars, workVars, fileVars, counters
<1>5. CASE CheckHeldRestart \/ KeepHolding
  BY <1>0, <1>5 DEF CheckHeldRestart, KeepHolding, Free, Flags, watcherVars, appVars, workVars, fileVars, counters
<1>6. CASE ReleaseHeldRestart
  BY <1>0, <1>6 DEF ReleaseHeldRestart, Flags, watcherVars, appVars, workVars, fileVars, counters
<1>7. CASE Rebuild
  BY <1>0, <1>7 DEF Rebuild, QueueRebuild, BeginRebuild, Signalled, Flags, watcherVars, appVars, workVars, fileVars, counters
<1>8. CASE StopTimesOut \/ StopReturns
  BY <1>0, <1>8 DEF StopTimesOut, StopReturns, Free, Flags, watcherVars, appVars, workVars, fileVars, counters
<1>9. CASE BuildEnds
  BY <1>0, <1>9 DEF BuildEnds, BeginRebuild, Signalled, Free, Flags, watcherVars, appVars, workVars, fileVars, counters
<1>10. CASE ExitHandled
  BY <1>0, <1>10 DEF ExitHandled, Gone, Flags, watcherVars, appVars, workVars, fileVars, counters
<1>11. CASE Shutdown
  BY <1>0, <1>11 DEF Shutdown, Signalled, Gone, Free, Flags, watcherVars, appVars, workVars, fileVars, counters
<1>12. CASE ShutdownTimesOut \/ ShutdownEnds
  BY <1>0, <1>12 DEF ShutdownTimesOut, ShutdownEnds, Gone, Flags, watcherVars, appVars, workVars, fileVars, counters
<1>13. CASE Boot
  BY <1>0, <1>13 DEF Boot, Flags, watcherVars, appVars, workVars, fileVars, counters
<1>14. CASE Recover \/ ClaimWork \/ FinishWork \/ WorkerExits
  BY <1>0, <1>14 DEF Recover, ClaimWork, FinishWork, WorkerExits, Flags, watcherVars, appVars, workVars, fileVars, counters
<1>15. CASE Server
  BY <1>0, <1>15 DEF Server, DecideRead, DecideWrite, ServerDies, Flags, watcherVars, appVars, workVars, fileVars, counters
<1>16. CASE WorkerDies \/ PowerLoss
  BY <1>0, <1>16 DEF WorkerDies, PowerLoss, Gone, Flags, watcherVars, appVars, workVars, fileVars, counters
<1>17. CASE UNCHANGED vars
  BY <1>0, <1>17 DEF vars, Flags, watcherVars, appVars, workVars, fileVars, counters
<1> QED BY <1>1, <1>2, <1>3, <1>4, <1>5, <1>6, <1>7, <1>8, <1>9, <1>10, <1>11, <1>12, <1>13, <1>14, <1>15, <1>16, <1>17 DEF Next, Watcher, Worker

\* Every step keeps the types.
LEMMA TypeStep == TypeOK /\ [Next]_vars => TypeOK'
<1> SUFFICES ASSUME TypeOK, [Next]_vars PROVE Values'
  BY TaskStep, FlagStep DEF TypeOK, Flags, Values
<1>0. /\ MaxVersion \in Nat /\ MaxWork \in Nat /\ MaxFaults \in Nat /\ MaxDecisions \in Nat
      /\ task.copy \in Files /\ Values
  BY RestartAssumption DEF TypeOK, Task, Values
<1>1. CASE Change
  BY <1>0, <1>1 DEF Change, Values, Files, Choices, Alive, watcherVars, appVars, workVars, fileVars, counters
<1>2. CASE Debounced
  BY <1>0, <1>2 DEF Debounced, Free, Values, Files, Choices, Alive, watcherVars, appVars, workVars, fileVars, counters
<1>3. CASE ReadPending
  BY <1>0, <1>3 DEF ReadPending, Values, Files, Choices, Alive, watcherVars, appVars, workVars, fileVars, counters
<1>4. CASE WritePending
  BY <1>0, <1>4 DEF WritePending, RecordChange, Values, Files, Choices, Alive, watcherVars, appVars, workVars, fileVars, counters
<1>5. CASE CheckHeldRestart \/ KeepHolding
  BY <1>0, <1>5 DEF CheckHeldRestart, KeepHolding, Free, Values, Files, Choices, Alive, watcherVars, appVars, workVars, fileVars, counters
<1>6. CASE ReleaseHeldRestart
  BY <1>0, <1>6 DEF ReleaseHeldRestart, Values, Files, Choices, Alive, watcherVars, appVars, workVars, fileVars, counters
<1>7. CASE Rebuild
  BY <1>0, <1>7 DEF Rebuild, QueueRebuild, BeginRebuild, Signalled, Values, Files, Choices, Alive, watcherVars, appVars, workVars, fileVars, counters
<1>8. CASE StopTimesOut \/ StopReturns
  BY <1>0, <1>8 DEF StopTimesOut, StopReturns, Free, Values, Files, Choices, Alive, watcherVars, appVars, workVars, fileVars, counters
<1>9. CASE BuildEnds
  BY <1>0, <1>9 DEF BuildEnds, BeginRebuild, Signalled, Free, Values, Files, Choices, Alive, watcherVars, appVars, workVars, fileVars, counters
<1>10. CASE ExitHandled
  BY <1>0, <1>10 DEF ExitHandled, Gone, Values, Files, Choices, Alive, watcherVars, appVars, workVars, fileVars, counters
<1>11. CASE Shutdown
  BY <1>0, <1>11 DEF Shutdown, Signalled, Gone, Free, Values, Files, Choices, Alive, watcherVars, appVars, workVars, fileVars, counters
<1>12. CASE ShutdownTimesOut \/ ShutdownEnds
  BY <1>0, <1>12 DEF ShutdownTimesOut, ShutdownEnds, Gone, Values, Files, Choices, Alive, watcherVars, appVars, workVars, fileVars, counters
<1>13. CASE Boot
  BY <1>0, <1>13 DEF Boot, Values, Files, Choices, Alive, watcherVars, appVars, workVars, fileVars, counters
<1>14. CASE Recover \/ ClaimWork \/ FinishWork \/ WorkerExits
  BY <1>0, <1>14 DEF Recover, ClaimWork, FinishWork, WorkerExits, Values, Files, Choices, Alive, watcherVars, appVars, workVars, fileVars, counters
<1>15. CASE Server
  BY <1>0, <1>15 DEF Server, DecideRead, DecideWrite, ServerDies, Values, Files, Choices, Alive, watcherVars, appVars, workVars, fileVars, counters
<1>16. CASE WorkerDies \/ PowerLoss
  BY <1>0, <1>16 DEF WorkerDies, PowerLoss, Gone, Values, Files, Choices, Alive, watcherVars, appVars, workVars, fileVars, counters
<1>17. CASE UNCHANGED vars
  BY <1>0, <1>17 DEF vars, Values, Files, Choices, Alive, watcherVars, appVars, workVars, fileVars, counters
<1> QED BY <1>1, <1>2, <1>3, <1>4, <1>5, <1>6, <1>7, <1>8, <1>9, <1>10, <1>11, <1>12, <1>13, <1>14, <1>15, <1>16, <1>17 DEF Next, Watcher, Worker

\* What the watcher has read, where it is and what the worker does fit
\* together after every step.
LEMMA RestStep == IInv /\ [Next]_vars => (OneWorker /\ HeldRestartIsShown /\ Stopping /\ Resting /\ Reading)'
<1> SUFFICES ASSUME IInv, [Next]_vars
             PROVE  (OneWorker /\ HeldRestartIsShown /\ Stopping /\ Resting /\ Reading)'
  OBVIOUS
<1>0. TypeOK /\ OneWorker /\ HeldRestartIsShown /\ Stopping /\ Resting /\ Reading
  BY DEF IInv
<1>1. CASE Change
  BY <1>0, <1>1 DEF Change, OneWorker, HeldRestartIsShown, Stopping, Resting, Reading, TypeOK, Choices, Alive, NoTask, watcherVars, appVars, workVars, fileVars, counters
<1>2. CASE Debounced
  BY <1>0, <1>2 DEF Debounced, ChangeNoted, ChangeHeld, ChangeRebuilds, ActiveWork, Free, OneWorker, HeldRestartIsShown, Stopping, Resting, Reading, TypeOK, Choices, Alive, NoTask, watcherVars, appVars, workVars, fileVars, counters
<1>3. CASE ReadPending
  BY <1>0, <1>3 DEF ReadPending, OneWorker, HeldRestartIsShown, Stopping, Resting, Reading, TypeOK, Choices, Alive, NoTask, watcherVars, appVars, workVars, fileVars, counters
<1>4. CASE WritePending
  BY <1>0, <1>4 DEF WritePending, RecordChange, OneWorker, HeldRestartIsShown, Stopping, Resting, Reading, TypeOK, Choices, Alive, NoTask, watcherVars, appVars, workVars, fileVars, counters
<1>5. CASE CheckHeldRestart \/ KeepHolding
  <2>1. /\ task' = [NoTask EXCEPT !.at = "check", !.copy = file] \/ task' = NoTask
        /\ shut' = shut /\ (shut = "no" \/ task.at = "check")
        /\ UNCHANGED <<holding, rb, app, two, work, heldWork, file>>
    BY <1>5 DEF CheckHeldRestart, KeepHolding, Free, watcherVars, appVars, workVars, fileVars
  <2>2. task'.at \notin {"go", "read", "write"} /\ shut \notin {"down", "off"}
    <3>1. NoTask.at = "none" /\ [NoTask EXCEPT !.at = "check", !.copy = file].at = "check"
      BY DEF NoTask
    <3>2. shut \notin {"down", "off"}
      BY <1>0, <2>1, <3>1 DEF Resting
    <3> QED BY <2>1, <3>1, <3>2
  <2> QED BY <1>0, <2>1, <2>2 DEF OneWorker, HeldRestartIsShown, Stopping, Resting, Reading
<1>6. CASE ReleaseHeldRestart
  BY <1>0, <1>6 DEF ReleaseHeldRestart, ActiveWork, ShouldRestart, OneWorker, HeldRestartIsShown, Stopping, Resting, Reading, TypeOK, Choices, Alive, NoTask, watcherVars, appVars, workVars, fileVars, counters
<1>7. CASE Rebuild
  BY <1>0, <1>7 DEF Rebuild, QueueRebuild, BeginRebuild, Signalled, OneWorker, HeldRestartIsShown, Stopping, Resting, Reading, TypeOK, Choices, Alive, NoTask, watcherVars, appVars, workVars, fileVars, counters
<1>8. CASE StopTimesOut \/ StopReturns
  BY <1>0, <1>8 DEF StopTimesOut, StopReturns, Free, OneWorker, HeldRestartIsShown, Stopping, Resting, Reading, TypeOK, Choices, Alive, NoTask, watcherVars, appVars, workVars, fileVars, counters
<1>9. CASE BuildEnds
  BY <1>0, <1>9 DEF BuildEnds, BeginRebuild, Signalled, Free, OneWorker, HeldRestartIsShown, Stopping, Resting, Reading, TypeOK, Choices, Alive, NoTask, watcherVars, appVars, workVars, fileVars, counters
<1>10. CASE ExitHandled
  BY <1>0, <1>10 DEF ExitHandled, Gone, OneWorker, HeldRestartIsShown, Stopping, Resting, Reading, TypeOK, Choices, Alive, NoTask, watcherVars, appVars, workVars, fileVars, counters
<1>11. CASE Shutdown
  BY <1>0, <1>11 DEF Shutdown, Signalled, Gone, Free, OneWorker, HeldRestartIsShown, Stopping, Resting, Reading, TypeOK, Choices, Alive, NoTask, watcherVars, appVars, workVars, fileVars, counters
<1>12. CASE ShutdownTimesOut \/ ShutdownEnds
  BY <1>0, <1>12 DEF ShutdownTimesOut, ShutdownEnds, Gone, OneWorker, HeldRestartIsShown, Stopping, Resting, Reading, TypeOK, Choices, Alive, NoTask, watcherVars, appVars, workVars, fileVars, counters
<1>13. CASE Boot
  BY <1>0, <1>13 DEF Boot, OneWorker, HeldRestartIsShown, Stopping, Resting, Reading, TypeOK, Choices, Alive, NoTask, watcherVars, appVars, workVars, fileVars, counters
<1>14. CASE Recover \/ ClaimWork \/ FinishWork \/ WorkerExits
  BY <1>0, <1>14 DEF Recover, ClaimWork, FinishWork, WorkerExits, OneWorker, HeldRestartIsShown, Stopping, Resting, Reading, TypeOK, Choices, Alive, NoTask, watcherVars, appVars, workVars, fileVars, counters
<1>15. CASE Server
  BY <1>0, <1>15 DEF Server, DecideRead, DecideWrite, ServerDies, OneWorker, HeldRestartIsShown, Stopping, Resting, Reading, TypeOK, Choices, Alive, NoTask, watcherVars, appVars, workVars, fileVars, counters
<1>16. CASE WorkerDies \/ PowerLoss
  BY <1>0, <1>16 DEF WorkerDies, PowerLoss, Gone, OneWorker, HeldRestartIsShown, Stopping, Resting, Reading, TypeOK, Choices, Alive, NoTask, watcherVars, appVars, workVars, fileVars, counters
<1>17. CASE UNCHANGED vars
  BY <1>0, <1>17 DEF vars, OneWorker, HeldRestartIsShown, Stopping, Resting, Reading, TypeOK, Choices, Alive, NoTask, watcherVars, appVars, workVars, fileVars, counters
<1> QED BY <1>1, <1>2, <1>3, <1>4, <1>5, <1>6, <1>7, <1>8, <1>9, <1>10, <1>11, <1>12, <1>13, <1>14, <1>15, <1>16, <1>17 DEF Next, Watcher, Worker

-----------------------------------------------------------------------------
(* The theorems                                                            *)

\* IInv is an invariant for any versions, work, faults and decisions.
THEOREM Invariance == Spec => []IInv
<1>1. IInv /\ [Next]_vars => IInv'
  BY TypeStep, RestStep DEF IInv
<1> QED BY InitHolds, <1>1, PTL DEF Spec

\* The watcher's variables and the shared file are always well typed
\* (dev-watch.mjs, worker-restart.mjs).
THEOREM TypeCorrect == Spec => []TypeOK
BY Invariance, PTL DEF IInv

\* rebuild() never starts a worker beside a live one, whatever ignores its
\* signals or dies (dev-watch.mjs:104-178).
THEOREM NeverTwoWorkers == Spec => []OneWorker
BY Invariance, PTL DEF IInv

\* A held restart is always in the file the dashboard reads
\* (worker-restart.mjs:41-64).
THEOREM HeldIsShown == Spec => []HeldRestartIsShown
BY Invariance, PTL DEF IInv

\* Work a restart was held for is cut by the watcher only on the decision
\* "now", or if the database cannot be read (dev-watch.mjs:56-90).
THEOREM HeldWorkIsKept == Spec => HeldWorkIsNotCut
<1> DEFINE Kept == (app = "up" /\ app' = "dying" /\ shut' = "no" /\ work /\ heldWork)
                     => (task.copy = "now" \/ task.saw = "unreadable")
<1>1. IInv /\ [Next]_vars => [Kept]_vars
  <2> SUFFICES ASSUME IInv, Next, app = "up", app' = "dying", shut' = "no", work, heldWork
               PROVE  task.copy = "now" \/ task.saw = "unreadable"
    OBVIOUS
  <2>1. CASE Rebuild
    BY <2>1 DEF Rebuild, IInv, Reading
  <2>2. CASE ~Rebuild
    <3>1. rb = "build" => app = "none"
      BY DEF IInv, Stopping
    <3> QED
      BY <2>2, <3>1
         DEF Next, Watcher, Worker, Server, watcherVars, appVars, Change, Debounced, ReadPending,
             WritePending, CheckHeldRestart, KeepHolding, ReleaseHeldRestart, StopTimesOut, StopReturns,
             BuildEnds, ExitHandled, Shutdown, ShutdownTimesOut, ShutdownEnds, Boot, Recover, ClaimWork,
             FinishWork, WorkerExits, DecideRead, DecideWrite, ServerDies, WorkerDies, PowerLoss, Gone
  <2> QED BY <2>1, <2>2
<1> QED BY Invariance, <1>1, PTL DEF Spec, HeldWorkIsNotCut
=============================================================================
