---------------------------- MODULE TasksProofs ----------------------------
(***************************************************************************)
(* Proofs about Tasks, for any set of threads and any configuration.        *)
(***************************************************************************)
EXTENDS TasksRounds, TLAPS

(* Every step keeps every variable within its type, whichever thread makes   *)
(* it: in particular STATUS never holds a value outside the declared enum.   *)
THEOREM TypeCorrect == Spec => []TypeOK
<1>1. Init => TypeOK
  BY DEF Init, TypeOK, Status, MainPcs, ThreadPcs, Threads
<1>2. TypeOK /\ [Next]_vars => TypeOK'
  <2> SUFFICES ASSUME TypeOK, [Next]_vars PROVE TypeOK'
    OBVIOUS
  <2> USE DEF TypeOK, Status, MainPcs, MainGoto, mainVars, statsVars,
              loopVars, dataVars
  <2>1. CASE UNCHANGED vars
    BY <2>1 DEF vars
  <2>2. ASSUME NEW t \in Threads, Spawn(t) PROVE TypeOK'
    BY <2>2 DEF Spawn, Goto, Threads, ThreadPcs
  <2>3. CASE Main
    <3>1. CASE SetStarting
      BY <3>1 DEF SetStarting
    <3>2. CASE SetSyncing
      BY <3>2 DEF SetSyncing
    <3>3. CASE CheckNoInputs
      BY <3>3 DEF CheckNoInputs
    <3>4. CASE SetPreparing
      BY <3>4 DEF SetPreparing
    <3>5. CASE SetActiveIfIdle
      BY <3>5 DEF SetActiveIfIdle
    <3>6. CASE LeaveLoop
      BY <3>6 DEF LeaveLoop
    <3>7. CASE ChooseStop
      BY <3>7 DEF ChooseStop
    <3>8. CASE SetStopping
      BY <3>8 DEF SetStopping
    <3>9. CASE Join
      BY <3>9 DEF Join
    <3>10. CASE ShutdownFn
      BY <3>10 DEF ShutdownFn, ContextWritten
    <3>11. CASE SetStopSyncing
      BY <3>11 DEF SetStopSyncing
    <3>12. CASE StopDatasync
      BY <3>12 DEF StopDatasync
    <3>13. CASE WaitStopped
      BY <3>13 DEF WaitStopped
    <3>14. CASE SetStopped
      BY <3>14 DEF SetStopped
    <3>15. CASE Exit
      BY <3>15 DEF Exit
    <3> QED
      BY <2>3, <3>1, <3>2, <3>3, <3>4, <3>5, <3>6, <3>7, <3>8, <3>9, <3>10,
         <3>11, <3>12, <3>13, <3>14, <3>15 DEF Main
  <2>4. CASE Sigterm
    BY <2>4 DEF Sigterm
  <2>5. CASE ForceStop
    BY <2>5 DEF ForceStop
  <2>6. ASSUME NEW t \in Threads, Control(t) PROVE TypeOK'
    <3> USE DEF Goto, LoopStart, ThreadPcs, Marking
    <3>1. CASE WaitCanRun(t)
      BY <3>1 DEF WaitCanRun
    <3>2. CASE CheckNeedStop(t)
      BY <3>2 DEF CheckNeedStop
    <3>3. CASE Tick(t)
      BY <3>3 DEF Tick
    <3>4. CASE MarkInputReady(t)
      BY <3>4 DEF MarkInputReady
    <3>5. CASE MarkProgramReady(t)
      BY <3>5 DEF MarkProgramReady
    <3>6. CASE MarkSetPreparing(t)
      BY <3>6 DEF MarkSetPreparing
    <3>7. CASE MarkSetActive(t)
      BY <3>7 DEF MarkSetActive
    <3>8. CASE ProgramGate(t)
      BY <3>8 DEF ProgramGate
    <3>9. CASE OutputGate(t)
      BY <3>9 DEF OutputGate, OutputLastSync
    <3>10. CASE OutputSnapshot(t)
      BY <3>10 DEF OutputSnapshot
    <3>11. CASE MarkOutputStopped(t)
      <4>1. /\ status' \in Status
            /\ outStopped' \subseteq OutputThreads
            /\ outputsStopped' \in BOOLEAN
        BY <3>11 DEF MarkOutputStopped
      <4> QED
        BY <3>11, <4>1 DEF MarkOutputStopped
    <3> QED
      BY <2>6, <3>1, <3>2, <3>3, <3>4, <3>5, <3>6, <3>7, <3>8, <3>9, <3>10,
         <3>11 DEF Control
  <2>7. ASSUME NEW t \in Threads, Body(t) PROVE TypeOK'
    <3> USE DEF Goto, ThreadPcs
    <3>1. CASE Run(t)
      <4>1. /\ snapCurrent' \in [OutputThreads -> BOOLEAN]
            /\ devCurrent' \in [OutputThreads -> BOOLEAN]
            /\ sendFailed' \in [OutputThreads -> BOOLEAN]
        <5>1. CASE ContextWritten
          BY <5>1 DEF ContextWritten
        <5>2. CASE UNCHANGED dataVars
          BY <5>2
        <5> QED
          BY <3>1, <5>1, <5>2 DEF Run
      <4> QED
        BY <3>1, <4>1 DEF Run
    <3>2. CASE OutputSend(t)
      <4>1. /\ snapCurrent' \in [OutputThreads -> BOOLEAN]
            /\ devCurrent' \in [OutputThreads -> BOOLEAN]
            /\ sendFailed' \in [OutputThreads -> BOOLEAN]
        BY <3>2 DEF OutputSend
      <4> QED
        BY <3>2, <4>1 DEF OutputSend
    <3> QED
      BY <2>7, <3>1, <3>2 DEF Body
  <2>8. ASSUME NEW t \in Threads, SpawnService(t) PROVE TypeOK'
    BY <2>8 DEF SpawnService, Goto, ThreadPcs
  <2>9. CASE ServiceWrite
    BY <2>9 DEF ServiceWrite, ContextWritten
  <2>10. CASE Terminated
    BY <2>10 DEF Terminated, vars
  <2>11. CASE OnShutdown
    BY <2>11 DEF OnShutdown
  <2> QED
    BY <2>1, <2>2, <2>3, <2>4, <2>5, <2>6, <2>7, <2>8, <2>9, <2>10, <2>11 DEF Next
<1> QED
  BY <1>1, <1>2, PTL DEF Spec

-----------------------------------------------------------------------------
(* The inductive invariant.  One lemma for each group of actions, one step   *)
(* for each action, and under it one for each part the action can disturb.   *)

(* The steps of the main thread: run(), shutdown() and what they call. *)
LEMMA MainKeepsInv ==
  ASSUME TypeOK, Inv, Main
  PROVE  Inv'
<1> USE DEF Inv, Threads, Inputs, Programs, Outputs, MainGoto, Goto,
            mainVars, statsVars, loopVars, dataVars, QuietFinalSync
<1>1. CASE SetStarting
  <2> USE <1>1 DEF SetStarting
  <2>1. StatusInv'
    BY DEF StatusInv, Status, Inactive, Starting, Syncing, Preparing, Active,
       Stopping, StopSyncing, Stopped
  <2>2. MarkInv'
    BY DEF MarkInv, StatusInv, Status, Inactive, Starting, Syncing, Preparing,
       Active, Stopping, StopSyncing, Stopped
  <2>3. PcInv' /\ QuitInv' /\ OutputInv'
    BY DEF PcInv, QuitInv, OutputInv, BeforeSyncing, AfterJoin, FinalSync
  <2>4. ReadyInv'
    BY DEF ReadyInv, Shutdown, Status, Inactive, Starting, Syncing, Preparing,
       Active, Stopping, StopSyncing, Stopped
  <2> QED
    BY <2>1, <2>2, <2>3, <2>4
<1>2. CASE SetSyncing
  <2> USE <1>2 DEF SetSyncing
  <2>1. StatusInv'
    BY DEF StatusInv, Status, Inactive, Starting, Syncing, Preparing, Active,
       Stopping, StopSyncing, Stopped
  <2>2. MarkInv'
    BY DEF MarkInv, StatusInv, Status, Inactive, Starting, Syncing, Preparing,
       Active, Stopping, StopSyncing, Stopped
  <2>3. PcInv' /\ QuitInv' /\ OutputInv'
    BY DEF PcInv, QuitInv, OutputInv, BeforeSyncing, AfterJoin, FinalSync
  <2>4. ReadyInv'
    BY DEF ReadyInv, Shutdown, Status, Inactive, Starting, Syncing, Preparing,
       Active, Stopping, StopSyncing, Stopped
  <2> QED
    BY <2>1, <2>2, <2>3, <2>4
<1>3. CASE CheckNoInputs
  <2> USE <1>3 DEF CheckNoInputs
  <2>1. StatusInv'
    BY DEF StatusInv
  <2>2. MarkInv'
    BY DEF MarkInv, Marking, StatsLocked
  <2>3. PcInv' /\ ReadyInv' /\ QuitInv' /\ OutputInv'
    BY DEF PcInv, ReadyInv, QuitInv, OutputInv, BeforeSyncing, Shutdown,
       AfterJoin, FinalSync
  <2> QED
    BY <2>1, <2>2, <2>3
<1>4. CASE SetPreparing
  <2> USE <1>4 DEF SetPreparing
  <2>1. StatusInv'
    BY DEF StatusInv
  <2>2. MarkInv'
    BY DEF MarkInv, PcInv, StatusInv, ProgramPcs, OutputPcs
  <2>3. PcInv' /\ QuitInv' /\ OutputInv'
    BY DEF PcInv, QuitInv, OutputInv, BeforeSyncing, AfterJoin, FinalSync
  <2>4. ReadyInv'
    BY DEF ReadyInv, StatusInv, Shutdown, Status, Inactive, Starting, Syncing,
       Preparing, Active, Stopping, StopSyncing, Stopped
  <2> QED
    BY <2>1, <2>2, <2>3, <2>4
<1>5. CASE SetActiveIfIdle
  <2> USE <1>5 DEF SetActiveIfIdle
  <2>1. StatusInv'
    BY DEF StatusInv
  <2>2. MarkInv'
    BY DEF MarkInv, Marking, StatsLocked
  <2>3. PcInv' /\ ReadyInv' /\ QuitInv' /\ OutputInv'
    BY DEF PcInv, ReadyInv, QuitInv, OutputInv, BeforeSyncing, Shutdown,
       AfterJoin, FinalSync
  <2> QED
    BY <2>1, <2>2, <2>3
<1>6. CASE LeaveLoop
  <2> USE <1>6 DEF LeaveLoop
  <2>1. StatusInv'
    BY DEF StatusInv
  <2>2. MarkInv'
    BY DEF MarkInv, Aborted
  <2>3. PcInv' /\ ReadyInv' /\ QuitInv' /\ OutputInv'
    BY DEF PcInv, ReadyInv, QuitInv, OutputInv, BeforeSyncing, Shutdown,
       AfterJoin, FinalSync
  <2> QED
    BY <2>1, <2>2, <2>3
<1>7. CASE ChooseStop
  <2> USE <1>7 DEF ChooseStop
  <2>1. StatusInv'
    BY DEF StatusInv
  <2>2. MarkInv'
    BY DEF MarkInv, Aborted
  <2>3. PcInv' /\ ReadyInv' /\ QuitInv' /\ OutputInv'
    BY DEF PcInv, ReadyInv, QuitInv, OutputInv, BeforeSyncing, Shutdown,
       AfterJoin, FinalSync
  <2> QED
    BY <2>1, <2>2, <2>3
<1>8. CASE SetStopping
  <2> USE <1>8 DEF SetStopping
  <2>1. StatusInv'
    BY DEF StatusInv
  <2>2. MarkInv'
    BY DEF MarkInv, StatusInv, Status, Inactive, Starting, Syncing, Preparing,
       Active, Stopping, StopSyncing, Stopped
  <2>3. PcInv' /\ ReadyInv' /\ QuitInv' /\ OutputInv'
    BY DEF PcInv, ReadyInv, QuitInv, OutputInv, BeforeSyncing, Shutdown,
       AfterJoin, FinalSync
  <2> QED
    BY <2>1, <2>2, <2>3
<1>9. CASE Join
  <2> USE <1>9 DEF Join
  <2>1. StatusInv'
    BY DEF StatusInv
  <2>2. MarkInv'
    BY DEF MarkInv, Aborted
  <2>3. PcInv' /\ ReadyInv' /\ QuitInv' /\ OutputInv'
    BY DEF PcInv, ReadyInv, QuitInv, OutputInv, BeforeSyncing, Shutdown,
       FinalSync
  <2> QED
    BY <2>1, <2>2, <2>3
<1>10. CASE ShutdownFn
  <2> USE <1>10 DEF ShutdownFn
  <2>1. StatusInv'
    BY DEF StatusInv
  <2>2. MarkInv'
    BY DEF MarkInv, Aborted
  <2>3. PcInv' /\ ReadyInv' /\ QuitInv' /\ OutputInv'
    BY DEF PcInv, ReadyInv, QuitInv, OutputInv, BeforeSyncing, Shutdown,
       AfterJoin, FinalSync
  <2> QED
    BY <2>1, <2>2, <2>3
<1>11. CASE SetStopSyncing
  <2> USE <1>11 DEF SetStopSyncing
  <2>1. StatusInv'
    BY DEF StatusInv
  <2>2. MarkInv'
    BY DEF MarkInv, StatusInv, Status, Inactive, Starting, Syncing, Preparing,
       Active, Stopping, StopSyncing, Stopped
  <2>3. PcInv' /\ ReadyInv' /\ QuitInv'
    BY DEF PcInv, ReadyInv, QuitInv, BeforeSyncing, Shutdown, AfterJoin
  <2>4. OutputInv'
    BY DEF OutputInv, FinalSync, Status, Inactive, Starting, Syncing,
       Preparing, Active, Stopping, StopSyncing, Stopped
  <2> QED
    BY <2>1, <2>2, <2>3, <2>4
<1>12. CASE StopDatasync
  <2> USE <1>12 DEF StopDatasync
  <2>1. StatusInv'
    BY DEF StatusInv
  <2>2. MarkInv'
    BY DEF MarkInv, Marking, StatsLocked
  <2>3. PcInv' /\ ReadyInv' /\ QuitInv' /\ OutputInv'
    BY DEF PcInv, ReadyInv, QuitInv, OutputInv, BeforeSyncing, Shutdown,
       AfterJoin, FinalSync
  <2> QED
    BY <2>1, <2>2, <2>3
<1>13. CASE WaitStopped
  <2> USE <1>13 DEF WaitStopped
  <2>1. StatusInv'
    BY DEF StatusInv
  <2>2. MarkInv'
    BY DEF MarkInv, Aborted
  <2>3. PcInv' /\ ReadyInv' /\ QuitInv' /\ OutputInv'
    BY DEF PcInv, ReadyInv, QuitInv, OutputInv, BeforeSyncing, Shutdown,
       AfterJoin, FinalSync
  <2> QED
    BY <2>1, <2>2, <2>3
<1>14. CASE SetStopped
  <2> USE <1>14 DEF SetStopped
  <2>1. StatusInv'
    BY DEF StatusInv
  <2>2. MarkInv'
    BY DEF MarkInv, Aborted
  <2>3. PcInv' /\ QuitInv' /\ OutputInv'
    BY DEF PcInv, QuitInv, OutputInv, BeforeSyncing, AfterJoin, FinalSync
  <2>4. ReadyInv'
    BY DEF ReadyInv, Shutdown, Status, Inactive, Starting, Syncing, Preparing,
       Active, Stopping, StopSyncing, Stopped
  <2> QED
    BY <2>1, <2>2, <2>3, <2>4
<1>15. CASE Exit
  <2> USE <1>15 DEF Exit
  <2>1. StatusInv'
    BY DEF StatusInv
  <2>2. MarkInv'
    BY DEF MarkInv, Aborted
  <2>3. PcInv' /\ ReadyInv' /\ QuitInv' /\ OutputInv'
    BY DEF PcInv, ReadyInv, QuitInv, OutputInv, BeforeSyncing, Shutdown,
       AfterJoin, FinalSync
  <2> QED
    BY <2>1, <2>2, <2>3
<1> QED
  BY <1>1, <1>2, <1>3, <1>4, <1>5, <1>6, <1>7, <1>8, <1>9, <1>10, <1>11,
     <1>12, <1>13, <1>14, <1>15 DEF Main

(* The steps of a thread inside the scheduler. *)
LEMMA ControlKeepsInv ==
  ASSUME TypeOK, Inv, NEW t \in Threads, Alive, Control(t)
  PROVE  Inv'
<1> USE DEF Inv, Threads, Inputs, Programs, Outputs, MainGoto, Goto,
            mainVars, statsVars, loopVars, dataVars, QuietFinalSync
<1>1. CASE WaitCanRun(t)
  <2> USE <1>1 DEF WaitCanRun
  <2>1. PcInv'
    BY DEF PcInv, StatusInv, BeforeSyncing, InputPcs, ProgramPcs, OutputPcs,
       LoopStart, CanRunInputs, CanRunPrograms, CanRunOutputs, Status,
       Inactive, Starting, Syncing, Preparing, Active, Stopping, StopSyncing,
       Stopped
  <2>2. MarkInv'
    BY DEF MarkInv, Marking, LoopStart
  <2>3. ReadyInv'
    BY ThreadsAssumption DEF ReadyInv, TypeOK, CanRunInputs, CanRunPrograms,
       CanRunOutputs, Status, Inactive, Starting, Syncing, Preparing, Active,
       Stopping, StopSyncing, Stopped
  <2>4. OutputInv'
    BY DEF OutputInv, LoopStart
  <2>5. StatusInv' /\ QuitInv'
    BY DEF StatusInv, QuitInv
  <2> QED
    BY <2>1, <2>2, <2>3, <2>4, <2>5
<1>2. CASE CheckNeedStop(t)
  <2> USE <1>2 DEF CheckNeedStop
  <2>1. PcInv'
    BY DEF PcInv, InputPcs, ProgramPcs, OutputPcs
  <2>2. MarkInv'
    BY DEF MarkInv, Marking
  <2>3. OutputInv'
    BY DEF OutputInv, PcInv, OutputPcs
  <2>4. StatusInv' /\ ReadyInv' /\ QuitInv'
    BY DEF StatusInv, ReadyInv, QuitInv
  <2> QED
    BY <2>1, <2>2, <2>3, <2>4
<1>3. CASE Tick(t)
  <2> USE <1>3 DEF Tick
  <2>1. PcInv'
    BY DEF PcInv, InputPcs, ProgramPcs, OutputPcs, LoopStart
  <2>2. MarkInv'
    BY DEF MarkInv, Marking, LoopStart
  <2>3. ReadyInv'
    BY DEF ReadyInv, LoopStart
  <2>4. OutputInv'
    BY DEF OutputInv, LoopStart
  <2>5. StatusInv' /\ QuitInv'
    BY DEF StatusInv, QuitInv
  <2> QED
    BY <2>1, <2>2, <2>3, <2>4, <2>5
<1>4. CASE MarkInputReady(t)
  <2> USE <1>4 DEF MarkInputReady
  <2>1. PcInv'
    BY ThreadsAssumption DEF PcInv, InputPcs, Marking, LoopStart
  <2>2. MarkInv'
    BY DEF MarkInv, TypeOK, PcInv, ReadyInv, StatsLocked, LoopStart,
       CanRunInputs, Status, Inactive, Starting, Syncing, Preparing, Active,
       Stopping, StopSyncing, Stopped
  <2>3. ReadyInv'
    BY DEF ReadyInv, TypeOK, PcInv, LoopStart
  <2>4. OutputInv'
    BY ThreadsAssumption DEF OutputInv
  <2>5. StatusInv' /\ QuitInv'
    BY DEF StatusInv, QuitInv
  <2> QED
    BY <2>1, <2>2, <2>3, <2>4, <2>5
<1>5. CASE MarkProgramReady(t)
  <2> USE <1>5 DEF MarkProgramReady
  <2>1. PcInv'
    BY ThreadsAssumption DEF PcInv, ProgramPcs, LoopStart
  <2>2. MarkInv'
    BY DEF MarkInv, TypeOK, PcInv, ReadyInv, StatsLocked, LoopStart,
       CanRunPrograms, Status, Inactive, Starting, Syncing, Preparing, Active,
       Stopping, StopSyncing, Stopped
  <2>3. ReadyInv'
    BY DEF ReadyInv, TypeOK, PcInv, LoopStart
  <2>4. OutputInv'
    BY ThreadsAssumption DEF OutputInv
  <2>5. StatusInv' /\ QuitInv'
    BY DEF StatusInv, QuitInv
  <2> QED
    BY <2>1, <2>2, <2>3, <2>4, <2>5
<1>6. CASE MarkSetPreparing(t)
  <2> USE <1>6 DEF MarkSetPreparing
  <2>1. PcInv'
    BY DEF PcInv, InputPcs, ProgramPcs, OutputPcs, Marking, LoopStart
  <2>2. StatusInv'
    BY DEF StatusInv, PcInv, MarkInv, Aborted, ProgramPcs, OutputPcs, Status,
       Inactive, Starting, Syncing, Preparing, Active, Stopping, StopSyncing,
       Stopped
  <2>3. MarkInv'
    BY DEF MarkInv, TypeOK, Marking, LoopStart
  <2>4. ReadyInv'
    BY DEF ReadyInv, MarkInv, LoopStart, Status, Inactive, Starting, Syncing,
       Preparing, Active, Stopping, StopSyncing, Stopped
  <2>5. OutputInv'
    BY DEF OutputInv, LoopStart, Status, Inactive, Starting, Syncing,
       Preparing, Active, Stopping, StopSyncing, Stopped
  <2>6. QuitInv'
    BY DEF QuitInv
  <2> QED
    BY <2>1, <2>2, <2>3, <2>4, <2>5, <2>6
<1>7. CASE MarkSetActive(t)
  <2> USE <1>7 DEF MarkSetActive
  <2>1. PcInv'
    BY DEF PcInv, InputPcs, ProgramPcs, OutputPcs, LoopStart
  <2>2. StatusInv'
    BY DEF StatusInv, PcInv, MarkInv, Aborted, OutputPcs, Status, Inactive,
       Starting, Syncing, Preparing, Active, Stopping, StopSyncing, Stopped
  <2>3. MarkInv'
    BY DEF MarkInv, TypeOK, Marking, LoopStart
  <2>4. ReadyInv'
    BY DEF ReadyInv, MarkInv, LoopStart
  <2>5. OutputInv'
    BY DEF OutputInv, LoopStart, Status, Inactive, Starting, Syncing,
       Preparing, Active, Stopping, StopSyncing, Stopped
  <2>6. QuitInv'
    BY DEF QuitInv
  <2> QED
    BY <2>1, <2>2, <2>3, <2>4, <2>5, <2>6
<1>8. CASE ProgramGate(t)
  <2> USE <1>8 DEF ProgramGate
  <2>1. PcInv'
    BY ThreadsAssumption DEF PcInv, ProgramPcs
  <2>2. MarkInv'
    BY DEF MarkInv, Marking
  <2>3. StatusInv' /\ ReadyInv' /\ QuitInv' /\ OutputInv'
    BY DEF StatusInv, ReadyInv, QuitInv, OutputInv
  <2> QED
    BY <2>1, <2>2, <2>3
<1>9. CASE OutputGate(t)
  <2> USE <1>9 DEF OutputGate
  <2>1. PcInv'
    BY ThreadsAssumption DEF PcInv, OutputPcs
  <2>2. MarkInv'
    BY DEF MarkInv, Marking
  <2>3. OutputInv'
    BY DEF OutputInv, TypeOK, StatusInv, FinalSync, MainPcs, OutputLastSync,
       Status, Inactive, Starting, Syncing, Preparing, Active, Stopping,
       StopSyncing, Stopped
  <2>4. StatusInv' /\ ReadyInv' /\ QuitInv'
    BY DEF StatusInv, ReadyInv, QuitInv
  <2> QED
    BY <2>1, <2>2, <2>3, <2>4
<1>10. CASE OutputSnapshot(t)
  <2> USE <1>10 DEF OutputSnapshot
  <2>1. PcInv'
    BY ThreadsAssumption DEF PcInv, OutputPcs
  <2>2. MarkInv'
    BY DEF MarkInv, Marking
  <2>3. OutputInv'
    BY DEF OutputInv, TypeOK
  <2>4. StatusInv' /\ ReadyInv' /\ QuitInv'
    BY DEF StatusInv, ReadyInv, QuitInv
  <2> QED
    BY <2>1, <2>2, <2>3, <2>4
<1>11. CASE MarkOutputStopped(t)
  <2> USE <1>11 DEF MarkOutputStopped
  <2>1. PcInv'
    BY ThreadsAssumption DEF PcInv, OutputPcs
  <2>2. StatusInv'
    BY DEF StatusInv, OutputInv, FinalSync
  <2>3. MarkInv'
    BY DEF MarkInv, Marking, StatsLocked
  <2>4. ReadyInv'
    BY DEF ReadyInv, Status, Inactive, Starting, Syncing, Preparing, Active,
       Stopping, StopSyncing, Stopped
  <2>5. OutputInv'
    BY DEF OutputInv, TypeOK, PcInv
  <2>6. QuitInv'
    BY DEF QuitInv
  <2> QED
    BY <2>1, <2>2, <2>3, <2>4, <2>5, <2>6
<1> QED
  BY <1>1, <1>2, <1>3, <1>4, <1>5, <1>6, <1>7, <1>8, <1>9, <1>10, <1>11 DEF
     Control

(* The steps of a thread inside a body. *)
LEMMA BodyKeepsInv ==
  ASSUME TypeOK, Inv, NEW t \in Threads, Alive, Body(t) \/ SpawnService(t)
  PROVE  Inv'
<1> USE DEF Inv, Threads, Inputs, Programs, Outputs, MainGoto, Goto,
            mainVars, statsVars, loopVars, dataVars, QuietFinalSync
<1>1. CASE Run(t)
  <2> USE <1>1 DEF Run
  <2>1. PcInv'
    BY DEF PcInv, InputPcs, ProgramPcs
  <2>2. MarkInv'
    BY DEF MarkInv, Marking
  <2>3. OutputInv'
    BY DEF OutputInv, PcInv, QuitInv, AfterJoin, FinalSync, QuietFinalSync,
       Alive, Ended
  <2>4. StatusInv' /\ ReadyInv' /\ QuitInv'
    BY DEF StatusInv, ReadyInv, QuitInv
  <2> QED
    BY <2>1, <2>2, <2>3, <2>4
<1>2. CASE OutputSend(t)
  <2> USE <1>2 DEF OutputSend
  <2>1. PcInv'
    BY ThreadsAssumption DEF PcInv, OutputPcs
  <2>2. MarkInv'
    BY DEF MarkInv, Marking
  <2>3. OutputInv'
    BY DEF OutputInv, TypeOK
  <2>4. StatusInv' /\ ReadyInv' /\ QuitInv'
    BY DEF StatusInv, ReadyInv, QuitInv
  <2> QED
    BY <2>1, <2>2, <2>3, <2>4
<1>3. CASE SpawnService(t)
  <2> USE <1>3 DEF SpawnService
  <2>1. PcInv'
    BY ThreadsAssumption DEF PcInv, TypeOK, ProgramPcs
  <2>2. MarkInv'
    BY DEF MarkInv, TypeOK, Marking
  <2>3. ReadyInv'
    BY DEF ReadyInv, TypeOK
  <2>4. QuitInv'
    BY ThreadsAssumption DEF QuitInv, PcInv
  <2>5. OutputInv'
    BY ThreadsAssumption DEF OutputInv, TypeOK
  <2>6. StatusInv'
    BY DEF StatusInv
  <2> QED
    BY <2>1, <2>2, <2>3, <2>4, <2>5, <2>6
<1> QED
  BY <1>1, <1>2, <1>3 DEF Body

(* The registration of a thread. *)
LEMMA SpawnKeepsInv ==
  ASSUME TypeOK, Inv, NEW t \in Threads, Spawn(t)
  PROVE  Inv'
<1> USE DEF Inv, Threads, Inputs, Programs, Outputs, MainGoto, Goto,
            mainVars, statsVars, loopVars, dataVars, QuietFinalSync
<1>1. CASE Spawn(t)
  <2> USE <1>1 DEF Spawn
  <2>1. PcInv'
    BY DEF PcInv, TypeOK, InputPcs, ProgramPcs, OutputPcs
  <2>2. MarkInv'
    BY DEF MarkInv, Marking, CanSpawn, Status, Inactive, Starting, Syncing,
       Preparing, Active, Stopping, StopSyncing, Stopped
  <2>3. ReadyInv'
    <3>1. /\ status = Inactive \/ status = Starting
          /\ mainPc \notin Shutdown
      BY DEF CanSpawn, Shutdown
    <3>2. \A p \in Programs' : tpc'[p] = "wait"
      BY ThreadsAssumption DEF PcInv, TypeOK, BeforeSyncing
    <3>3. /\ inputsReady' => Inputs' \subseteq ready
          /\ programsReady' => Programs' \subseteq ready
      <4>1. CASE t \in InputThreads
        BY <4>1, ThreadsAssumption DEF ReadyInv
      <4>2. CASE t \in ProgramThreads
        BY <4>2, ThreadsAssumption DEF ReadyInv
      <4>3. CASE t \in OutputThreads
        BY <4>3, ThreadsAssumption DEF ReadyInv
      <4> QED
        BY <4>1, <4>2, <4>3
    <3>4. ready \subseteq registered' /\ \A u \in ready : tpc'[u] # "wait"
      BY DEF ReadyInv, TypeOK
    <3> QED
      BY <3>1, <3>2, <3>3, <3>4
         DEF ReadyInv, Inactive, Starting, Preparing, Active
  <2>4. QuitInv'
    BY DEF QuitInv, AfterJoin
  <2>5. OutputInv'
    BY DEF OutputInv, TypeOK, FinalSync
  <2>6. StatusInv'
    BY DEF StatusInv
  <2> QED
    BY <2>1, <2>2, <2>3, <2>4, <2>5, <2>6
<1> QED
  BY <1>1

(* The signal, the force-stop timer, and the writes of services. *)
LEMMA OthersKeepInv ==
  ASSUME TypeOK, Inv, Sigterm \/ ForceStop \/ ServiceWrite \/ OnShutdown
  PROVE  Inv'
<1> USE DEF Inv, Threads, Inputs, Programs, Outputs, MainGoto, Goto,
            mainVars, statsVars, loopVars, dataVars, QuietFinalSync
<1>1. CASE Sigterm
  <2> USE <1>1 DEF Sigterm
  <2>1. PcInv' /\ StatusInv' /\ MarkInv' /\ ReadyInv' /\ QuitInv' /\ OutputInv'
    BY DEF PcInv, StatusInv, MarkInv, ReadyInv, QuitInv, OutputInv
  <2> QED
    BY <2>1
<1>2. CASE ForceStop
  <2> USE <1>2 DEF ForceStop
  <2>1. PcInv'
    BY DEF PcInv, BeforeSyncing
  <2>2. ReadyInv'
    BY DEF ReadyInv, Shutdown
  <2>3. QuitInv'
    BY DEF QuitInv, AfterJoin
  <2>4. OutputInv'
    BY DEF OutputInv, FinalSync
  <2>5. StatusInv' /\ MarkInv'
    BY DEF StatusInv, MarkInv
  <2> QED
    BY <2>1, <2>2, <2>3, <2>4, <2>5
<1>3. CASE ServiceWrite
  <2> USE <1>3 DEF ServiceWrite
  <2>1. OutputInv'
    BY DEF OutputInv, QuietFinalSync
  <2>2. PcInv' /\ StatusInv' /\ MarkInv' /\ ReadyInv' /\ QuitInv'
    BY DEF PcInv, StatusInv, MarkInv, ReadyInv, QuitInv
  <2> QED
    BY <2>1, <2>2
<1>4. CASE OnShutdown
  <2> USE <1>4 DEF OnShutdown
  <2>1. QuitInv' /\ OutputInv'
    BY DEF QuitInv, OutputInv, AfterJoin, FinalSync
  <2>2. PcInv' /\ StatusInv' /\ MarkInv' /\ ReadyInv'
    BY DEF PcInv, StatusInv, MarkInv, ReadyInv
  <2> QED
    BY <2>1, <2>2
<1> QED
  BY <1>1, <1>2, <1>3, <1>4

LEMMA InvInitial == Init => Inv
BY DEF Init, Inv, PcInv, StatusInv, MarkInv, ReadyInv, QuitInv, OutputInv,
       InputPcs, ProgramPcs, OutputPcs, Marking, Threads, Inputs, Programs,
       Outputs, BeforeSyncing, Shutdown, AfterJoin, FinalSync, Aborted,
       Status, Inactive, Starting, Syncing, Preparing, Active, Stopping,
       StopSyncing, Stopped

LEMMA InvInductive == TypeOK /\ Inv /\ [Next]_vars => Inv'
<1> SUFFICES ASSUME TypeOK, Inv, [Next]_vars PROVE Inv'
  OBVIOUS
<1>1. CASE UNCHANGED vars
  BY <1>1 DEF vars, mainVars, statsVars, loopVars, dataVars, Inv, PcInv,
     StatusInv, MarkInv, ReadyInv, QuitInv, OutputInv, QuietFinalSync, Inputs,
     Programs, Outputs
<1>2. CASE Next
  BY <1>1, <1>2, MainKeepsInv, ControlKeepsInv, BodyKeepsInv, SpawnKeepsInv,
     OthersKeepInv DEF Next, Terminated
<1> QED
  BY <1>1, <1>2

(* The invariant holds in every reachable state, for any threads. *)
THEOREM Invariance == Spec => []IndInv
<1>1. Spec => []TypeOK
  BY TypeCorrect
<1> QED
  BY <1>1, InvInitial, InvInductive, PTL DEF Spec, IndInv

-----------------------------------------------------------------------------
(* The promises that follow from the invariant.                             *)

(* No program body runs before every input has made its first round, for any *)
(* number of inputs and programs and on any path, aborted ones included.     *)
THEOREM ProgramsWaitForInputs == Spec => []ProgramsAfterInputs
<1>1. Inv => ProgramsAfterInputs
  BY DEF Inv, ReadyInv, ProgramsAfterInputs
<1> QED
  BY <1>1, Invariance, PTL DEF IndInv

(* Active means that every input and every program has made a round. *)
THEOREM ActiveMeansReady == Spec => []ActiveAllReady
<1>1. Inv => ActiveAllReady
  BY DEF Inv, ReadyInv, ActiveAllReady, Preparing, Active
<1> QED
  BY <1>1, Invariance, PTL DEF IndInv

(* A controller that was Active and is Stopped has sent the last context to  *)
(* every device, but for the sends that failed.                              *)
THEOREM LastContextIsSent == Spec => []FinalSyncReachesDevices
<1>1. TypeOK /\ Inv => FinalSyncReachesDevices
  <2> SUFFICES ASSUME TypeOK, Inv, QuietFinalSync, mainPc \in FinalSync,
                      status = Stopped, NEW o \in Outputs
               PROVE  devCurrent[o] \/ sendFailed[o]
    BY DEF FinalSyncReachesDevices
  <2>1. o \in OutputThreads /\ o \in outStopped
    BY DEF Inv, OutputInv, QuietFinalSync, Outputs
  <2>2. tpc[o] = "finished" /\ lastSync[o]
    BY <2>1 DEF Inv, OutputInv
  <2> QED
    BY <2>1, <2>2 DEF Inv, OutputInv
<1> QED
  BY <1>1, Invariance, PTL DEF IndInv

(* The thread shutdown() waits for has always left Loop::prepare. *)
THEOREM JoinsNoWaiter == Spec => []JoinNeverMeetsAGate
<1>1. Inv => JoinNeverMeetsAGate
  BY DEF Inv, ReadyInv, JoinNeverMeetsAGate, Shutdown
<1> QED
  BY <1>1, Invariance, PTL DEF IndInv

-----------------------------------------------------------------------------
(* The rounds that end while the controller shuts down.                     *)

(* The history restricts nothing. *)
LEMMA RoundsImplementTasks == RoundsSpec => Spec
<1>1. RoundsInit => Init
  BY DEF RoundsInit
<1>2. [RoundsNext]_roundsVars => [Next]_vars
  BY DEF RoundsNext, roundsVars
<1> QED
  BY <1>1, <1>2, PTL DEF RoundsSpec, Spec

(* While the main thread is after Stopping, every loop that looks must stop. *)
LEMMA StoppingIsSeen ==
  ASSUME StatusInv, mainPc \in AfterStopping
  PROVE  NeedStop(status)
BY DEF StatusInv, AfterStopping, AfterJoin, NeedStop, Stopping, StopSyncing, Stopped

(* The main thread does not leave the shutdown, but for the force-stop timer. *)
LEMMA ShutdownGoesOn ==
  ASSUME Next, mainPc \in AfterStopping \cup {"killed"}
  PROVE  mainPc' \in AfterStopping \cup {"killed"}
<1> USE DEF AfterStopping, AfterJoin, MainGoto, mainVars
<1>1. ASSUME NEW t \in Threads, Spawn(t) PROVE FALSE
  BY <1>1 DEF Spawn
<1>2. CASE Main
  BY <1>2 DEF Main, SetStarting, SetSyncing, CheckNoInputs, SetPreparing,
     SetActiveIfIdle, LeaveLoop, ChooseStop, SetStopping, Join, ShutdownFn,
     SetStopSyncing, StopDatasync, WaitStopped, SetStopped, Exit
<1>3. CASE OnShutdown \/ Sigterm \/ ForceStop \/ ServiceWrite \/ Terminated
  BY <1>3 DEF OnShutdown, Sigterm, ForceStop, ServiceWrite, Terminated, vars
<1>4. ASSUME NEW t \in Threads, Control(t) \/ Body(t) \/ SpawnService(t)
      PROVE  mainPc' = mainPc
  BY <1>4 DEF Control, WaitCanRun, CheckNeedStop, Tick, MarkInputReady, MarkProgramReady,
     MarkSetPreparing, MarkSetActive, ProgramGate, OutputGate, OutputSnapshot,
     MarkOutputStopped, Body, Run, OutputSend, SpawnService
<1> QED
  BY <1>1, <1>2, <1>3, <1>4 DEF Next

(* A loop that looks during the shutdown ends, and one that has ended stays so. *)
LEMMA CheckedLoopEnds ==
  ASSUME TypeOK, Inv, Next, NEW t \in InputThreads \cup ProgramThreads,
         mainPc \in AfterStopping \cup {"killed"}, tpc[t] \in {"check", "finished"}
  PROVE  tpc'[t] \in {"check", "finished"}
<1>1. tpc \in [Threads -> ThreadPcs] /\ t \in Threads
  BY DEF TypeOK, Threads
<1>2. ASSUME NEW u \in Threads, Spawn(u) PROVE FALSE
  BY <1>2 DEF Spawn, AfterStopping, AfterJoin
<1>3. CASE OnShutdown \/ Main \/ Sigterm \/ ForceStop \/ ServiceWrite \/ Terminated
  <2>1. UNCHANGED tpc
    BY <1>3 DEF OnShutdown, Sigterm, ForceStop, ServiceWrite, Terminated, vars, loopVars,
       Main, SetStarting, SetSyncing, CheckNoInputs, SetPreparing, SetActiveIfIdle,
       LeaveLoop, ChooseStop, SetStopping, Join, ShutdownFn, SetStopSyncing,
       StopDatasync, WaitStopped, SetStopped, Exit
  <2> QED
    BY <2>1
<1>4. ASSUME Alive, NEW u \in Threads, Control(u) \/ Body(u) \/ SpawnService(u)
      PROVE  tpc'[t] \in {"check", "finished"}
  <2>1. CASE u # t
    <3>1. tpc'[t] = tpc[t]
      BY <1>1, <1>4, <2>1 DEF Goto, Control, WaitCanRun, CheckNeedStop, Tick, MarkInputReady,
         MarkProgramReady, MarkSetPreparing, MarkSetActive, ProgramGate, OutputGate,
         OutputSnapshot, MarkOutputStopped, Body, Run, OutputSend, SpawnService
    <3> QED
      BY <3>1
  <2>2. CASE u = t
    <3>1. mainPc \in AfterStopping
      BY <1>4 DEF Alive, Ended
    <3>2. CheckNeedStop(t)
      BY <1>4, <2>2 DEF Control, WaitCanRun, Tick, MarkInputReady, MarkProgramReady,
         MarkSetPreparing, MarkSetActive, ProgramGate, OutputGate, OutputSnapshot,
         MarkOutputStopped, Body, Run, OutputSend, SpawnService
    <3>3. NeedStop(status)
      BY <3>1, StoppingIsSeen DEF Inv
    <3> QED
      BY <1>1, <3>2, <3>3 DEF CheckNeedStop, Goto
  <2> QED
    BY <2>1, <2>2
<1> QED
  BY <1>2, <1>3, <1>4 DEF Next

(* RoundsInv is inductive, given what IndInv says of the status. *)
LEMMA RoundsInductive ==
  ASSUME TypeOK, Inv, RoundsInv, [RoundsNext]_roundsVars
  PROVE  RoundsInv'
<1> DEFINE Loops == InputThreads \cup ProgramThreads
<1>1. CASE UNCHANGED roundsVars
  BY <1>1 DEF roundsVars, vars, mainVars, loopVars, RoundsInv
<1>2. CASE RoundsNext
  <2>1. Next
    BY <1>2 DEF RoundsNext
  <2>2. ASSUME NEW t \in Loops
        PROVE  /\ lateRounds'[t] \in 0 .. 1
               /\ lateRounds'[t] # 0 =>
                    /\ mainPc' \in AfterStopping \cup {"killed"}
                    /\ tpc'[t] \in {"check", "finished"}
    <3>1. /\ lateRounds[t] \in 0 .. 1
          /\ lateRounds[t] # 0 =>
               /\ mainPc \in AfterStopping \cup {"killed"}
               /\ tpc[t] \in {"check", "finished"}
      BY DEF RoundsInv
    <3>2. CASE mainPc \in AfterStopping /\ EndsRound(t)
      <4>1. lateRounds[t] = 0 /\ tpc'[t] = "check"
        BY <3>1, <3>2 DEF EndsRound
      <4>2. lateRounds'[t] = 1
        BY <1>2, <3>2, <4>1 DEF RoundsNext
      <4> QED
        BY <2>1, <3>2, <4>1, <4>2, ShutdownGoesOn
    <3>3. CASE ~(mainPc \in AfterStopping /\ EndsRound(t))
      <4>1. lateRounds'[t] = lateRounds[t]
        BY <1>2, <3>3 DEF RoundsNext
      <4> QED
        BY <2>1, <3>1, <4>1, ShutdownGoesOn, CheckedLoopEnds
    <3> QED
      BY <3>2, <3>3
  <2>3. lateRounds' = [t \in Loops |-> lateRounds'[t]]
    BY <1>2 DEF RoundsNext
  <2> QED
    BY <2>2, <2>3 DEF RoundsInv
<1> QED
  BY <1>1, <1>2

(* Once Stopping is stored, a loop ends one more round at most, whether the     *)
(* main thread waits for it or goes on to StopSyncing and Stopped, for any      *)
(* threads, with and without a shutdown function or a stop timeout (need_stop). *)
THEOREM LateRounds == RoundsSpec => []OneLateRoundAtMost
<1>1. RoundsInit => RoundsInv
  BY DEF RoundsInit, RoundsInv
<1>2. RoundsSpec => []IndInv
  BY RoundsImplementTasks, Invariance, PTL
<1>3. IndInv /\ RoundsInv /\ [RoundsNext]_roundsVars => RoundsInv'
  BY RoundsInductive DEF IndInv
<1>4. RoundsInv => OneLateRoundAtMost
  BY DEF RoundsInv, OneLateRoundAtMost
<1> QED
  BY <1>1, <1>2, <1>3, <1>4, PTL DEF RoundsSpec

-----------------------------------------------------------------------------
(* Tasks implements Lifecycle.                                              *)

Quitters == {t \in Inputs \cup Programs : tpc[t] = "finished"}

(* What the abstract controller sees. *)
Seen == <<AbstractPhase, shutdownFn, registered, ready, Quitters, outStopped>>

LEMMA SeenIsAbstract == UNCHANGED Seen => UNCHANGED L!vars
BY DEF Seen, L!vars, Quitters

LEMMA AbstractSets ==
  /\ L!Inputs = Inputs
  /\ L!Programs = Programs
  /\ L!Outputs = Outputs
BY DEF L!Inputs, L!Programs, L!Outputs, Inputs, Programs, Outputs

LEMMA PhaseValues ==
  /\ PhaseOf(Inactive) = "configuring" /\ PhaseOf(Starting) = "configuring"
  /\ PhaseOf(Syncing) = "syncing" /\ PhaseOf(Preparing) = "preparing"
  /\ PhaseOf(Active) = "active" /\ PhaseOf(Stopping) = "stopping"
  /\ PhaseOf(StopSyncing) = "finalsync" /\ PhaseOf(Stopped) = "stopped"
BY DEF PhaseOf, Inactive, Starting, Syncing, Preparing, Active, Stopping,
       StopSyncing, Stopped

(* A step of the main thread is an abstract change of phase, or invisible. *)
LEMMA MainRefines ==
  ASSUME TypeOK, Inv, Main
  PROVE  L!Next \/ UNCHANGED Seen
<1> USE PhaseValues, AbstractSets
    DEF Inv, StatusInv, MainGoto, Seen, AbstractPhase, Aborted, Inputs,
        Programs, Outputs, Quitters, statsVars, loopVars
<1>1. CASE SetStarting
  BY <1>1 DEF SetStarting
<1>2. CASE SetSyncing
  <2>1. L!OpenInputs
    BY <1>2 DEF SetSyncing, L!OpenInputs, L!Advance, Starting, Stopping
  <2> QED
    BY <2>1 DEF L!Next
<1>3. CASE CheckNoInputs
  BY <1>3 DEF CheckNoInputs
<1>4. CASE SetPreparing
  <2>1. L!OpenPrograms
    BY <1>4 DEF SetPreparing, L!OpenPrograms, L!Advance
  <2> QED
    BY <2>1 DEF L!Next
<1>5. CASE SetActiveIfIdle
  <2>1. CASE Inputs = {} /\ Programs = {}
    <3>1. L!Activate
      BY <1>5, <2>1 DEF SetActiveIfIdle, L!Activate, L!Advance
    <3> QED
      BY <3>1 DEF L!Next
  <2>2. CASE ~(Inputs = {} /\ Programs = {})
    BY <1>5, <2>2 DEF SetActiveIfIdle
  <2> QED
    BY <2>1, <2>2
<1>6. CASE LeaveLoop
  BY <1>6 DEF LeaveLoop
<1>7. CASE ChooseStop
  <2>1. CASE status = Active
    BY <1>7, <2>1 DEF ChooseStop
  <2>2. CASE status # Active
    <3>1. L!Abort
      BY <1>7, <2>2 DEF ChooseStop, L!Abort, L!Advance
    <3> QED
      BY <3>1 DEF L!Next
  <2> QED
    BY <2>1, <2>2
<1>8. CASE SetStopping
  <2>1. L!BeginStop
    BY <1>8 DEF SetStopping, L!BeginStop, L!Advance
  <2> QED
    BY <2>1 DEF L!Next
<1>9. CASE Join
  BY <1>9 DEF Join
<1>10. CASE ShutdownFn
  BY <1>10 DEF ShutdownFn
<1>11. CASE SetStopSyncing
  <2>1. L!BeginFinalSync
    BY <1>11 DEF SetStopSyncing, L!BeginFinalSync, L!Advance, QuitInv, AfterJoin
  <2> QED
    BY <2>1 DEF L!Next
<1>12. CASE StopDatasync
  <2>1. CASE status' = status
    BY <1>12, <2>1 DEF StopDatasync
  <2>2. CASE status' # status
    <3>1. L!Finish
      BY <1>12, <2>2 DEF StopDatasync, L!Finish, L!Advance
    <3> QED
      BY <3>1 DEF L!Next
  <2> QED
    BY <2>1, <2>2
<1>13. CASE WaitStopped
  BY <1>13 DEF WaitStopped
<1>14. CASE SetStopped
  BY <1>14 DEF SetStopped
<1>15. CASE Exit
  BY <1>15 DEF Exit
<1> QED
  BY <1>1, <1>2, <1>3, <1>4, <1>5, <1>6, <1>7, <1>8, <1>9, <1>10, <1>11, <1>12,
     <1>13, <1>14, <1>15 DEF Main

(* The registration of a thread is a configuration step. *)
LEMMA SpawnRefines ==
  ASSUME TypeOK, Inv, NEW t \in Threads, Spawn(t)
  PROVE  L!Next
<1> USE PhaseValues DEF Inv, StatusInv, mainVars
<1>1. AbstractPhase = "configuring" /\ AbstractPhase' = AbstractPhase
  BY DEF Spawn, AbstractPhase, Aborted
<1>2. Quitters = {} /\ Quitters' = {}
  BY DEF Spawn, Quitters, Inputs, Programs, Goto, PcInv, BeforeSyncing, TypeOK
<1>3. L!Configure(t)
  BY <1>1, <1>2 DEF Spawn, L!Configure, Quitters
<1> QED
  BY <1>3 DEF L!Next, Threads

(* While the process lives, the phase is that of the status, unless the      *)
(* controller has been aborted.                                              *)
LEMMA LivePhase ==
  ASSUME TypeOK, Alive
  PROVE  /\ mainPc \in Aborted => AbstractPhase = "aborted"
         /\ mainPc \notin Aborted => AbstractPhase = PhaseOf(status)
BY DEF AbstractPhase, Aborted, Alive, Ended

(* A thread that stays on its way, and stores nothing, is not seen. *)
LEMMA MoveUnseen ==
  ASSUME TypeOK, Inv, NEW t \in Threads, NEW pc,
         tpc[t] # "finished", pc # "finished", Goto(t, pc),
         UNCHANGED <<status, mainPc, shutdownFn, registered, ready, outStopped>>
  PROVE  UNCHANGED Seen
<1>1. Quitters' = Quitters
  BY DEF Quitters, Goto, TypeOK, Inputs, Programs
<1> QED
  BY <1>1 DEF Seen, AbstractPhase

(* Of an aborted controller a thread may change what nothing is promised of. *)
LEMMA AbortedDrifts ==
  ASSUME Inv, AbstractPhase = "aborted", AbstractPhase' = "aborted",
         ready' \subseteq registered,
         UNCHANGED <<shutdownFn, registered, outStopped>>
  PROVE  L!Next
<1>1. L!Drift
  BY DEF L!Drift, Inputs, Programs
<1> QED
  BY <1>1 DEF L!Next

(* The end of an input or a program. *)
LEMMA CheckRefines ==
  ASSUME TypeOK, Inv, Alive, NEW t \in Threads, CheckNeedStop(t)
  PROVE  L!Next \/ UNCHANGED Seen
<1> USE DEF CheckNeedStop, mainVars, statsVars
<1>1. CASE ~NeedStop(status)
  BY <1>1, MoveUnseen
<1>2. CASE NeedStop(status) /\ mainPc \in Aborted
  <2>1. AbstractPhase = "aborted" /\ AbstractPhase' = "aborted"
    BY <1>2, LivePhase DEF AbstractPhase
  <2> QED
    BY <2>1, AbortedDrifts DEF Inv, ReadyInv
<1>3. CASE NeedStop(status) /\ mainPc \notin Aborted
  <2>1. AbstractPhase \in {"stopping", "finalsync", "stopped"}
    <3>1. status \in {Stopping, StopSyncing, Stopped}
      BY <1>3 DEF NeedStop, TypeOK, Status, Inactive, Starting, Syncing,
         Preparing, Active, Stopping, StopSyncing, Stopped
    <3> QED
      BY <1>3, <3>1, LivePhase, PhaseValues
  <2>2. t \in Inputs \cup Programs
    BY DEF Inv, PcInv, OutputPcs, Inputs, Programs, Threads
  <2>3. Quitters' = Quitters \cup {t}
    BY <1>3, <2>2 DEF Quitters, Goto, TypeOK, Inputs, Programs
  <2>4. L!Quit(t)
    BY <2>1, <2>2, <2>3, AbstractSets DEF L!Quit, Quitters, AbstractPhase
  <2> QED
    BY <2>4 DEF L!Next, Threads
<1> QED
  BY <1>1, <1>2, <1>3

(* The first round of an input. *)
LEMMA InputRefines ==
  ASSUME TypeOK, Inv, Alive, NEW t \in Threads, MarkInputReady(t)
  PROVE  L!Next \/ UNCHANGED Seen
<1> DEFINE counts == ~inputsReady /\ CanRunInputs(status)
<1> USE DEF mainVars
<1>1. t \in Inputs /\ t \notin ready
  BY DEF MarkInputReady, Inv, PcInv, ReadyInv, Inputs
<1>2. Quitters' = Quitters
  BY DEF MarkInputReady, Quitters, Goto, LoopStart, TypeOK, Inputs, Programs
<1>3. CASE ~counts
  BY <1>2, <1>3 DEF MarkInputReady, Seen, AbstractPhase
<1>4. CASE mainPc \in Aborted
  <2>1. AbstractPhase = "aborted" /\ AbstractPhase' = "aborted"
    BY <1>4, LivePhase DEF MarkInputReady, AbstractPhase
  <2> QED
    BY <1>1, <2>1, AbortedDrifts DEF MarkInputReady, Inv, ReadyInv, Inputs
<1>5. CASE counts /\ mainPc \notin Aborted
  <2>1. status = Syncing
    BY <1>1, <1>5 DEF CanRunInputs, Inv, ReadyInv, TypeOK, Status, Inactive,
       Starting, Syncing, Preparing, Active, Stopping, StopSyncing, Stopped
  <2>2. AbstractPhase = "syncing" /\ AbstractPhase' = AbstractPhase
    BY <1>5, <2>1, LivePhase, PhaseValues DEF MarkInputReady, AbstractPhase
  <2>3. L!FirstRound(t)
    BY <1>1, <1>2, <1>5, <2>2, AbstractSets
       DEF MarkInputReady, L!FirstRound, Quitters
  <2> QED
    BY <2>3 DEF L!Next, Threads
<1> QED
  BY <1>3, <1>4, <1>5

(* The first round of a program. *)
LEMMA ProgramRefines ==
  ASSUME TypeOK, Inv, Alive, NEW t \in Threads, MarkProgramReady(t)
  PROVE  L!Next \/ UNCHANGED Seen
<1> DEFINE counts == ~programsReady /\ CanRunPrograms(status)
<1> USE DEF mainVars
<1>1. t \in Programs /\ t \notin ready
  BY DEF MarkProgramReady, Inv, PcInv, ReadyInv, Programs
<1>2. Quitters' = Quitters
  BY DEF MarkProgramReady, Quitters, Goto, LoopStart, TypeOK, Inputs, Programs
<1>3. CASE ~counts
  BY <1>2, <1>3 DEF MarkProgramReady, Seen, AbstractPhase
<1>4. CASE mainPc \in Aborted
  <2>1. AbstractPhase = "aborted" /\ AbstractPhase' = "aborted"
    BY <1>4, LivePhase DEF MarkProgramReady, AbstractPhase
  <2> QED
    BY <1>1, <2>1, AbortedDrifts DEF MarkProgramReady, Inv, ReadyInv, Programs
<1>5. CASE counts /\ mainPc \notin Aborted
  <2>1. status = Preparing
    BY <1>1, <1>5 DEF CanRunPrograms, Inv, ReadyInv, TypeOK, Status, Inactive,
       Starting, Syncing, Preparing, Active, Stopping, StopSyncing, Stopped
  <2>2. AbstractPhase = "preparing" /\ AbstractPhase' = AbstractPhase
    BY <1>5, <2>1, LivePhase, PhaseValues DEF MarkProgramReady, AbstractPhase
  <2>3. L!FirstRound(t)
    BY <1>1, <1>2, <1>5, <2>2, AbstractSets
       DEF MarkProgramReady, L!FirstRound, Quitters
  <2> QED
    BY <2>3 DEF L!Next, Threads
<1> QED
  BY <1>3, <1>4, <1>5

(* The stores to STATUS at the end of mark_*_ready(). *)
LEMMA StoreRefines ==
  ASSUME TypeOK, Inv, Alive, NEW t \in Threads,
         MarkSetPreparing(t) \/ MarkSetActive(t)
  PROVE  L!Next \/ UNCHANGED Seen
<1> USE DEF mainVars, statsVars
<1>1. Quitters' = Quitters
  BY DEF MarkSetPreparing, MarkSetActive, Quitters, Goto, LoopStart, TypeOK,
         Inputs, Programs
<1>2. CASE mainPc \in Aborted
  <2>1. AbstractPhase = "aborted" /\ AbstractPhase' = "aborted"
    BY <1>2, LivePhase DEF MarkSetPreparing, MarkSetActive, AbstractPhase
  <2> QED
    BY <1>1, <2>1 DEF MarkSetPreparing, MarkSetActive, Seen
<1>3. CASE mainPc \notin Aborted /\ MarkSetPreparing(t)
  <2>1. status = Syncing /\ Inputs \subseteq ready /\ status' = Preparing
    BY <1>3 DEF MarkSetPreparing, Inv, MarkInv, Alive, Ended
  <2>2. AbstractPhase = "syncing" /\ AbstractPhase' = "preparing"
    BY <1>3, <2>1, LivePhase, PhaseValues
       DEF MarkSetPreparing, AbstractPhase, Alive, Ended
  <2>3. L!OpenPrograms
    BY <1>1, <1>3, <2>1, <2>2, AbstractSets
       DEF MarkSetPreparing, L!OpenPrograms, L!Advance, Quitters
  <2> QED
    BY <2>3 DEF L!Next
<1>4. CASE mainPc \notin Aborted /\ MarkSetActive(t)
  <2>1. status = Preparing /\ Programs \subseteq ready /\ status' = Active
    BY <1>4 DEF MarkSetActive, Inv, MarkInv, Alive, Ended
  <2>2. AbstractPhase = "preparing" /\ AbstractPhase' = "active"
    BY <1>4, <2>1, LivePhase, PhaseValues
       DEF MarkSetActive, AbstractPhase, Alive, Ended
  <2>3. L!Activate
    BY <1>1, <1>4, <2>1, <2>2, AbstractSets
       DEF MarkSetActive, L!Activate, L!Advance, Quitters
  <2> QED
    BY <2>3 DEF L!Next
<1> QED
  BY <1>2, <1>3, <1>4

(* The final round of an output, with the last of which the phase ends. *)
LEMMA OutputRefines ==
  ASSUME TypeOK, Inv, Alive, NEW t \in Threads, MarkOutputStopped(t)
  PROVE  L!Next
<1> USE DEF mainVars
<1>1. t \in Outputs /\ mainPc \in FinalSync
  BY DEF MarkOutputStopped, Inv, PcInv, OutputInv, Outputs, Alive, Ended
<1>2. /\ mainPc \notin Aborted
      /\ status \in {StopSyncing, Stopped}
      /\ AbstractPhase \in {"finalsync", "stopped"}
  <2>1. mainPc \notin Aborted /\ status \in {StopSyncing, Stopped}
    BY <1>1 DEF Inv, StatusInv, FinalSync, Aborted
  <2> QED
    BY <2>1, LivePhase, PhaseValues
<1>3. Quitters' = Quitters
  BY <1>1, ThreadsAssumption
     DEF MarkOutputStopped, Quitters, Goto, TypeOK, Inputs, Programs, Outputs
<1>4. outStopped' = outStopped \cup {t}
  BY <1>1 DEF MarkOutputStopped, Inv, OutputInv
<1>5. \/ AbstractPhase' = AbstractPhase
      \/ AbstractPhase' = "stopped" /\ Outputs \subseteq outStopped'
  BY <1>1, <1>2, <1>4, PhaseValues
     DEF MarkOutputStopped, AbstractPhase, Alive, Ended, Outputs
<1>6. L!FinalRound(t)
  BY <1>1, <1>2, <1>3, <1>4, <1>5, AbstractSets
     DEF MarkOutputStopped, L!FinalRound, Quitters
<1> QED
  BY <1>6 DEF L!Next, Threads

LEMMA ThreadRefines ==
  ASSUME TypeOK, Inv, Alive, NEW t \in Threads,
         Control(t) \/ Body(t) \/ SpawnService(t)
  PROVE  L!Next \/ UNCHANGED Seen
<1> USE DEF mainVars, statsVars, LoopStart
<1>1. CASE WaitCanRun(t)
  BY <1>1, MoveUnseen DEF WaitCanRun
<1>2. CASE Tick(t)
  BY <1>2, MoveUnseen DEF Tick
<1>3. CASE ProgramGate(t)
  BY <1>3, MoveUnseen DEF ProgramGate
<1>4. CASE OutputGate(t)
  BY <1>4, MoveUnseen DEF OutputGate
<1>5. CASE OutputSnapshot(t)
  BY <1>5, MoveUnseen DEF OutputSnapshot
<1>6. CASE Run(t)
  BY <1>6, MoveUnseen DEF Run
<1>7. CASE OutputSend(t)
  BY <1>7, MoveUnseen DEF OutputSend
<1>8. CASE SpawnService(t)
  BY <1>8, MoveUnseen DEF SpawnService
<1> QED
  BY <1>1, <1>2, <1>3, <1>4, <1>5, <1>6, <1>7, <1>8, CheckRefines, InputRefines,
     ProgramRefines, StoreRefines, OutputRefines DEF Control, Body

(* The threads, locks and status word implement the abstract life cycle, for *)
(* any number of inputs, programs and outputs, with or without a shutdown    *)
(* function, whatever the devices, the services and the signals do.          *)
THEOREM Refinement == Spec => ImplementsLifecycle
<1>1. Init => L!Init
  BY PhaseValues
     DEF Init, L!Init, AbstractPhase, Aborted, Inputs, Programs, Threads
<1>2. TypeOK /\ Inv /\ [Next]_vars => [L!Next]_(L!vars)
  <2> SUFFICES ASSUME TypeOK, Inv, [Next]_vars
               PROVE  L!Next \/ UNCHANGED Seen
    BY SeenIsAbstract
  <2>1. CASE UNCHANGED vars
    BY <2>1 DEF vars, mainVars, statsVars, loopVars, Seen, AbstractPhase,
                Quitters, Inputs, Programs
  <2>2. CASE Sigterm
    BY <2>2 DEF Sigterm, statsVars, loopVars, Seen, AbstractPhase, Quitters,
                Inputs, Programs
  <2>3. CASE ForceStop
    <3>1. L!Kill
      BY <2>3 DEF ForceStop, MainGoto, L!Kill, AbstractPhase, Aborted,
                  PhaseOf, statsVars, loopVars, Inputs, Programs,
                  TypeOK, Status
    <3> QED
      BY <3>1 DEF L!Next
  <2>4. CASE ServiceWrite
    BY <2>4 DEF ServiceWrite, mainVars, statsVars, loopVars, Seen,
                AbstractPhase, Quitters, Inputs, Programs
  <2>5. CASE OnShutdown
    <3>1. L!AskForOrder
      BY <2>5, PhaseValues
         DEF OnShutdown, L!AskForOrder, AbstractPhase, Aborted, statsVars,
             loopVars, Inputs, Programs, Inv, StatusInv
    <3> QED
      BY <3>1 DEF L!Next
  <2> QED
    BY <2>1, <2>2, <2>3, <2>4, <2>5, MainRefines, SpawnRefines, ThreadRefines
       DEF Next, Terminated
<1> QED
  BY <1>1, <1>2, Invariance, PTL DEF Spec, IndInv, ImplementsLifecycle, L!Spec
=============================================================================
