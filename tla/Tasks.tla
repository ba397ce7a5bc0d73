------------------------------- MODULE Tasks -------------------------------
(***************************************************************************)
(* The task scheduler of src/src/tasks.rs and the life of the process in    *)
(* run() of src/src/lib.rs: the threads of the user's main, the inputs, the *)
(* programs and the outputs, which meet only through                        *)
(*   - STATUS, one atomic every thread reads and several store to,          *)
(*   - CONTROLLER_STATS, a mutex over the readiness maps and their flags,   *)
(*   - WAIT_HANDLES, a mutex over the join handles, and                     *)
(*   - the context the programs work on, which the outputs publish.         *)
(*                                                                         *)
(* A step is what one thread does between two accesses to state another     *)
(* thread may change.  What happens under CONTROLLER_STATS is one step up   *)
(* to the stores to STATUS, which readers see without the lock.             *)
(***************************************************************************)
EXTENDS PlcStatus

CONSTANTS
  InputThreads,     \* names a spawn_input_loop may be called with
  ProgramThreads,   \* names a spawn_program_loop may be called with
  OutputThreads,    \* names a spawn_output_loop may be called with
  ServiceSpawners,  \* the programs whose body may call spawn_service()
  ServicesWrite,    \* a field server or an EAPI action may write the context
  StopTimeout,      \* the stop timeout is short enough to elapse
  Hanging           \* the threads whose body may block for ever in an I/O call

ASSUME ThreadsAssumption ==
  /\ InputThreads \cap ProgramThreads = {}
  /\ InputThreads \cap OutputThreads = {}
  /\ ProgramThreads \cap OutputThreads = {}
  /\ ServiceSpawners \subseteq ProgramThreads

Threads == InputThreads \cup ProgramThreads \cup OutputThreads

VARIABLES
  status,          \* STATUS
  mainPc,          \* where the main thread stands
  termFlag,        \* TERM_FLAG, set by SIGTERM or SIGINT
  shutdownFn,      \* SHUTDOWN_FN is set
  registered,      \* the keys of the three readiness maps
  ready,           \* the inputs and programs mapped to true
  outStopped,      \* the outputs mapped to true in output_threads_stopped
  inputsReady,     \* inputs_ready
  programsReady,   \* programs_ready
  outputsStopped,  \* outputs_stopped
  tpc,             \* where each thread stands in its loop
  marked,          \* the threads whose Loop has marked them ready
  lastSync,        \* last_sync of each output loop
  snapCurrent,     \* the snapshot an output took is still the context
  devCurrent,      \* what an output last sent to its device is the context
  sendFailed       \* the send of an output's current round failed

mainVars  == <<mainPc, termFlag, shutdownFn>>
statsVars == <<registered, ready, outStopped,
               inputsReady, programsReady, outputsStopped>>
loopVars  == <<tpc, marked, lastSync>>
dataVars  == <<snapCurrent, devCurrent, sendFailed>>
vars      == <<status, mainVars, statsVars, loopVars, dataVars>>

Inputs   == registered \cap InputThreads
Programs == registered \cap ProgramThreads
Outputs  == registered \cap OutputThreads

(* Main: "setup" is the user's main before run_plc!(); "done", "aborted" and *)
(* "killed" are the ends of the process.                                     *)
MainPcs == {"setup", "launch", "prep", "prepSet", "act", "loop", "stop",
            "shutdown", "join", "sfn", "final", "stopds", "waitStop",
            "cleanup", "done", "abort", "abortCleanup", "aborted", "killed"}

Ended == {"done", "aborted", "killed"}
Alive == mainPc \notin Ended

(* The main thread holds WAIT_HANDLES from take() to the end of the if-let: *)
(* while it joins and while it runs the shutdown function.                   *)
WaitHandlesHeld == mainPc \in {"join", "sfn"}

(* A thread at one of these points is inside mark_*_ready(), with            *)
(* CONTROLLER_STATS locked and a store to STATUS still to come.              *)
Marking     == {"setPreparing", "setActive"}
StatsLocked == \E t \in Threads : tpc[t] \in Marking

ThreadPcs == {"none", "wait", "gate", "run", "spawn", "check", "tick",
              "send", "mark", "finished"} \cup Marking

-----------------------------------------------------------------------------
(* Helpers.                                                                 *)

Goto(t, pc) == tpc' = [tpc EXCEPT ![t] = pc]

MainGoto(pc) == mainPc' = pc /\ UNCHANGED <<termFlag, shutdownFn>>

(* A write to the context: no snapshot and no device holds it any more. *)
ContextWritten ==
  /\ snapCurrent' = [o \in OutputThreads |-> FALSE]
  /\ devCurrent'  = [o \in OutputThreads |-> FALSE]
  /\ UNCHANGED sendFailed

(* Where a loop starts its next round. *)
LoopStart(t) == IF t \in InputThreads THEN "run" ELSE "gate"

-----------------------------------------------------------------------------
Init ==
  /\ status = Inactive
  /\ mainPc = "setup"
  /\ termFlag = FALSE
  /\ shutdownFn = FALSE
  /\ registered = {}
  /\ ready = {}
  /\ outStopped = {}
  /\ inputsReady = TRUE
  /\ programsReady = TRUE
  /\ outputsStopped = TRUE
  /\ tpc = [t \in Threads |-> "none"]
  /\ marked = {}
  /\ lastSync = [o \in OutputThreads |-> FALSE]
  /\ snapCurrent = [o \in OutputThreads |-> FALSE]
  /\ devCurrent = [o \in OutputThreads |-> FALSE]
  /\ sendFailed = [o \in OutputThreads |-> FALSE]

-----------------------------------------------------------------------------
(* The main thread.                                                         *)

(* spawn(): register the thread under CONTROLLER_STATS and start it.  The   *)
(* main thread spawns before run() and inside launch_datasync().            *)
Spawn(t) ==
  /\ mainPc \in {"setup", "launch"}
  /\ CanSpawn(status)
  /\ t \notin registered
  /\ registered' = registered \cup {t}
  /\ inputsReady' = (inputsReady /\ t \notin InputThreads)
  /\ programsReady' = (programsReady /\ t \notin ProgramThreads)
  /\ outputsStopped' = (outputsStopped /\ t \notin OutputThreads)
  /\ Goto(t, "wait")
  /\ UNCHANGED <<status, mainVars, ready, outStopped, marked, lastSync, dataVars>>

(* on_shutdown(), called by the user's main before run(). *)
OnShutdown ==
  /\ mainPc = "setup"
  /\ ~shutdownFn
  /\ shutdownFn' = TRUE
  /\ UNCHANGED <<status, mainPc, termFlag, statsVars, loopVars, dataVars>>

SetStarting ==
  /\ mainPc = "setup"
  /\ status' = IF status # Stopping THEN Starting ELSE status
  /\ MainGoto("launch")
  /\ UNCHANGED <<statsVars, loopVars, dataVars>>

SetSyncing ==
  /\ mainPc = "launch"
  /\ status' = IF status # Stopping THEN Syncing ELSE status
  /\ MainGoto("prep")
  /\ UNCHANGED <<statsVars, loopVars, dataVars>>

(* Mutant: run() does not look for a controller without inputs. *)
CheckNoInputsForgotten ==
  /\ mainPc = "prep"
  /\ MainGoto("act")
  /\ UNCHANGED <<status, statsVars, loopVars, dataVars>>

(* set_preparing_if_no_inputs() looks at the map under the lock and stores  *)
(* the status after releasing it.                                           *)
CheckNoInputs ==
  /\ mainPc = "prep"
  /\ ~StatsLocked
  /\ MainGoto(IF Inputs = {} THEN "prepSet" ELSE "act")
  /\ UNCHANGED <<status, statsVars, loopVars, dataVars>>

SetPreparing ==
  /\ mainPc = "prepSet"
  /\ status' = Preparing
  /\ MainGoto("act")
  /\ UNCHANGED <<statsVars, loopVars, dataVars>>

(* Mutant: only the programs are looked at. *)
SetActiveIfNoPrograms ==
  /\ mainPc = "act"
  /\ ~StatsLocked
  /\ status' = IF Programs = {} THEN Active ELSE status
  /\ MainGoto("loop")
  /\ UNCHANGED <<statsVars, loopVars, dataVars>>

SetActiveIfIdle ==
  /\ mainPc = "act"
  /\ ~StatsLocked
  /\ status' = IF Inputs = {} /\ Programs = {} THEN Active ELSE status
  /\ MainGoto("loop")
  /\ UNCHANGED <<statsVars, loopVars, dataVars>>

(* The signal handler, registered at the head of run(). *)
Sigterm ==
  /\ mainPc # "setup"
  /\ Alive
  /\ termFlag' = TRUE
  /\ UNCHANGED <<status, mainPc, shutdownFn, statsVars, loopVars, dataVars>>

(* The poll of TERM_FLAG ends; the force-stop timer is started. *)
LeaveLoop ==
  /\ mainPc = "loop"
  /\ termFlag
  /\ MainGoto("stop")
  /\ UNCHANGED <<status, statsVars, loopVars, dataVars>>

(* Mutant: every controller shuts down. *)
ChooseStopAnyStatus ==
  /\ mainPc = "stop"
  /\ MainGoto("shutdown")
  /\ UNCHANGED <<status, statsVars, loopVars, dataVars>>

(* Only an Active controller shuts down; any other is just declared Stopped. *)
ChooseStop ==
  /\ mainPc = "stop"
  /\ MainGoto(IF status = Active THEN "shutdown" ELSE "abort")
  /\ UNCHANGED <<status, statsVars, loopVars, dataVars>>

(* shutdown() joins only when there is a shutdown function to run after. *)
SetStopping ==
  /\ mainPc = "shutdown"
  /\ status' = Stopping
  /\ MainGoto(IF shutdownFn THEN "join" ELSE "final")
  /\ UNCHANGED <<statsVars, loopVars, dataVars>>

Join ==
  /\ mainPc = "join"
  /\ \A t \in Inputs \cup Programs : tpc[t] = "finished"
  /\ MainGoto("sfn")
  /\ UNCHANGED <<status, statsVars, loopVars, dataVars>>

ShutdownFn ==
  /\ mainPc = "sfn"
  /\ ContextWritten
  /\ MainGoto("final")
  /\ UNCHANGED <<status, statsVars, loopVars>>

SetStopSyncing ==
  /\ mainPc = "final"
  /\ status' = StopSyncing
  /\ MainGoto("stopds")
  /\ UNCHANGED <<statsVars, loopVars, dataVars>>

(* Mutant: Stopped is declared without waiting for the outputs. *)
StopDatasyncAtOnce ==
  /\ mainPc = "stopds"
  /\ status' = Stopped
  /\ MainGoto("waitStop")
  /\ UNCHANGED <<statsVars, loopVars, dataVars>>

(* stop_if_no_output_or_sfn(), called unless the outputs are already done. *)
StopDatasync ==
  /\ mainPc = "stopds"
  /\ ~StatsLocked
  /\ status' = IF Outputs = {} \/ ~shutdownFn THEN Stopped ELSE status
  /\ MainGoto("waitStop")
  /\ UNCHANGED <<statsVars, loopVars, dataVars>>

WaitStopped ==
  /\ mainPc = "waitStop"
  /\ status = Stopped
  /\ MainGoto("cleanup")
  /\ UNCHANGED <<status, statsVars, loopVars, dataVars>>

SetStopped ==
  /\ mainPc = "abort"
  /\ status' = Stopped
  /\ MainGoto("abortCleanup")
  /\ UNCHANGED <<statsVars, loopVars, dataVars>>

(* The pid file and the API socket are removed and main returns. *)
Exit ==
  /\ \/ mainPc = "cleanup" /\ MainGoto("done")
     \/ mainPc = "abortCleanup" /\ MainGoto("aborted")
  /\ UNCHANGED <<status, statsVars, loopVars, dataVars>>

(* Mutant: the timer is started after shutdown(), not before it. *)
ForceStopAfterShutdown ==
  /\ StopTimeout
  /\ mainPc \in {"stopds", "waitStop", "cleanup", "abort", "abortCleanup"}
  /\ MainGoto("killed")
  /\ UNCHANGED <<status, statsVars, loopVars, dataVars>>

(* The force-stop thread panics, and the panic hook ends the process. *)
ForceStop ==
  /\ StopTimeout
  /\ mainPc \in {"stop", "shutdown", "join", "sfn", "final", "stopds",
                 "waitStop", "cleanup", "abort", "abortCleanup"}
  /\ MainGoto("killed")
  /\ UNCHANGED <<status, statsVars, loopVars, dataVars>>

Main ==
  \/ SetStarting \/ SetSyncing \/ CheckNoInputs \/ SetPreparing
  \/ SetActiveIfIdle \/ LeaveLoop \/ ChooseStop \/ SetStopping \/ Join
  \/ ShutdownFn \/ SetStopSyncing \/ StopDatasync \/ WaitStopped
  \/ SetStopped \/ Exit

-----------------------------------------------------------------------------
(* Steps the three kinds of loops share.                                    *)

(* wait_can_run_*() in Loop::prepare. *)
WaitCanRun(t) ==
  /\ tpc[t] = "wait"
  /\ \/ t \in InputThreads /\ CanRunInputs(status)
     \/ t \in ProgramThreads /\ CanRunPrograms(status)
     \/ t \in OutputThreads /\ CanRunOutputs(status)
  /\ Goto(t, LoopStart(t))
  /\ UNCHANGED <<status, mainVars, statsVars, marked, lastSync, dataVars>>

(* An input reads its device; the context changes unless the read fails. *)
(* A program computes on the context.                                     *)
Run(t) ==
  /\ tpc[t] = "run"
  /\ t \notin OutputThreads
  /\ Goto(t, "check")
  /\ ContextWritten \/ UNCHANGED dataVars
  /\ UNCHANGED <<status, mainVars, statsVars, marked, lastSync>>

CheckNeedStop(t) ==
  /\ tpc[t] = "check"
  /\ Goto(t, IF NeedStop(status) THEN "finished" ELSE "tick")
  /\ UNCHANGED <<status, mainVars, statsVars, marked, lastSync, dataVars>>

(* Loop::tick() of a Loop that has marked its thread: only the sleep. *)
Tick(t) ==
  /\ tpc[t] = "tick"
  /\ t \in marked
  /\ Goto(t, LoopStart(t))
  /\ UNCHANGED <<status, mainVars, statsVars, marked, lastSync, dataVars>>

-----------------------------------------------------------------------------
(* The first tick of an input or a program: mark_input_thread_ready() and   *)
(* mark_program_thread_ready(), which read STATUS, update the map and, for  *)
(* the last thread, store the next status, all under CONTROLLER_STATS.      *)

MarkInputReady(t) ==
  /\ tpc[t] = "tick"
  /\ t \in InputThreads \ marked
  /\ ~StatsLocked
  /\ marked' = marked \cup {t}
  /\ LET counts == ~inputsReady /\ CanRunInputs(status)
         all    == Inputs \subseteq ready \cup {t}
     IN /\ ready' = IF counts THEN ready \cup {t} ELSE ready
        /\ inputsReady' = (inputsReady \/ (counts /\ all))
        /\ Goto(t, IF counts /\ all THEN "setPreparing" ELSE LoopStart(t))
  /\ UNCHANGED <<status, mainVars, registered, outStopped, programsReady,
                 outputsStopped, lastSync, dataVars>>

MarkProgramReady(t) ==
  /\ tpc[t] = "tick"
  /\ t \in ProgramThreads \ marked
  /\ ~StatsLocked
  /\ marked' = marked \cup {t}
  /\ LET counts == ~programsReady /\ CanRunPrograms(status)
         all    == Programs \subseteq ready \cup {t}
     IN /\ ready' = IF counts THEN ready \cup {t} ELSE ready
        /\ programsReady' = (programsReady \/ (counts /\ all))
        /\ Goto(t, IF counts /\ all THEN "setActive" ELSE LoopStart(t))
  /\ UNCHANGED <<status, mainVars, registered, outStopped, inputsReady,
                 outputsStopped, lastSync, dataVars>>

(* Mutant: Active is stored whether programs wait or not. *)
MarkSetPreparingThenActive(t) ==
  /\ tpc[t] = "setPreparing"
  /\ status' = Preparing
  /\ Goto(t, "setActive")
  /\ UNCHANGED <<mainVars, statsVars, marked, lastSync, dataVars>>

(* The last input stores Preparing, and Active after it if no program waits. *)
MarkSetPreparing(t) ==
  /\ tpc[t] = "setPreparing"
  /\ status' = Preparing
  /\ Goto(t, IF Programs = {} THEN "setActive" ELSE LoopStart(t))
  /\ UNCHANGED <<mainVars, statsVars, marked, lastSync, dataVars>>

MarkSetActive(t) ==
  /\ tpc[t] = "setActive"
  /\ status' = Active
  /\ Goto(t, LoopStart(t))
  /\ UNCHANGED <<mainVars, statsVars, marked, lastSync, dataVars>>

-----------------------------------------------------------------------------
(* The program loop.                                                        *)

(* The body is skipped once the controller is below Preparing. *)
ProgramGate(t) ==
  /\ t \in ProgramThreads
  /\ tpc[t] = "gate"
  /\ Goto(t, IF CanRunPrograms(status) THEN "run" ELSE "check")
  /\ UNCHANGED <<status, mainVars, statsVars, marked, lastSync, dataVars>>

(* spawn_service() inside a body: allowed at any status, but it needs        *)
(* WAIT_HANDLES, if only to find out that the handles are gone.              *)
SpawnService(t) ==
  /\ t \in ServiceSpawners
  /\ \/ tpc[t] = "run" /\ Goto(t, "spawn")
     \/ tpc[t] = "spawn" /\ ~WaitHandlesHeld /\ Goto(t, "run")
  /\ UNCHANGED <<status, mainVars, statsVars, marked, lastSync, dataVars>>

-----------------------------------------------------------------------------
(* The output loop.                                                         *)

OutputGate(t) ==
  /\ t \in OutputThreads
  /\ tpc[t] = "gate"
  /\ lastSync' = [lastSync EXCEPT ![t] = OutputLastSync(status)]
  /\ sendFailed' = [sendFailed EXCEPT ![t] = FALSE]
  /\ Goto(t, "run")
  /\ UNCHANGED <<status, mainVars, statsVars, marked, snapCurrent, devCurrent>>

(* The worker copies what it maps out of the context under its read lock ... *)
OutputSnapshot(t) ==
  /\ t \in OutputThreads
  /\ tpc[t] = "run"
  /\ snapCurrent' = [snapCurrent EXCEPT ![t] = TRUE]
  /\ Goto(t, "send")
  /\ UNCHANGED <<status, mainVars, statsVars, marked, lastSync,
                 devCurrent, sendFailed>>

(* Mutant: the loop looks for the final round after the body, not before it. *)
OutputSendThenLook(t) ==
  /\ t \in OutputThreads
  /\ tpc[t] = "send"
  /\ devCurrent' = [devCurrent EXCEPT ![t] = snapCurrent[t]]
  /\ lastSync' = [lastSync EXCEPT ![t] = OutputLastSync(status)]
  /\ Goto(t, IF OutputLastSync(status) THEN "mark" ELSE "gate")
  /\ UNCHANGED <<status, mainVars, statsVars, marked, snapCurrent, sendFailed>>

(* ... and sends the copy.  A failed send, which may still have reached the  *)
(* device, is logged; the round is over all the same, and the final round is *)
(* not repeated.                                                             *)
OutputSend(t) ==
  /\ t \in OutputThreads
  /\ tpc[t] = "send"
  /\ \E failed \in BOOLEAN :
       /\ sendFailed' = [sendFailed EXCEPT ![t] = failed]
       /\ \/ devCurrent' = [devCurrent EXCEPT ![t] = snapCurrent[t]]
          \/ failed /\ UNCHANGED devCurrent
  /\ Goto(t, IF lastSync[t] THEN "mark" ELSE "gate")
  /\ UNCHANGED <<status, mainVars, statsVars, marked, lastSync, snapCurrent>>

(* mark_output_thread_stopped(): the last output declares the PLC stopped. *)
MarkOutputStopped(t) ==
  /\ t \in OutputThreads
  /\ tpc[t] = "mark"
  /\ ~StatsLocked
  /\ LET all == Outputs \subseteq outStopped \cup {t}
     IN IF outputsStopped
        THEN UNCHANGED <<status, outStopped, outputsStopped>>
        ELSE /\ outStopped' = outStopped \cup {t}
             /\ outputsStopped' = all
             /\ status' = IF all THEN Stopped ELSE status
  /\ Goto(t, "finished")
  /\ UNCHANGED <<mainVars, registered, ready, inputsReady, programsReady,
                 marked, lastSync, dataVars>>

-----------------------------------------------------------------------------
(* A field server or an EAPI action writes the context, at any time. *)
ServiceWrite ==
  /\ ServicesWrite
  /\ ContextWritten
  /\ UNCHANGED <<status, mainVars, statsVars, loopVars>>

(* The steps of a thread that wait for nothing outside the scheduler. *)
Control(t) ==
  \/ WaitCanRun(t) \/ CheckNeedStop(t) \/ Tick(t)
  \/ MarkInputReady(t) \/ MarkProgramReady(t)
  \/ MarkSetPreparing(t) \/ MarkSetActive(t)
  \/ ProgramGate(t) \/ OutputGate(t) \/ OutputSnapshot(t)
  \/ MarkOutputStopped(t)

(* The steps that end when a device or the user's code lets them. *)
Body(t) == Run(t) \/ OutputSend(t)

Terminated == ~Alive /\ UNCHANGED vars

Next ==
  \/ \E t \in Threads : Spawn(t)
  \/ OnShutdown
  \/ Main
  \/ Sigterm
  \/ ForceStop
  \/ Alive /\ \E t \in Threads : Control(t) \/ Body(t) \/ SpawnService(t)
  \/ Alive /\ ServiceWrite
  \/ Terminated

Spec == Init /\ [][Next]_vars

(* The operating system runs every thread that can run, and the timer of a   *)
(* short enough stop timeout elapses.  Nothing is promised of the I/O of a   *)
(* hanging thread, of the user's signals or of the spawns.  A body calls     *)
(* spawn_service() finitely often, so a body returns.                        *)
Fairness ==
  /\ WF_vars(Main)
  /\ WF_vars(ForceStop)
  /\ \A t \in Threads : WF_vars(Alive /\ Control(t))
  /\ \A t \in Threads \ Hanging : SF_vars(Alive /\ Body(t))
  /\ \A t \in ServiceSpawners : WF_vars(Alive /\ tpc[t] = "spawn" /\ SpawnService(t))

FairSpec == Spec /\ Fairness
=============================================================================
