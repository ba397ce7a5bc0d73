-------------------------- MODULE TasksProperties --------------------------
(***************************************************************************)
(* What the scheduler of Tasks promises: its invariants, its liveness, the   *)
(* abstract life cycle it implements, and the inductive invariant the proofs *)
(* of TasksProofs rest on.                                                  *)
(***************************************************************************)
EXTENDS Tasks

-----------------------------------------------------------------------------
(* Where the main thread stands, in groups.                                 *)

BeforeSyncing == {"setup", "launch"}
Shutdown      == {"shutdown", "join", "sfn", "final", "stopds", "waitStop",
                  "cleanup", "done"}
AfterJoin     == {"sfn", "final", "stopds", "waitStop", "cleanup", "done"}
FinalSync     == {"stopds", "waitStop", "cleanup", "done"}
Aborted       == {"abort", "abortCleanup", "aborted"}

(* Nothing changes the context once the inputs and programs are joined. *)
QuietFinalSync == shutdownFn /\ ~ServicesWrite

-----------------------------------------------------------------------------
(* What the scheduler promises.                                             *)

(* The types of the variables; where a thread may stand depends on its kind. *)
TypeOK ==
  /\ status \in Status
  /\ mainPc \in MainPcs
  /\ termFlag \in BOOLEAN
  /\ shutdownFn \in BOOLEAN
  /\ registered \subseteq Threads
  /\ ready \subseteq InputThreads \cup ProgramThreads
  /\ outStopped \subseteq OutputThreads
  /\ inputsReady \in BOOLEAN
  /\ programsReady \in BOOLEAN
  /\ outputsStopped \in BOOLEAN
  /\ tpc \in [Threads -> ThreadPcs]
  /\ marked \subseteq InputThreads \cup ProgramThreads
  /\ lastSync \in [OutputThreads -> BOOLEAN]
  /\ snapCurrent \in [OutputThreads -> BOOLEAN]
  /\ devCurrent \in [OutputThreads -> BOOLEAN]
  /\ sendFailed \in [OutputThreads -> BOOLEAN]

(* No program body runs before every input has made its first round, on any  *)
(* path: not at startup, not after a SIGTERM that came during startup        *)
(* (Status::Preparing, mark_input_thread_ready, wait_can_run_program).       *)
ProgramsAfterInputs ==
  (\E p \in Programs : tpc[p] \in {"run", "spawn"}) => Inputs \subseteq ready

(* The controller is Active only when every input and every program has      *)
(* made a round, whichever of the three places stored the status             *)
(* (set_active_if_no_inputs_and_programs and the two mark_*_ready).          *)
ActiveAllReady == status = Active => Inputs \cup Programs \subseteq ready

(* When a controller that was Active declares itself Stopped, every output   *)
(* has made a whole round after the shutdown function: its device holds the  *)
(* last context, unless the send itself failed (output_last_sync read before *)
(* the body, mark_output_thread_stopped after it).                           *)
FinalSyncReachesDevices ==
  QuietFinalSync /\ mainPc \in FinalSync /\ status = Stopped
    => \A o \in Outputs : devCurrent[o] \/ sendFailed[o]

(* shutdown() never joins a thread that still waits in Loop::prepare: such a *)
(* thread would wait for a status that does not come back.                   *)
JoinNeverMeetsAGate ==
  mainPc = "join" => \A t \in Inputs \cup Programs : tpc[t] # "wait"

(* A controller whose devices answer becomes Active, if it is not told to    *)
(* stop first: no wait_can_run_*, and no reading of the maps, is stuck.      *)
StartupCompletes == mainPc = "loop" ~> (status = Active \/ termFlag)

(* A SIGTERM ends the process, from wherever it strikes. *)
ShutdownCompletes == termFlag ~> ~Alive

-----------------------------------------------------------------------------
(* The inductive invariant behind these promises, in parts.                 *)

InputPcs   == {"none", "wait", "run", "check", "tick", "finished"} \cup Marking
ProgramPcs == {"none", "wait", "gate", "run", "spawn", "check", "tick",
               "setActive", "finished"}
OutputPcs  == {"none", "wait", "gate", "run", "send", "mark", "finished"}

(* A thread stands where its kind may stand, and exists when registered. *)
PcInv ==
  /\ \A t \in InputThreads   : tpc[t] \in InputPcs
  /\ \A t \in ProgramThreads : tpc[t] \in ProgramPcs
  /\ \A t \in OutputThreads  : tpc[t] \in OutputPcs
  /\ \A t \in Threads : t \in registered <=> tpc[t] # "none"
  /\ mainPc \in BeforeSyncing => \A t \in registered : tpc[t] = "wait"

(* What the status may be while the main thread stands at each point. *)
StatusInv ==
  /\ mainPc = "setup"                => status = Inactive
  /\ mainPc = "launch"               => status = Starting
  /\ mainPc \in {"prep", "act", "loop", "stop", "abort"}
                                     => status \in {Syncing, Preparing, Active}
  /\ mainPc = "prep" /\ Inputs = {}  => status = Syncing
  /\ mainPc = "prepSet"              => status = Syncing /\ Inputs = {}
  /\ mainPc = "act" /\ Inputs = {} /\ Programs = {}
                                     => status = Preparing
  /\ mainPc = "shutdown"             => status = Active
  /\ mainPc \in {"join", "sfn", "final"} => status = Stopping
  /\ mainPc \in {"stopds", "waitStop"}   => status \in {StopSyncing, Stopped}
  /\ mainPc \in {"cleanup", "done"}      => status = Stopped
  /\ mainPc \in {"abortCleanup", "aborted"}
                                     => status \in {Preparing, Active, Stopped}

(* One thread at a time marks, and the status it is about to replace is the  *)
(* one before it, unless the controller has been declared Stopped meanwhile. *)
MarkInv ==
  /\ \A t, u \in Threads : tpc[t] \in Marking /\ tpc[u] \in Marking => t = u
  /\ \A t \in Threads : tpc[t] = "setPreparing" =>
       /\ status = Syncing \/ (mainPc \in Aborted \cup {"killed"} /\ status = Stopped)
       /\ Inputs \subseteq ready
  /\ \A t \in Threads : tpc[t] = "setActive" =>
       /\ status = Preparing \/ (mainPc \in Aborted \cup {"killed"} /\ status = Stopped)
       /\ Inputs \cup Programs \subseteq ready

(* The maps, their flags and the status agree. *)
ReadyInv ==
  /\ ready \subseteq marked /\ ready \subseteq registered
  /\ inputsReady => Inputs \subseteq ready
  /\ programsReady => Programs \subseteq ready
  /\ status \in {Preparing, Active} => Inputs \subseteq ready
  /\ status = Active => Programs \subseteq ready
  /\ \A p \in Programs : tpc[p] # "wait" => Inputs \subseteq ready
  /\ mainPc \in Shutdown => Inputs \cup Programs \subseteq ready
  /\ \A t \in ready : tpc[t] # "wait"

(* From the join on, with a shutdown function, the loops have ended. *)
QuitInv ==
  shutdownFn /\ mainPc \in AfterJoin
    => \A t \in Inputs \cup Programs : tpc[t] = "finished"

(* An output is in its final round only after the loops have ended, and its  *)
(* snapshot and its device keep up with a context nobody writes any more.    *)
OutputInv ==
  /\ \A o \in OutputThreads :
       /\ lastSync[o] => tpc[o] \in {"run", "send", "mark", "finished"}
       /\ lastSync[o] => mainPc \in FinalSync \cup {"killed"}
       /\ tpc[o] \in {"mark", "finished"} => lastSync[o]
       /\ QuietFinalSync /\ lastSync[o] =>
            /\ tpc[o] = "send" => snapCurrent[o]
            /\ tpc[o] \in {"mark", "finished"} => devCurrent[o] \/ sendFailed[o]
  /\ \A o \in outStopped : o \in Outputs /\ tpc[o] = "finished"
  /\ outputsStopped => Outputs \subseteq outStopped
  /\ shutdownFn /\ mainPc \in FinalSync /\ status = Stopped
       => Outputs \subseteq outStopped

Inv == PcInv /\ StatusInv /\ MarkInv /\ ReadyInv /\ QuitInv /\ OutputInv

(* What the status, the readiness maps and the positions of the threads say of *)
(* one another at every step of run() (set_status, mark_*_ready, shutdown).    *)
IndInv == TypeOK /\ Inv

-----------------------------------------------------------------------------
(* The abstract controller behind the threads.                              *)

PhaseOf(s) ==
  CASE s \in {Inactive, Starting} -> "configuring"
    [] s = Syncing     -> "syncing"
    [] s = Preparing   -> "preparing"
    [] s = Active      -> "active"
    [] s = Stopping    -> "stopping"
    [] s = StopSyncing -> "finalsync"
    [] s = Stopped     -> "stopped"

AbstractPhase ==
  IF mainPc = "killed" THEN "killed"
  ELSE IF mainPc \in Aborted THEN "aborted"
  ELSE PhaseOf(status)

L == INSTANCE Lifecycle WITH
       orderly <- shutdownFn,
       phase   <- AbstractPhase,
       members <- registered,
       ready   <- ready,
       quit    <- {t \in Inputs \cup Programs : tpc[t] = "finished"},
       synced  <- outStopped

(* The threads, with their one status word stored to from six places, keep   *)
(* the promises of Lifecycle: the status goes once through its values, in    *)
(* order, and each value is stored only when its condition holds.            *)
ImplementsLifecycle == L!Spec
=============================================================================
