----------------------------- MODULE PlcStatus -----------------------------
(***************************************************************************)
(* The controller status of src/src/tasks.rs: an i16 in one atomic, whose   *)
(* numeric order the code uses to decide which kinds of threads may run.    *)
(***************************************************************************)
EXTENDS Integers

Inactive    == 0
Starting    == 1
Syncing     == 2
Preparing   == 3
Active      == 100
Stopping    == -1
StopSyncing == -2
Stopped     == -100

Status == {Inactive, Starting, Syncing, Preparing, Active,
           Stopping, StopSyncing, Stopped}

(* When a thread of each kind may leave Loop::prepare. *)
CanRunInputs(s)   == s >= Syncing
CanRunProgramsEarly(s) == s >= Syncing     \* mutant
CanRunPrograms(s) == s >= Preparing
CanRunOutputs(s)  == s >= Preparing \/ s <= Stopping

(* When an input or program loop must break. *)
NeedStopLate(s) == s < Stopping            \* mutant
NeedStopAtStopping(s) == s = Stopping      \* mutant
NeedStop(s) == s <= Stopping

(* When an output loop takes its next round for the final one. *)
OutputLastSync(s) == s = StopSyncing

(* The threads of the controller may be spawned only before it runs. *)
CanSpawn(s) == s \in {Inactive, Starting}
=============================================================================
