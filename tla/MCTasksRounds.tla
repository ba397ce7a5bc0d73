--------------------------- MODULE MCTasksRounds ---------------------------
(* The instances of MCTasks, with the history of late rounds. *)
EXTENDS MCTasks, TasksRounds
=============================================================================
