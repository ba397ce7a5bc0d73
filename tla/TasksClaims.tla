---------------------------- MODULE TasksClaims ----------------------------
(***************************************************************************)
(* What the comments of src/src/tasks.rs say of the scheduler and the code  *)
(* does not do.  Each formula translates one comment; TLC refutes it.       *)
(***************************************************************************)
EXTENDS Tasks

(* "Stopped = -100, // outputs completed, PLC is stopped" (tasks.rs:110): it  *)
(* is the last status.  run() stores it when SIGTERM comes before Active, and *)
(* a thread inside mark_*_ready() may store Preparing or Active over it.      *)
StoppedIsLast == [][status = Stopped => status' = Stopped]_vars
=============================================================================
