----------------------------- MODULE PlcProcess -----------------------------
(***************************************************************************)
(* The traces a PLC process leaves in its var_dir, src/src/lib.rs and        *)
(* src/src/api.rs: run() writes the pid file and binds the API socket on its *)
(* way up, and removes both on its way out.  A process that panics, is killed *)
(* or runs into its stop timeout leaves them behind.                         *)
(*                                                                         *)
(* One instance is the service systemd runs; others are started by hand, in  *)
(* the same var_dir unless PLC_VAR_DIR says otherwise.                       *)
(***************************************************************************)
EXTENDS Naturals

CONSTANTS
  Service,     \* the instance systemd runs
  ByHand,      \* instances a developer runs
  Nobody,
  MaxUpsets    \* bound: crashes, runs by hand and failed steps of commands in all

Instances == {Service} \cup ByHand

ASSUME ProcessAssumption ==
  /\ Service \notin ByHand
  /\ Nobody \notin Instances
  /\ MaxUpsets \in Nat

VARIABLES
  phase,     \* where an instance stands in run()
  term,      \* the instances that have received a SIGTERM
  pidFile,   \* whose pid the file holds
  socket,    \* who has bound the socket file
  upsets     \* how much of MaxUpsets has been used

fileVars == <<pidFile, socket>>
procVars == <<phase, term, fileVars>>

Phases == {"off", "boot", "unlink", "bind", "up", "unpid", "unsock"}

Move(i, p) == phase' = [phase EXCEPT ![i] = p]

ProcessInit ==
  /\ phase = [i \in Instances |-> "off"]
  /\ term = {}
  /\ pidFile = Nobody
  /\ socket = Nobody
  /\ upsets = 0

Upset == upsets < MaxUpsets /\ upsets' = upsets + 1

(* The end of a process, however it ends. *)
Ends(i) == Move(i, "off") /\ term' = term \ {i}

Crash(i) ==
  /\ phase[i] # "off"
  /\ Upset
  /\ Ends(i)
  /\ UNCHANGED fileVars

-----------------------------------------------------------------------------
(* run(), from the start of the threads to the removal of the files.  The    *)
(* signal handlers only set a flag, which is looked at once run() is up.      *)

WritePid(i) ==
  /\ phase[i] = "boot"
  /\ pidFile' = i
  /\ Move(i, "unlink")
  /\ UNCHANGED <<term, socket, upsets>>

(* Mutant: the old socket stays. *)
KeepSocket(i) ==
  /\ phase[i] = "unlink"
  /\ Move(i, "bind")
  /\ UNCHANGED <<term, fileVars, upsets>>

(* spawn_api() removes what a predecessor has left, or still uses. *)
RemoveOldSocket(i) ==
  /\ phase[i] = "unlink"
  /\ socket' = Nobody
  /\ Move(i, "bind")
  /\ UNCHANGED <<term, pidFile, upsets>>

(* bind() fails if the file exists; the unwrap() then ends the process. *)
Bind(i) ==
  /\ phase[i] = "bind"
  /\ IF socket = Nobody
       THEN socket' = i /\ Move(i, "up") /\ UNCHANGED term
       ELSE Ends(i) /\ UNCHANGED socket
  /\ UNCHANGED <<pidFile, upsets>>

SeeSigterm(i) ==
  /\ phase[i] = "up"
  /\ i \in term
  /\ Move(i, "unpid")
  /\ UNCHANGED <<term, fileVars, upsets>>

(* remove_file().unwrap(): a file that is gone is a panic. *)
RemovePidFile(i) ==
  /\ phase[i] = "unpid"
  /\ IF pidFile = Nobody
       THEN Ends(i)
       ELSE Move(i, "unsock") /\ UNCHANGED term
  /\ pidFile' = Nobody
  /\ UNCHANGED <<socket, upsets>>

RemoveSocket(i) ==
  /\ phase[i] = "unsock"
  /\ Ends(i)
  /\ socket' = Nobody
  /\ UNCHANGED <<pidFile, upsets>>

ProcessStep(i) ==
  \/ WritePid(i) \/ RemoveOldSocket(i) \/ Bind(i)
  \/ SeeSigterm(i) \/ RemovePidFile(i) \/ RemoveSocket(i)

-----------------------------------------------------------------------------
(* A process starts, and receives a SIGTERM: register_signals() comes after   *)
(* the first steps of run(), and before it the signal ends the process.       *)

Begins(i) == phase[i] = "off" /\ Move(i, "boot")

SignalTerm(i) ==
  \/ UNCHANGED phase /\ term' = term \cup {i}
  \/ phase[i] = "boot" /\ Ends(i)

RunByHand(i) ==
  /\ Upset
  /\ Begins(i)
  /\ UNCHANGED <<term, fileVars>>

Interrupt(i) ==
  /\ phase[i] # "off" /\ i \notin term
  /\ SignalTerm(i)
  /\ UNCHANGED <<fileVars, upsets>>

(* What plc_socket_path() and api_call() find: the socket file, and a process *)
(* that accepts connections on it.                                           *)
ApiAnswers(i) == socket = i /\ phase[i] \in {"up", "unpid", "unsock"}
=============================================================================
