----------------------------- MODULE Lifecycle -----------------------------
(***************************************************************************)
(* What a controller promises to the plant and to the author of a program,  *)
(* without threads, locks or a status word: it goes once through the phases *)
(*   configuring, syncing, preparing, active, stopping, finalsync, stopped, *)
(* opens each only when the members the phase depends on have done their    *)
(* part, and leaves this road in two ways only: it is aborted when it is    *)
(* told to stop before it is active, and killed when it does not stop in    *)
(* time.  Tasks implements this specification.                              *)
(***************************************************************************)
EXTENDS Naturals

CONSTANTS
  InputThreads, ProgramThreads, OutputThreads

VARIABLES
  phase,
  orderly,    \* the phases of the stop wait for the members they depend on
  members,    \* the threads the controller was configured with
  ready,      \* the inputs and programs that have made their first round
  quit,       \* the inputs and programs that have ended
  synced      \* the outputs that have made their final round

vars == <<phase, orderly, members, ready, quit, synced>>

Inputs   == members \cap InputThreads
Programs == members \cap ProgramThreads
Outputs  == members \cap OutputThreads

Init ==
  /\ phase = "configuring"
  /\ orderly = FALSE
  /\ members = {} /\ ready = {} /\ quit = {} /\ synced = {}

Configure(t) ==
  /\ phase = "configuring"
  /\ members' = members \cup {t}
  /\ UNCHANGED <<phase, orderly, ready, quit, synced>>

(* A shutdown function is given: something is to be done between the phases. *)
AskForOrder ==
  /\ phase = "configuring"
  /\ orderly' = TRUE
  /\ UNCHANGED <<phase, members, ready, quit, synced>>

(* A change of phase with nothing else to it. *)
Advance(from, to) ==
  /\ phase = from
  /\ phase' = to
  /\ UNCHANGED <<orderly, members, ready, quit, synced>>

OpenInputs     == Advance("configuring", "syncing")
OpenPrograms   == Inputs \subseteq ready /\ Advance("syncing", "preparing")
Activate       == Programs \subseteq ready /\ Advance("preparing", "active")
BeginStop      == Advance("active", "stopping")
BeginFinalSync == /\ orderly => Inputs \cup Programs \subseteq quit
                  /\ Advance("stopping", "finalsync")
Finish         == /\ orderly => Outputs \subseteq synced
                  /\ Advance("finalsync", "stopped")

(* A thread makes its first round only in the phase that waits for it. *)
FirstRound(t) ==
  /\ \/ t \in Inputs /\ phase = "syncing"
     \/ t \in Programs /\ phase = "preparing"
  /\ ready' = ready \cup {t}
  /\ UNCHANGED <<phase, orderly, members, quit, synced>>

Quit(t) ==
  /\ t \in Inputs \cup Programs
  /\ phase \in {"stopping", "finalsync", "stopped"}
  /\ quit' = quit \cup {t}
  /\ UNCHANGED <<phase, orderly, members, ready, synced>>

(* The last output to make its final round may end the final phase with it. *)
FinalRound(o) ==
  /\ o \in Outputs
  /\ phase \in {"finalsync", "stopped"}
  /\ synced' = synced \cup {o}
  /\ \/ UNCHANGED phase
     \/ Outputs \subseteq synced' /\ phase' = "stopped"
  /\ UNCHANGED <<orderly, members, ready, quit>>

Abort ==
  \/ Advance("syncing", "aborted")
  \/ Advance("preparing", "aborted")

Kill ==
  /\ phase # "killed"
  /\ phase' = "killed"
  /\ UNCHANGED <<orderly, members, ready, quit, synced>>

(* Of an aborted controller nothing is promised but that it stays aborted,   *)
(* keeps its members and synchronises no output.                             *)
Drift ==
  /\ phase = "aborted"
  /\ ready' \in SUBSET members
  /\ quit' \in SUBSET members
  /\ UNCHANGED <<phase, orderly, members, synced>>

Next ==
  \/ \E t \in InputThreads \cup ProgramThreads \cup OutputThreads :
       Configure(t) \/ FirstRound(t) \/ Quit(t) \/ FinalRound(t)
  \/ AskForOrder
  \/ OpenInputs \/ OpenPrograms \/ Activate
  \/ BeginStop \/ BeginFinalSync \/ Finish
  \/ Abort \/ Kill \/ Drift

Spec == Init /\ [][Next]_vars
=============================================================================
