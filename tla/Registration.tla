---------------------------- MODULE Registration ----------------------------
(***************************************************************************)
(* The command line, src/src/cli.rs and src/src/client/mod.rs, against        *)
(* systemd: register, unregister, start, stop and restart of one PLC.  A      *)
(* command is a sequence of file operations and calls of systemctl, any of    *)
(* which may fail, having done its work or not; two commands may run at once. *)
(*                                                                         *)
(* systemd is external: a unit with Restart=always, which is started again    *)
(* whenever its process ends and nobody has asked to stop it.                 *)
(***************************************************************************)
EXTENDS PlcProcess, FiniteSets

CONSTANTS
  Clis,         \* who runs commands
  MaxCommands   \* bound: commands in all

ASSUME RegistrationAssumption == MaxCommands \in Nat \ {0}

VARIABLES
  unit,        \* the unit file: which command wrote it, 0 if there is none
  enabled,     \* the link to it in multi-user.target.wants
  loaded,      \* the unit file as systemd has read it
  want,        \* what systemd has been asked for last
  runs,        \* the unit the process of the service was started with
  pc,          \* where a command stands
  cmd,         \* which command that is
  mine,        \* its number
  begun,       \* how many commands there have been
  overlapped,  \* history: the commands during which another one ran
  faulted,     \* history: which steps of which commands have failed
  stopped      \* history: the commands that have stopped the service

unitVars == <<unit, enabled, loaded>>
svcVars == <<want, runs>>
cliVars == <<cmd, mine, begun, overlapped>>
faultVars == <<upsets, faulted>>
cliUnitVars == <<unitVars, svcVars, pc, cliVars, faulted, stopped>>
vars == <<procVars, unitVars, svcVars, pc, cliVars, faultVars, stopped>>

Commands == {"register", "forced", "unregister", "start", "stop", "restart"}

Pcs == {"idle", "check", "preStop", "preStopping", "unregister", "stop", "stopping",
        "disable", "remove", "write", "enable", "undo", "start", "starting",
        "restart", "ok", "err"}

Idle(c) == pc[c] \in {"idle", "ok", "err"}

Goto(c, p) == pc' = [pc EXCEPT ![c] = p]

(* What earlier commands, counted as the first one, have left: steps that have  *)
(* failed leave the unit without the link, and the link without the unit.      *)
Init ==
  /\ ProcessInit
  /\ unit \in {0, 1} /\ enabled \in BOOLEAN /\ loaded = 1
  /\ want \in IF unit = 1 /\ enabled THEN {"run", "stop"} ELSE {"stop"}
  /\ runs = 1
  /\ pc = [c \in Clis |-> "idle"]
  /\ cmd = [c \in Clis |-> "stop"]
  /\ mine = [c \in Clis |-> 0]
  /\ begun = 1
  /\ overlapped = {} /\ faulted = {} /\ stopped = {}

-----------------------------------------------------------------------------
(* systemctl, as far as the commands go.  enable and disable make systemd     *)
(* read the unit files again; so does a start of a unit that does not run.  A *)
(* unit whose file is gone is taken to be unknown to systemctl.               *)

Reload == loaded' = IF unit = 0 THEN loaded ELSE unit

(* Mutant: the signal is sent, and remembered, without a process. *)
TerminateAlways == SignalTerm(Service) /\ UNCHANGED fileVars

TerminateService ==
  /\ IF phase[Service] = "off" THEN UNCHANGED <<phase, term>> ELSE SignalTerm(Service)
  /\ UNCHANGED fileVars

AskStop == want' = "stop" /\ UNCHANGED loaded /\ TerminateService

AskStart ==
  /\ want' = "run"
  /\ loaded' = IF phase[Service] = "off" THEN unit ELSE loaded
  /\ UNCHANGED procVars

AskRestart ==
  /\ want' = "run"
  /\ loaded' = IF phase[Service] = "off" THEN unit ELSE loaded
  /\ TerminateService

(* The process of the service, started when asked and again, a second later,   *)
(* whenever it has ended.                                                      *)
Spawn ==
  /\ want = "run"
  /\ Begins(Service)
  /\ runs' = loaded
  /\ UNCHANGED <<term, fileVars, want, unitVars, pc, cliVars, faultVars, stopped>>

-----------------------------------------------------------------------------
(* The steps of a command.  One that fails may have done its work: systemctl   *)
(* has exited with an error, or not in time.                                   *)

Fault(c) ==
  /\ Upset
  /\ faulted' = faulted \cup {<<c, pc[c]>>}

NoFault == UNCHANGED faultVars

(* What a finished command has reported is forgotten when the next one begins. *)
Begin(c) ==
  /\ Idle(c) /\ begun < MaxCommands
  /\ begun' = begun + 1
  /\ LET live == {d \in Clis : ~Idle(d)} IN
       /\ pc' = [d \in Clis |-> IF d = c THEN "check" ELSE IF d \in live THEN pc[d] ELSE "idle"]
       /\ mine' = [d \in Clis |-> IF d = c THEN begun + 1 ELSE IF d \in live THEN mine[d] ELSE 0]
       /\ \E k \in Commands :
            cmd' = [d \in Clis |-> IF d = c THEN k ELSE IF d \in live THEN cmd[d] ELSE "stop"]
       /\ overlapped' = IF live = {} THEN {} ELSE live \cup {c}
       /\ faulted' = {f \in faulted : f[1] \in live}
       /\ stopped' = stopped \cap live
  /\ UNCHANGED <<procVars, upsets, unitVars, svcVars>>

(* The command is killed, with Ctrl-C say; what it has asked for goes on. *)
Killed(c) ==
  /\ ~Idle(c)
  /\ Fault(c)
  /\ Goto(c, "idle")
  /\ UNCHANGED <<procVars, unitVars, svcVars, cliVars, stopped>>

(* su_path.exists(), and systemd_service_checked(). *)
Check(c) ==
  /\ pc[c] = "check"
  /\ IF cmd[c] \in {"register", "forced"}
       THEN \/ unit = 0 /\ Goto(c, "write")
            \/ unit # 0 /\ Goto(c, IF cmd[c] = "forced" THEN "preStop" ELSE "err")
       ELSE \/ unit = 0 /\ Goto(c, "err")
            \/ unit # 0 /\ Goto(c, IF cmd[c] = "unregister" THEN "stop" ELSE cmd[c])
  /\ UNCHANGED <<procVars, unitVars, svcVars, cliVars, faultVars, stopped>>

(* stop() before unregister() in register(), by unregister(), or as a command:  *)
(* only the last cares for the result.                                         *)
AfterStop(c, result) ==
  IF pc[c] \in {"preStop", "preStopping"} THEN "unregister"
  ELSE IF cmd[c] = "stop" THEN result ELSE "disable"

Stop(c) ==
  /\ pc[c] \in {"preStop", "stop"}
  /\ unit # 0
  /\ AskStop
  /\ \/ NoFault /\ Goto(c, IF pc[c] = "stop" THEN "stopping" ELSE "preStopping")
     \/ Fault(c) /\ Goto(c, AfterStop(c, "err"))
  /\ UNCHANGED <<unit, enabled, runs, cliVars, stopped>>

StopFails(c) ==
  /\ pc[c] \in {"preStop", "stop", "preStopping", "stopping"}
  /\ IF unit = 0 /\ pc[c] \in {"preStop", "stop"} THEN NoFault ELSE Fault(c)
  /\ Goto(c, AfterStop(c, "err"))
  /\ UNCHANGED <<procVars, unitVars, svcVars, cliVars, stopped>>

(* systemctl stop returns: the process has ended, or somebody starts it again.  *)
StopReturns(c) ==
  /\ pc[c] \in {"preStopping", "stopping"}
  /\ \/ /\ phase[Service] = "off" /\ want = "stop"
        /\ stopped' = stopped \cup {c}
        /\ Goto(c, AfterStop(c, "ok"))
     \/ /\ want # "stop"
        /\ UNCHANGED stopped
        /\ Goto(c, AfterStop(c, "err"))
  /\ UNCHANGED <<procVars, unitVars, svcVars, cliVars, faultVars>>

(* unregister(), in register(). *)
Unregister(c) ==
  /\ pc[c] = "unregister"
  /\ Goto(c, IF unit = 0 THEN "write" ELSE "stop")
  /\ UNCHANGED <<procVars, unitVars, svcVars, cliVars, faultVars, stopped>>

(* The result of unregister(): register() ignores it. *)
Unregistered(c, result) == IF cmd[c] = "forced" THEN "write" ELSE result

(* Mutant: unregister() ignores that disabling has failed. *)
DisableAnyway(c) ==
  /\ pc[c] = "disable"
  /\ \/ NoFault /\ enabled' = FALSE
     \/ Fault(c) /\ enabled' \in {enabled, FALSE}
  /\ Goto(c, "remove")
  /\ Reload
  /\ UNCHANGED <<procVars, unit, svcVars, cliVars, stopped>>

Disable(c) ==
  /\ pc[c] = "disable"
  /\ \/ NoFault /\ unit # 0 /\ enabled' = FALSE /\ Reload /\ Goto(c, "remove")
     \/ /\ NoFault /\ unit = 0 /\ Goto(c, Unregistered(c, "err"))
        /\ enabled' \in {enabled, FALSE} /\ UNCHANGED loaded
     \/ /\ Fault(c) /\ Goto(c, Unregistered(c, "err"))
        /\ \/ UNCHANGED <<enabled, loaded>>
           \/ enabled' = FALSE /\ Reload
  /\ UNCHANGED <<procVars, unit, svcVars, cliVars, stopped>>

Remove(c) ==
  /\ pc[c] = "remove"
  /\ unit' = 0
  /\ Goto(c, Unregistered(c, IF unit = 0 THEN "err" ELSE "ok"))
  /\ UNCHANGED <<procVars, enabled, loaded, svcVars, cliVars, faultVars, stopped>>

(* A write that fails may have made the file. *)
Write(c) ==
  /\ pc[c] = "write"
  /\ \/ NoFault /\ unit' = mine[c] /\ Goto(c, "enable")
     \/ Fault(c) /\ unit' \in {unit, mine[c]} /\ Goto(c, "err")
  /\ UNCHANGED <<procVars, enabled, loaded, svcVars, cliVars, stopped>>

Enable(c) ==
  /\ pc[c] = "enable"
  /\ \/ /\ NoFault /\ unit # 0 /\ enabled' = TRUE /\ Reload
        /\ Goto(c, IF cmd[c] = "forced" THEN "start" ELSE "ok")
     \/ NoFault /\ unit = 0 /\ UNCHANGED <<enabled, loaded>> /\ Goto(c, "undo")
     \/ /\ Fault(c) /\ Goto(c, "undo")
        /\ \/ UNCHANGED <<enabled, loaded>>
           \/ enabled' = TRUE /\ Reload
  /\ UNCHANGED <<procVars, unit, svcVars, cliVars, stopped>>

(* Mutant: the unit stays. *)
UndoNothing(c) ==
  /\ pc[c] = "undo"
  /\ Goto(c, "err")
  /\ UNCHANGED <<procVars, unitVars, svcVars, cliVars, faultVars, stopped>>

(* A unit that could not be enabled is removed again. *)
Undo(c) ==
  /\ pc[c] = "undo"
  /\ unit' = 0
  /\ Goto(c, "err")
  /\ UNCHANGED <<procVars, enabled, loaded, svcVars, cliVars, faultVars, stopped>>

(* start() and restart(): with --force, main() starts what it has registered.   *)
Start(c) ==
  /\ pc[c] \in {"start", "restart"}
  /\ unit # 0
  /\ IF pc[c] = "start" THEN AskStart ELSE AskRestart
  /\ \/ NoFault /\ Goto(c, "starting")
     \/ Fault(c) /\ Goto(c, "err")
  /\ UNCHANGED <<unit, enabled, runs, cliVars, stopped>>

StartFails(c) ==
  /\ pc[c] \in {"start", "restart", "starting"}
  /\ IF unit = 0 /\ pc[c] # "starting" THEN NoFault ELSE Fault(c)
  /\ Goto(c, "err")
  /\ UNCHANGED <<procVars, unitVars, svcVars, cliVars, stopped>>

StartReturns(c) ==
  /\ pc[c] = "starting"
  /\ \/ phase[Service] # "off" /\ Service \notin term /\ Goto(c, "ok")
     \/ want # "run" /\ Goto(c, "err")
  /\ UNCHANGED <<procVars, unitVars, svcVars, cliVars, faultVars, stopped>>

-----------------------------------------------------------------------------
CommandStep(c) ==
  \/ Check(c) \/ Stop(c) \/ StopFails(c) \/ StopReturns(c) \/ Unregister(c)
  \/ Disable(c) \/ Remove(c) \/ Write(c) \/ Enable(c) \/ Undo(c)
  \/ Start(c) \/ StartFails(c) \/ StartReturns(c)

ProcessMoves ==
  /\ \/ \E i \in Instances : ProcessStep(i) \/ Crash(i)
     \/ \E i \in ByHand : RunByHand(i) \/ Interrupt(i)
  /\ UNCHANGED cliUnitVars

Next ==
  \/ \E c \in Clis : Begin(c) \/ CommandStep(c) \/ Killed(c)
  \/ Spawn
  \/ ProcessMoves

Spec == Init /\ [][Next]_vars

(* A process runs, and systemd starts what it has been asked for.  Nothing is   *)
(* assumed of commands, signals and crashes.                                   *)
Fairness ==
  /\ WF_vars(Spawn)
  /\ \A i \in Instances :
       WF_vars(ProcessStep(i) /\ UNCHANGED cliUnitVars)

FairSpec == Spec /\ Fairness

-----------------------------------------------------------------------------
TypeOK ==
  /\ phase \in [Instances -> Phases] /\ term \subseteq {i \in Instances : phase[i] # "off"}
  /\ pidFile \in Instances \cup {Nobody} /\ socket \in Instances \cup {Nobody}
  /\ upsets \in 0 .. MaxUpsets
  /\ unit \in 0 .. begun /\ enabled \in BOOLEAN /\ loaded \in 0 .. begun
  /\ want \in {"run", "stop"} /\ runs \in 0 .. begun
  /\ pc \in [Clis -> Pcs] /\ cmd \in [Clis -> Commands]
  /\ mine \in [Clis -> 0 .. begun] /\ begun \in 1 .. MaxCommands
  /\ overlapped \subseteq Clis /\ faulted \subseteq Clis \X Pcs /\ stopped \subseteq Clis

ReportIsTrue(c) ==
  /\ cmd[c] \in {"register", "forced"} => unit = mine[c] /\ enabled
  /\ cmd[c] = "forced" /\ c \in stopped /\ phase[Service] # "off" => runs = mine[c]
  /\ cmd[c] = "unregister" =>
       /\ unit = 0 /\ ~enabled
       /\ c \in stopped => phase[Service] = "off"
  /\ cmd[c] = "stop" => want = "stop" /\ phase[Service] = "off"
  /\ cmd[c] \in {"start", "restart", "forced"} => want = "run"

(* What a command has reported is so, whatever earlier commands have left half  *)
(* done, as long as no other command has run since it began (client::register   *)
(* and the others):                                                            *)
(*   - what is registered is the unit of this command, and enabled; when the    *)
(*     command has also stopped and started the service, that unit runs;        *)
(*   - what is unregistered has no unit and no link, and when it could be        *)
(*     stopped, does not run;                                                   *)
(*   - what is stopped does not run and is not started again.                    *)
ReportsAreTrue ==
  \A c \in Clis : pc[c] = "ok" /\ c \notin overlapped => ReportIsTrue(c)

FailureHasAReason(c) ==
  IF \E p \in Pcs : <<c, p>> \in faulted
    THEN <<c, "enable">> \in faulted => unit = 0
    ELSE /\ cmd[c] # "forced"
         /\ unit = 0 <=> cmd[c] # "register"

(* A command fails by a fault of its own, or for the reason it gives: that the  *)
(* PLC is registered, or is not.  So what a fault, a kill or another command    *)
(* has left can always be repaired by register --force; and a registration      *)
(* whose enabling has failed leaves no unit.                                   *)
FailuresHaveAReason ==
  \A c \in Clis : pc[c] = "err" /\ c \notin overlapped => FailureHasAReason(c)

-----------------------------------------------------------------------------
(* The inductive invariant: what a command knows at each of its steps.        *)

StepInv ==
  \A c \in Clis :
    /\ pc[c] # "idle" => mine[c] # 0
    /\ pc[c] \in {"preStop", "preStopping", "unregister"} => cmd[c] = "forced"
    /\ pc[c] \in {"stop", "stopping"} => cmd[c] \in {"forced", "unregister", "stop"}
    /\ pc[c] \in {"disable", "remove"} => cmd[c] \in {"forced", "unregister"}
    /\ pc[c] \in {"write", "enable", "undo"} => cmd[c] \in {"register", "forced"}
    /\ pc[c] = "start" => cmd[c] \in {"start", "forced"}
    /\ pc[c] = "restart" => cmd[c] = "restart"
    /\ pc[c] = "starting" => cmd[c] \in {"start", "restart", "forced"}

(* A command during which no other has run is the only one there is. *)
Alone(c) == pc[c] # "idle" /\ c \notin overlapped

AloneInv == \A c \in Clis : Alone(c) => \A d \in Clis \ {c} : pc[d] = "idle"

(* Of such a command: what it has made of the unit and its link, *)
KnowsUnit(c) ==
  /\ pc[c] \in {"preStop", "preStopping", "unregister", "stop", "stopping", "disable",
                 "remove", "start", "starting", "restart"} => unit # 0
  /\ pc[c] = "remove" => ~enabled
  /\ pc[c] = "enable" => unit = mine[c]
  /\ pc[c] \in {"start", "starting"} /\ cmd[c] = "forced" => unit = mine[c] /\ enabled
  /\ pc[c] = "undo" => <<c, "enable">> \in faulted
  /\ <<c, "enable">> \in faulted => pc[c] \in {"undo", "err"}
  /\ pc[c] = "check" => \A p \in Pcs : <<c, p>> \notin faulted

(* and of the service, once it has stopped it. *)
KnowsService(c) ==
  /\ pc[c] \in {"stopping", "preStopping"} => want = "stop"
  /\ pc[c] = "starting" => want = "run"
  /\ pc[c] \in {"check", "preStop", "preStopping"} => c \notin stopped
  /\ c \in stopped =>
       /\ pc[c] \in {"unregister", "stop", "stopping", "disable", "remove", "write",
                      "enable", "start"} \/ (pc[c] = "ok" /\ cmd[c] = "unregister")
            => want = "stop" /\ phase[Service] = "off"
       /\ pc[c] \in {"starting", "ok"} /\ cmd[c] = "forced" =>
            /\ loaded = mine[c]
            /\ phase[Service] # "off" => runs = mine[c]

KnowsInv == \A c \in Clis : Alone(c) => KnowsUnit(c) /\ KnowsService(c)

(* What a command reports is what the invariant makes of its last step        *)
(* (register, unregister, start, stop, restart).                              *)
IndInv ==
  /\ TypeOK /\ StepInv /\ AloneInv /\ KnowsInv
  /\ ReportsAreTrue /\ FailuresHaveAReason

-----------------------------------------------------------------------------
(* A service that systemd is asked to run gets its API socket, whatever files   *)
(* crashed processes and others have left (spawn_api, run).                     *)
ServiceComesUp ==
  want = "run" /\ phase[Service] # "up" ~> ApiAnswers(Service) \/ want # "run"
=============================================================================
