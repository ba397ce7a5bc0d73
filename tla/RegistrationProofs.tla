------------------------- MODULE RegistrationProofs -------------------------
(***************************************************************************)
(* Proofs about Registration, for any number of commands, callers and       *)
(* instances of the PLC, and any number of things that go wrong.             *)
(***************************************************************************)
EXTENDS Registration, TLAPS

LEMMA Initial == Init => IndInv
<1> SUFFICES ASSUME Init PROVE IndInv
  OBVIOUS
<1> USE ProcessAssumption, RegistrationAssumption DEF Init, ProcessInit
<1>1. TypeOK
  BY DEF TypeOK, Instances, Phases, Pcs, Commands
<1>2. StepInv /\ AloneInv /\ KnowsInv
  BY DEF StepInv, AloneInv, KnowsInv, Alone
<1>3. ReportsAreTrue /\ FailuresHaveAReason
  BY DEF ReportsAreTrue, FailuresHaveAReason
<1> QED
  BY <1>1, <1>2, <1>3 DEF IndInv

-----------------------------------------------------------------------------
(* Types.                                                                   *)

LEMMA ProcessType ==
  ASSUME TypeOK, ProcessMoves PROVE TypeOK'
<1> USE ProcessAssumption DEF TypeOK, ProcessMoves, cliUnitVars, unitVars, svcVars, cliVars,
        fileVars, Move, Ends, Upset, Phases, Instances
<1>1. ASSUME NEW i \in Instances, ProcessStep(i) PROVE TypeOK'
  <2>1. CASE WritePid(i)
    BY <1>1, <2>1 DEF WritePid
  <2>2. CASE RemoveOldSocket(i)
    BY <1>1, <2>2 DEF RemoveOldSocket
  <2>3. CASE Bind(i)
    BY <1>1, <2>3 DEF Bind
  <2>4. CASE SeeSigterm(i)
    BY <1>1, <2>4 DEF SeeSigterm
  <2>5. CASE RemovePidFile(i)
    BY <1>1, <2>5 DEF RemovePidFile
  <2>6. CASE RemoveSocket(i)
    BY <1>1, <2>6 DEF RemoveSocket
  <2> QED
    BY <1>1, <2>1, <2>2, <2>3, <2>4, <2>5, <2>6 DEF ProcessStep
<1>2. ASSUME NEW i \in Instances, Crash(i) PROVE TypeOK'
  BY <1>2 DEF Crash
<1>3. ASSUME NEW i \in ByHand, RunByHand(i) PROVE TypeOK'
  BY <1>3 DEF RunByHand, Begins
<1>4. ASSUME NEW i \in ByHand, Interrupt(i) PROVE TypeOK'
  BY <1>4 DEF Interrupt, SignalTerm
<1> QED
  BY <1>1, <1>2, <1>3, <1>4

(* systemctl stops and starts the service of a well-typed state. *)
LEMMA TerminateType ==
  ASSUME TypeOK, TerminateService
  PROVE  /\ phase' \in [Instances -> Phases]
         /\ term' \subseteq {i \in Instances : phase'[i] # "off"}
         /\ UNCHANGED fileVars
BY ProcessAssumption DEF TypeOK, TerminateService, SignalTerm, Ends, Move, Instances, Phases

LEMMA CommandType ==
  ASSUME TypeOK, NEW c \in Clis, CommandStep(c) PROVE TypeOK'
<1> USE ProcessAssumption DEF unitVars, svcVars, cliVars, faultVars, procVars, fileVars, Goto,
        NoFault, Fault, Upset
<1>1. CASE Check(c)
  BY <1>1 DEF Check, TypeOK, Commands, Pcs
<1>2. CASE Stop(c)
  <2>1. TerminateService /\ want' = "stop" /\ UNCHANGED loaded
    BY <1>2 DEF Stop, AskStop
  <2> QED
    BY <1>2, <2>1, TerminateType DEF Stop, AfterStop, TypeOK, Pcs
<1>3. CASE StopFails(c)
  BY <1>3 DEF StopFails, AfterStop, TypeOK, Pcs
<1>4. CASE StopReturns(c)
  BY <1>4 DEF StopReturns, AfterStop, TypeOK, Pcs
<1>5. CASE Unregister(c)
  BY <1>5 DEF Unregister, TypeOK, Pcs
<1>6. CASE Disable(c)
  <2>1. enabled' \in BOOLEAN
    BY <1>6, Zenon DEF Disable, TypeOK
  <2>2. loaded' \in {unit, loaded}
    BY <1>6 DEF Disable, Reload
  <2>3. pc' \in [Clis -> Pcs]
    BY <1>6 DEF Disable, Unregistered, TypeOK, Pcs
  <2>4. /\ NoFault \/ Fault(c)
        /\ UNCHANGED <<procVars, unit, svcVars, cliVars, stopped>>
    BY <1>6, Zenon DEF Disable
  <2>5. pc[c] \in Pcs
    BY DEF TypeOK
  <2> QED
    BY <2>1, <2>2, <2>3, <2>4, <2>5 DEF TypeOK
<1>7. CASE Remove(c)
  BY <1>7 DEF Remove, Unregistered, TypeOK, Pcs
<1>8. CASE Write(c)
  BY <1>8 DEF Write, TypeOK, Pcs
<1>9. CASE Enable(c)
  <2>1. enabled' \in BOOLEAN
    BY <1>9, Zenon DEF Enable, TypeOK
  <2>2. loaded' \in {unit, loaded}
    BY <1>9 DEF Enable, Reload
  <2>3. pc' \in [Clis -> Pcs]
    BY <1>9 DEF Enable, TypeOK, Pcs
  <2> QED
    BY <1>9, <2>1, <2>2, <2>3 DEF Enable, TypeOK, Pcs
<1>10. CASE Undo(c)
  BY <1>10 DEF Undo, TypeOK, Pcs
<1>11. CASE Start(c)
  <2>1. CASE pc[c] = "start"
    BY <1>11, <2>1 DEF Start, AskStart, TypeOK, Pcs
  <2>2. CASE pc[c] = "restart"
    <3>1. TerminateService /\ want' = "run" /\ loaded' \in {unit, loaded}
      BY <1>11, <2>2 DEF Start, AskRestart
    <3> QED
      BY <1>11, <3>1, TerminateType DEF Start, TypeOK, Pcs
  <2> QED
    BY <1>11, <2>1, <2>2 DEF Start
<1>12. CASE StartFails(c)
  BY <1>12 DEF StartFails, TypeOK, Pcs
<1>13. CASE StartReturns(c)
  BY <1>13 DEF StartReturns, TypeOK, Pcs
<1> QED
  BY <1>1, <1>2, <1>3, <1>4, <1>5, <1>6, <1>7, <1>8, <1>9, <1>10, <1>11, <1>12, <1>13
     DEF CommandStep

LEMMA NextType == TypeOK /\ [Next]_vars => TypeOK'
<1> SUFFICES ASSUME TypeOK, [Next]_vars PROVE TypeOK'
  OBVIOUS
<1> USE ProcessAssumption, RegistrationAssumption
<1>1. ASSUME NEW c \in Clis, Begin(c) PROVE TypeOK'
  BY <1>1 DEF Begin, TypeOK, Idle, Pcs, Commands, procVars, fileVars, unitVars, svcVars
<1>2. ASSUME NEW c \in Clis, Killed(c) PROVE TypeOK'
  BY <1>2 DEF Killed, TypeOK, Fault, Upset, Goto, Pcs, procVars, fileVars, unitVars, svcVars,
              cliVars
<1>3. CASE Spawn
  BY <1>3 DEF Spawn, Begins, Move, TypeOK, Phases, Instances, fileVars, unitVars, cliVars,
              faultVars
<1>4. CASE UNCHANGED vars
  BY <1>4 DEF vars, TypeOK, procVars, fileVars, unitVars, svcVars, cliVars, faultVars
<1> QED
  BY <1>1, <1>2, <1>3, <1>4, CommandType, ProcessType DEF Next

-----------------------------------------------------------------------------
(* A command goes through its own steps, and keeps others from knowing less.  *)

LEMMA NextStep == TypeOK /\ StepInv /\ [Next]_vars => StepInv'
<1> SUFFICES ASSUME TypeOK, StepInv, [Next]_vars PROVE StepInv'
  OBVIOUS
<1> USE DEF TypeOK, StepInv
<1>1. ASSUME NEW c \in Clis, Begin(c) PROVE StepInv'
  BY <1>1 DEF Begin, Idle
<1>2. ASSUME NEW c \in Clis, Killed(c) PROVE StepInv'
  BY <1>2 DEF Killed, Goto, cliVars
<1>3. ASSUME NEW c \in Clis, CommandStep(c) PROVE StepInv'
  <2> USE DEF Goto, cliVars
  <2>1. CASE Check(c)
    BY <1>3, <2>1 DEF Check, Commands
  <2>2. CASE Stop(c) \/ StopFails(c) \/ StopReturns(c)
    BY <1>3, <2>2 DEF Stop, StopFails, StopReturns, AfterStop
  <2>3. CASE Unregister(c) \/ Disable(c) \/ Remove(c)
    <3>1. CASE Unregister(c)
      BY <1>3, <3>1 DEF Unregister, Unregistered
    <3>2. CASE Disable(c)
      BY <1>3, <3>2 DEF Disable, Unregistered
    <3>3. CASE Remove(c)
      BY <1>3, <3>3 DEF Remove, Unregistered
    <3> QED
      BY <2>3, <3>1, <3>2, <3>3
  <2>4. CASE Write(c) \/ Enable(c) \/ Undo(c)
    BY <1>3, <2>4 DEF Write, Enable, Undo
  <2>5. CASE Start(c) \/ StartFails(c) \/ StartReturns(c)
    BY <1>3, <2>5 DEF Start, StartFails, StartReturns
  <2> QED
    BY <1>3, <2>1, <2>2, <2>3, <2>4, <2>5 DEF CommandStep
<1>4. CASE Spawn \/ ProcessMoves \/ UNCHANGED vars
  BY <1>4 DEF Spawn, ProcessMoves, vars, cliUnitVars, cliVars
<1> QED
  BY <1>1, <1>2, <1>3, <1>4 DEF Next

(* Only the command that moves changes its place, and it is not idle. *)
LEMMA CommandMoves ==
  ASSUME TypeOK, NEW d \in Clis, CommandStep(d)
  PROVE  /\ pc[d] # "idle"
         /\ pc' = [pc EXCEPT ![d] = pc'[d]]
         /\ UNCHANGED cliVars
BY DEF TypeOK, CommandStep, Check, Stop, StopFails, StopReturns, Unregister, Disable, Remove,
       Write, Enable, Undo, Start, StartFails, StartReturns, Goto

LEMMA NextAlone == TypeOK /\ AloneInv /\ [Next]_vars => AloneInv'
<1> SUFFICES ASSUME TypeOK, AloneInv, [Next]_vars PROVE AloneInv'
  OBVIOUS
<1> USE DEF TypeOK, AloneInv, Alone
<1>1. ASSUME NEW c \in Clis, Begin(c) PROVE AloneInv'
  BY <1>1 DEF Begin, Idle
<1>2. ASSUME NEW c \in Clis, Killed(c) PROVE AloneInv'
  BY <1>2 DEF Killed, Goto, cliVars, Idle
<1>3. ASSUME NEW c \in Clis, CommandStep(c) PROVE AloneInv'
  BY <1>3, CommandMoves DEF cliVars
<1>4. CASE Spawn \/ ProcessMoves \/ UNCHANGED vars
  BY <1>4 DEF Spawn, ProcessMoves, vars, cliUnitVars, cliVars
<1> QED
  BY <1>1, <1>2, <1>3, <1>4 DEF Next

-----------------------------------------------------------------------------
(* What a command that is alone knows, step by step.                          *)

Knows(c) ==
  /\ KnowsUnit(c) /\ KnowsService(c)
  /\ pc[c] = "ok" => ReportIsTrue(c)
  /\ pc[c] = "err" => FailureHasAReason(c)

(* Stopping leaves a stopped service stopped. *)
LEMMA TerminateKeepsOff ==
  ASSUME TerminateService, phase[Service] = "off" PROVE phase'[Service] = "off"
BY DEF TerminateService

LEMMA CommandKnows ==
  ASSUME IndInv, NEW c \in Clis, CommandStep(c), Alone(c) PROVE Knows(c)'
<1>0. Knows(c) /\ TypeOK /\ StepInv
  BY DEF IndInv, KnowsInv, ReportsAreTrue, FailuresHaveAReason, Alone, Knows
<1> USE DEF Knows, KnowsUnit, KnowsService, ReportIsTrue, FailureHasAReason, Goto, cliVars,
        unitVars, svcVars, procVars, faultVars, NoFault, Fault
<1>1. CASE Check(c)
  BY <1>0, <1>1 DEF Check, TypeOK, Commands, Pcs
<1>2. CASE Stop(c)
  <2>1. TerminateService /\ want' = "stop" /\ UNCHANGED loaded
    BY <1>2 DEF Stop, AskStop
  <2> QED
    BY <1>0, <1>2, <2>1, TerminateKeepsOff DEF Stop, AfterStop, TypeOK, StepInv, Pcs
<1>3. CASE StopFails(c)
  BY <1>0, <1>3 DEF StopFails, AfterStop, TypeOK, StepInv, Pcs
<1>4. CASE StopReturns(c)
  BY <1>0, <1>4 DEF StopReturns, AfterStop, TypeOK, StepInv, Pcs
<1>5. CASE Unregister(c)
  BY <1>0, <1>5 DEF Unregister, TypeOK, StepInv
<1>6. CASE Disable(c)
  BY <1>0, <1>6 DEF Disable, Reload, Unregistered, TypeOK, StepInv, Pcs
<1>7. CASE Remove(c)
  BY <1>0, <1>7 DEF Remove, Unregistered, TypeOK, StepInv
<1>8. CASE Write(c)
  BY <1>0, <1>8 DEF Write, TypeOK, StepInv, Pcs
<1>9. CASE Enable(c)
  BY <1>0, <1>9 DEF Enable, Reload, TypeOK, StepInv, Pcs
<1>10. CASE Undo(c)
  BY <1>0, <1>10 DEF Undo, TypeOK, StepInv, Pcs
<1>11. CASE Start(c)
  BY <1>0, <1>11 DEF Start, AskStart, AskRestart, TypeOK, StepInv, Pcs
<1>12. CASE StartFails(c)
  BY <1>0, <1>12 DEF StartFails, TypeOK, StepInv, Pcs
<1>13. CASE StartReturns(c)
  BY <1>0, <1>13 DEF StartReturns, TypeOK, StepInv, Pcs
<1> QED
  BY <1>1, <1>2, <1>3, <1>4, <1>5, <1>6, <1>7, <1>8, <1>9, <1>10, <1>11, <1>12, <1>13
     DEF CommandStep

(* Nothing but systemd starts the service. *)
LEMMA OffStaysOff ==
  ASSUME TypeOK, ProcessMoves, phase[Service] = "off" PROVE phase'[Service] = "off"
<1> USE ProcessAssumption DEF TypeOK, Instances, Move, Ends
<1>1. ASSUME NEW i \in Instances, ProcessStep(i) PROVE phase'[Service] = "off"
  BY <1>1 DEF ProcessStep, WritePid, RemoveOldSocket, Bind, SeeSigterm, RemovePidFile,
              RemoveSocket
<1>2. ASSUME NEW i \in Instances, Crash(i) PROVE phase'[Service] = "off"
  BY <1>2 DEF Crash
<1>3. ASSUME NEW i \in ByHand, RunByHand(i) PROVE phase'[Service] = "off"
  BY <1>3 DEF RunByHand, Begins
<1>4. ASSUME NEW i \in ByHand, Interrupt(i) PROVE phase'[Service] = "off"
  BY <1>4 DEF Interrupt, SignalTerm
<1> QED
  BY <1>1, <1>2, <1>3, <1>4 DEF ProcessMoves

LEMMA NextKnows ==
  ASSUME IndInv, [Next]_vars, NEW c \in Clis, Alone(c)' PROVE Knows(c)'
<1> USE DEF Knows, KnowsUnit, KnowsService, ReportIsTrue, FailureHasAReason, Alone
<1>0. TypeOK /\ StepInv /\ AloneInv /\ (Alone(c) => Knows(c))
  BY DEF IndInv, KnowsInv, ReportsAreTrue, FailuresHaveAReason
<1>1. ASSUME NEW d \in Clis, Begin(d) PROVE Knows(c)'
  <2>1. c = d
    BY <1>1 DEF Begin
  <2> QED
    BY <1>0, <1>1, <2>1 DEF Begin, Idle, TypeOK
<1>2. ASSUME NEW d \in Clis, Killed(d) PROVE Knows(c)'
  <2>1. Alone(c) /\ c # d
    BY <1>0, <1>2 DEF Killed, Goto, TypeOK, cliVars
  <2>2. pc[d] = "idle"
    BY <1>0, <2>1 DEF AloneInv
  <2> QED
    BY <1>2, <2>2 DEF Killed, Idle
<1>3. ASSUME NEW d \in Clis, CommandStep(d) PROVE Knows(c)'
  <2>1. pc[d] # "idle" /\ pc' = [pc EXCEPT ![d] = pc'[d]] /\ UNCHANGED cliVars
    BY <1>0, <1>3, CommandMoves
  <2>2. Alone(c) /\ c = d
    BY <1>0, <2>1 DEF TypeOK, AloneInv, cliVars
  <2> QED
    BY <1>3, <2>2, CommandKnows
<1>4. CASE Spawn
  BY <1>0, <1>4 DEF Spawn, Begins, unitVars, cliVars, faultVars
<1>5. CASE ProcessMoves
  BY <1>0, <1>5, OffStaysOff DEF ProcessMoves, cliUnitVars, unitVars, svcVars, cliVars
<1>6. CASE UNCHANGED vars
  BY <1>0, <1>6 DEF vars, procVars, unitVars, svcVars, cliVars, faultVars
<1> QED
  BY <1>1, <1>2, <1>3, <1>4, <1>5, <1>6 DEF Next

LEMMA Inductive == IndInv /\ [Next]_vars => IndInv'
<1> SUFFICES ASSUME IndInv, [Next]_vars PROVE IndInv'
  OBVIOUS
<1>1. TypeOK' /\ StepInv' /\ AloneInv'
  BY NextType, NextStep, NextAlone DEF IndInv
<1>2. KnowsInv' /\ ReportsAreTrue' /\ FailuresHaveAReason'
  BY NextKnows DEF Knows, Alone, KnowsInv, ReportsAreTrue, FailuresHaveAReason
<1> QED
  BY <1>1, <1>2 DEF IndInv

-----------------------------------------------------------------------------
(* The invariant of the commands holds in every reachable state (register,    *)
(* unregister, start, stop, restart).                                         *)
THEOREM Invariance == Spec => []IndInv
BY Initial, Inductive, PTL DEF Spec

(* What a command that no other has overlapped reports is so, for any number   *)
(* of commands and of failures before it (client::register and the others).    *)
THEOREM ReportsHold == Spec => []ReportsAreTrue
<1>1. IndInv => ReportsAreTrue
  BY DEF IndInv
<1> QED
  BY <1>1, Invariance, PTL

(* A command that no other has overlapped fails by a fault of its own or for   *)
(* the reason it gives; register --force never by what others have left.       *)
THEOREM FailuresAreExplained == Spec => []FailuresHaveAReason
<1>1. IndInv => FailuresHaveAReason
  BY DEF IndInv
<1> QED
  BY <1>1, Invariance, PTL
=============================================================================
