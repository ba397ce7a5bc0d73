---------------------------- MODULE TasksRounds ----------------------------
(***************************************************************************)
(* Tasks with a history of the rounds that inputs and programs still end    *)
(* while the controller shuts down.  The history records and restricts       *)
(* nothing: every behaviour of Tasks is one of RoundsSpec, and back.         *)
(***************************************************************************)
EXTENDS TasksProperties

VARIABLE lateRounds  \* the rounds a loop has ended since shutdown() stored Stopping

roundsVars == <<vars, lateRounds>>

(* Where the main thread stands once shutdown() has stored Stopping. *)
AfterStopping == {"join"} \cup AfterJoin

EndsRound(t) == tpc[t] = "run" /\ tpc'[t] = "check"

RoundsInit ==
  /\ Init
  /\ lateRounds = [t \in InputThreads \cup ProgramThreads |-> 0]

RoundsNext ==
  /\ Next
  /\ lateRounds' = [t \in InputThreads \cup ProgramThreads |->
                      IF mainPc \in AfterStopping /\ EndsRound(t)
                      THEN lateRounds[t] + 1 ELSE lateRounds[t]]

RoundsSpec == RoundsInit /\ [][RoundsNext]_roundsVars

FairRoundsSpec == RoundsSpec /\ Fairness

-----------------------------------------------------------------------------
(* Once Stopping is stored, an input or a program ends one round at most, the  *)
(* one it was in or was about to begin, and so writes the context once more at *)
(* most.  Without a shutdown function nobody waits for it: the main thread     *)
(* goes on to StopSyncing and Stopped, and the loop must stop at any of these, *)
(* whatever else threads have stored to STATUS (shutdown, need_stop).          *)
OneLateRoundAtMost == \A t \in InputThreads \cup ProgramThreads : lateRounds[t] <= 1

(* After its late round a loop has nothing left but to find out that it stops. *)
RoundsInv ==
  /\ lateRounds \in [InputThreads \cup ProgramThreads -> 0 .. 1]
  /\ \A t \in InputThreads \cup ProgramThreads : lateRounds[t] # 0 =>
       /\ mainPc \in AfterStopping \cup {"killed"}
       /\ tpc[t] \in {"check", "finished"}
=============================================================================
