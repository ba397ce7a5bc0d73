---------------------------- MODULE StatusGate -----------------------------
(***************************************************************************)
(* set_status() and the three wait_can_run_*() of src/src/tasks.rs, step by *)
(* step.  A waiter looks at STATUS without the mutex and takes the mutex    *)
(* only to sleep on STATUS_CHANGED, so a status stored in between is        *)
(* notified to nobody.  What saves the waiter is the time-out WAIT_STEP:    *)
(* it looks again.  Tasks takes a wait for one step (WaitCanRun); this      *)
(* module shows what that step costs and that it happens.                   *)
(*                                                                         *)
(* STATUS_MUTEX and STATUS_CHANGED are parking_lot's: a wait gives up the   *)
(* mutex and falls asleep at once, and holds the mutex again on waking.     *)
(***************************************************************************)
EXTENDS PlcStatus

CONSTANTS
  InputWaiters, ProgramWaiters, OutputWaiters,   \* threads in Loop::prepare
  Setters,                                       \* threads that set the status
  None

Waiters == InputWaiters \cup ProgramWaiters \cup OutputWaiters

ASSUME GateAssumption ==
  /\ Waiters \cap Setters = {}
  /\ None \notin Waiters \cup Setters

VARIABLES
  status,    \* STATUS
  mutex,     \* the holder of STATUS_MUTEX
  wpc,       \* where a waiter stands
  spc,       \* where a setter stands
  arg,       \* the status a setter was called with
  late       \* the WAIT_STEPs a waiter slept out while it could have run

vars == <<status, mutex, wpc, spc, arg, late>>

CanRun(w, s) ==
  \/ w \in InputWaiters /\ CanRunInputs(s)
  \/ w \in ProgramWaiters /\ CanRunPrograms(s)
  \/ w \in OutputWaiters /\ CanRunOutputs(s)

(* The stores of Tasks, by the status their caller has found. *)
Follows == { <<Inactive, Starting>>, <<Starting, Syncing>>,
             <<Syncing, Preparing>>, <<Preparing, Active>>,
             <<Syncing, Stopped>>, <<Preparing, Stopped>>,
             <<Active, Stopping>>, <<Stopping, StopSyncing>>,
             <<StopSyncing, Stopped>> }

Init ==
  /\ status = Inactive
  /\ mutex = None
  /\ wpc = [w \in Waiters |-> "check"]
  /\ spc = [s \in Setters |-> "idle"]
  /\ arg = [s \in Setters |-> Inactive]
  /\ late = [w \in Waiters |-> 0]

-----------------------------------------------------------------------------
(* A waiter: while !can_run() { lock; wait_for(lock, WAIT_STEP) } *)

WaiterGoto(w, pc) == wpc' = [wpc EXCEPT ![w] = pc]

Check(w) ==
  /\ wpc[w] = "check"
  /\ WaiterGoto(w, IF CanRun(w, status) THEN "passed" ELSE "lock")
  /\ UNCHANGED <<status, mutex, spc, arg, late>>

Lock(w) ==
  /\ wpc[w] = "lock"
  /\ mutex = None
  /\ mutex' = w
  /\ WaiterGoto(w, "locked")
  /\ UNCHANGED <<status, spc, arg, late>>

Sleep(w) ==
  /\ wpc[w] = "locked"
  /\ mutex' = None
  /\ WaiterGoto(w, "asleep")
  /\ UNCHANGED <<status, spc, arg, late>>

(* Mutant: wait() in place of wait_for(). *)
TimeoutNever(w) == wpc[w] = "asleep" /\ FALSE /\ UNCHANGED vars

Timeout(w) ==
  /\ wpc[w] = "asleep"
  /\ WaiterGoto(w, "awake")
  /\ late' = [late EXCEPT ![w] = IF CanRun(w, status) THEN @ + 1 ELSE @]
  /\ UNCHANGED <<status, mutex, spc, arg>>

(* wait_for() returns with the mutex, which the end of the body gives up. *)
Relock(w) ==
  /\ wpc[w] = "awake"
  /\ mutex = None
  /\ mutex' = w
  /\ WaiterGoto(w, "relocked")
  /\ UNCHANGED <<status, spc, arg, late>>

(* Mutant: the waiter sleeps again without looking at the status. *)
UnlockWithoutLooking(w) ==
  /\ wpc[w] = "relocked"
  /\ mutex' = None
  /\ WaiterGoto(w, "lock")
  /\ UNCHANGED <<status, spc, arg, late>>

Unlock(w) ==
  /\ wpc[w] = "relocked"
  /\ mutex' = None
  /\ WaiterGoto(w, "check")
  /\ UNCHANGED <<status, spc, arg, late>>

-----------------------------------------------------------------------------
(* set_status() *)

SetterGoto(s, pc) == spc' = [spc EXCEPT ![s] = pc]

Call(s) ==
  /\ spc[s] = "idle"
  /\ \E v \in Status : <<status, v>> \in Follows /\ arg' = [arg EXCEPT ![s] = v]
  /\ SetterGoto(s, "lock")
  /\ UNCHANGED <<status, mutex, wpc, late>>

SetterLock(s) ==
  /\ spc[s] = "lock"
  /\ mutex = None
  /\ mutex' = s
  /\ SetterGoto(s, "store")
  /\ UNCHANGED <<status, wpc, arg, late>>

(* A waiter the new status shuts out starts counting afresh. *)
Store(s) ==
  /\ spc[s] = "store"
  /\ status' = arg[s]
  /\ late' = [w \in Waiters |-> IF CanRun(w, arg[s]) THEN late[w] ELSE 0]
  /\ SetterGoto(s, "notify")
  /\ UNCHANGED <<mutex, wpc, arg>>

NotifyAll(s) ==
  /\ spc[s] = "notify"
  /\ wpc' = [w \in Waiters |-> IF wpc[w] = "asleep" THEN "awake" ELSE wpc[w]]
  /\ SetterGoto(s, "unlock")
  /\ UNCHANGED <<status, mutex, arg, late>>

SetterUnlock(s) ==
  /\ spc[s] = "unlock"
  /\ mutex' = None
  /\ SetterGoto(s, "idle")
  /\ arg' = [arg EXCEPT ![s] = Inactive]
  /\ UNCHANGED <<status, wpc, late>>

-----------------------------------------------------------------------------
TakeMutex(w) == Lock(w) \/ Relock(w)
WaiterStep(w) == Check(w) \/ Sleep(w) \/ Timeout(w) \/ Unlock(w)
SetterStep(s) == Store(s) \/ NotifyAll(s) \/ SetterUnlock(s)

Done ==
  /\ \A w \in Waiters : wpc[w] = "passed"
  /\ UNCHANGED vars

Next ==
  \/ \E w \in Waiters : TakeMutex(w) \/ WaiterStep(w)
  \/ \E s \in Setters : Call(s) \/ SetterLock(s) \/ SetterStep(s)
  \/ Done

Spec == Init /\ [][Next]_vars

(* Threads run; the mutex is eventually fair, so a thread that asks again    *)
(* and again gets it.  Nobody promises a call of set_status().               *)
Fairness ==
  /\ \A w \in Waiters : WF_vars(WaiterStep(w)) /\ SF_vars(TakeMutex(w))
  /\ \A s \in Setters : WF_vars(SetterStep(s)) /\ SF_vars(SetterLock(s))

FairSpec == Spec /\ Fairness

-----------------------------------------------------------------------------
TypeOK ==
  /\ status \in Status
  /\ mutex \in Waiters \cup Setters \cup {None}
  /\ wpc \in [Waiters -> {"check", "lock", "locked", "asleep", "awake",
                          "relocked", "passed"}]
  /\ spc \in [Setters -> {"idle", "lock", "store", "notify", "unlock"}]
  /\ arg \in [Setters -> Status]
  /\ late \in [Waiters -> Nat]

(* A wake-up can be lost, but only one: a waiter never sleeps out a second   *)
(* WAIT_STEP while the status lets it run.                                   *)
LostWakeupCostsOneStep == \A w \in Waiters : late[w] <= 1

(* The mutex makes the store and its notification one for the sleepers: none *)
(* can fall asleep between a store and the notification of it, so a thread   *)
(* asleep after the notification either could not run or had looked before   *)
(* the store.                                                                *)
NoSleepBetweenStoreAndNotify ==
  [][\A w \in Waiters : wpc[w] # "asleep" /\ wpc'[w] = "asleep"
        => \A s \in Setters : spc[s] \notin {"store", "notify"}]_vars

(* A gate the status holds open is passed, whatever wake-ups were lost. *)
OpenGateIsPassed ==
  \A w \in Waiters : <>[]CanRun(w, status) => <>(wpc[w] = "passed")
=============================================================================
