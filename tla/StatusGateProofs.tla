------------------------- MODULE StatusGateProofs --------------------------
(***************************************************************************)
(* Proofs about StatusGate, for any number of waiters and setters.          *)
(***************************************************************************)
EXTENDS StatusGate, TLAPS

(* Who stands inside the mutex holds it. *)
MutexInv ==
  /\ \A w \in Waiters : wpc[w] \in {"locked", "relocked"} => mutex = w
  /\ \A s \in Setters : spc[s] \in {"store", "notify", "unlock"} => mutex = s

(* A waiter that has slept out a step while it could run has woken, and is   *)
(* on its way to look at a status that still lets it run.                    *)
LateInv ==
  \A w \in Waiters :
    /\ late[w] \in {0, 1}
    /\ late[w] = 1 => /\ CanRun(w, status)
                      /\ wpc[w] \in {"awake", "relocked", "check", "passed"}

Inv == TypeOK /\ MutexInv /\ LateInv

LEMMA Inductive == Inv /\ [Next]_vars => Inv'
<1> SUFFICES ASSUME Inv, [Next]_vars PROVE Inv'
  OBVIOUS
<1> USE GateAssumption DEF Inv, TypeOK, MutexInv, LateInv
<1>1. ASSUME NEW w \in Waiters, Check(w) PROVE Inv'
  BY <1>1 DEF Check, WaiterGoto
<1>2. ASSUME NEW w \in Waiters, Lock(w) PROVE Inv'
  BY <1>2 DEF Lock, WaiterGoto
<1>3. ASSUME NEW w \in Waiters, Sleep(w) PROVE Inv'
  BY <1>3 DEF Sleep, WaiterGoto
<1>4. ASSUME NEW w \in Waiters, Timeout(w) PROVE Inv'
  BY <1>4 DEF Timeout, WaiterGoto
<1>5. ASSUME NEW w \in Waiters, Relock(w) PROVE Inv'
  BY <1>5 DEF Relock, WaiterGoto
<1>6. ASSUME NEW w \in Waiters, Unlock(w) PROVE Inv'
  BY <1>6 DEF Unlock, WaiterGoto
<1>7. ASSUME NEW s \in Setters, Call(s) PROVE Inv'
  BY <1>7 DEF Call, SetterGoto
<1>8. ASSUME NEW s \in Setters, SetterLock(s) PROVE Inv'
  BY <1>8 DEF SetterLock, SetterGoto
<1>9. ASSUME NEW s \in Setters, Store(s) PROVE Inv'
  BY <1>9 DEF Store, SetterGoto
<1>10. ASSUME NEW s \in Setters, NotifyAll(s) PROVE Inv'
  BY <1>10 DEF NotifyAll, SetterGoto
<1>11. ASSUME NEW s \in Setters, SetterUnlock(s) PROVE Inv'
  BY <1>11 DEF SetterUnlock, SetterGoto, Status
<1>12. CASE UNCHANGED vars
  BY <1>12 DEF vars, CanRun
<1> QED
  BY <1>1, <1>2, <1>3, <1>4, <1>5, <1>6, <1>7, <1>8, <1>9, <1>10, <1>11, <1>12
     DEF Next, TakeMutex, WaiterStep, SetterStep, Done

LEMMA Initial == Init => Inv
BY GateAssumption DEF Init, Inv, TypeOK, MutexInv, LateInv, Status

(* However many threads wait and however the setters race, a lost wake-up    *)
(* costs a waiter at most one WAIT_STEP (wait_can_run_*, set_status).        *)
THEOREM OneStepLate == Spec => []LostWakeupCostsOneStep
<1>1. Inv => LostWakeupCostsOneStep
  BY DEF Inv, LateInv, LostWakeupCostsOneStep
<1> QED
  BY <1>1, Initial, Inductive, PTL DEF Spec

(* No thread falls asleep on STATUS_CHANGED between a store to STATUS and    *)
(* its notification, for any number of threads.                              *)
THEOREM StoreAndNotifyAreOne == Spec => NoSleepBetweenStoreAndNotify
<1> DEFINE Step == \A w \in Waiters : wpc[w] # "asleep" /\ wpc'[w] = "asleep"
                     => \A s \in Setters : spc[s] \notin {"store", "notify"}
<1>1. Inv /\ [Next]_vars => [Step]_vars
  <2> SUFFICES ASSUME Inv, Next,
                      NEW w \in Waiters, wpc[w] # "asleep", wpc'[w] = "asleep",
                      NEW s \in Setters
               PROVE  spc[s] \notin {"store", "notify"}
    BY DEF vars
  <2>1. wpc[w] = "locked"
    BY DEF Next, TakeMutex, WaiterStep, SetterStep, Check, Lock, Sleep, Timeout,
           Relock, Unlock, Call, SetterLock, Store, NotifyAll, SetterUnlock,
           Done, vars, WaiterGoto, Inv, TypeOK
  <2> QED
    BY <2>1, GateAssumption DEF Inv, MutexInv
<1> QED
  BY <1>1, Initial, Inductive, PTL DEF Spec, NoSleepBetweenStoreAndNotify
=============================================================================
