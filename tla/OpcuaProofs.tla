----------------------------- MODULE OpcuaProofs -----------------------------
(* Proofs of the safety properties of Opcua, for any nodes, outputs, inputs. *)
EXTENDS Opcua, TLAPS

USE DEF Mine, Goto, Overwrite, Workers, InputPcs, OutputPcs, Sessions,
        Preparing, Active, Stopping, StopSyncing

LEMMA InitType == Init => TypeOK
BY OpcAssumption DEF Init, TypeOK

(* Overwriting values with values leaves values. *)
LEMMA OverwriteType ==
  ASSUME NEW T, NEW f \in [Nodes -> T], NEW S \in SUBSET Nodes, NEW g,
         \A n \in S : g[n] \in T
  PROVE  Overwrite(f, S, g) \in [Nodes -> T]
OBVIOUS

LEMMA NextType == TypeOK /\ RoundCopied /\ [Next]_vars => TypeOK'
<1> SUFFICES ASSUME TypeOK, RoundCopied, [Next]_vars PROVE TypeOK'
    OBVIOUS
<1> USE OpcAssumption DEF TypeOK
<1>1. CASE NextStatus
      BY <1>1 DEF NextStatus
<1>2. CASE WriteContext
      BY <1>2 DEF WriteContext
<1>3. CASE SessionDies
      BY <1>3 DEF SessionDies
<1>4. CASE ServerRestarts
      BY <1>4 DEF ServerRestarts
<1>5. ASSUME NEW n \in Nodes, Expire(n) PROVE TypeOK'
      BY <1>5 DEF Expire, sideVars
<1>6. ASSUME NEW i \in Inputs, InputStep(i) PROVE TypeOK'
  <2>1. CASE ReadNodes(i)
        BY <2>1 DEF ReadNodes, sideVars
  <2>2. CASE ReadFails(i)
        BY <2>2 DEF ReadFails, sideVars
  <2>3. CASE Reconnect(i)
        BY <2>3 DEF Reconnect, sideVars
  <2>4. QED BY <1>6, <2>1, <2>2, <2>3 DEF InputStep
<1>7. ASSUME NEW o \in Outputs, OutputStep(o) PROVE TypeOK'
  <2>1. CASE StartRound(o)
        BY <2>1 DEF StartRound, sideVars, OutputLastSync
  <2>2. CASE Retain(o)
    <3>1. \A n \in Mine(o) : round[n] \in Values
          BY <2>2 DEF Retain, RoundCopied
    <3>2. QED BY <2>2, <3>1 DEF Retain, sideVars, Modified
  <2>3. CASE NothingToWrite(o)
        BY <2>3 DEF NothingToWrite, EndRound, sideVars
  <2>4. CASE WriteNodes(o)
    <3>1. \A n \in Mine(o) : round[n] \in Values
          BY <2>4 DEF WriteNodes, RoundCopied
    <3>2. QED BY <2>4, <3>1 DEF WriteNodes, EndRound, Pending, sideVars
  <2>5. CASE WriteFails(o)
    <3>1. \A n \in Mine(o) : round[n] \in Values
          BY <2>5 DEF WriteFails, RoundCopied
    <3>2. QED BY <2>5, <3>1 DEF WriteFails, EndRound, Pending, sideVars
  <2>6. QED BY <1>7, <2>1, <2>2, <2>3, <2>4, <2>5 DEF OutputStep
<1>8. CASE UNCHANGED vars
      BY <1>8 DEF vars
<1>9. QED BY <1>1, <1>2, <1>3, <1>4, <1>5, <1>6, <1>7, <1>8 DEF Next

-----------------------------------------------------------------------------
LEMMA InitInv == Init => Inv
BY OpcAssumption DEF Init, Inv, CacheWritten, CacheUnused, RoundServed,
                     RoundCopied, RoundWhole

(* Every step keeps the invariant; an output's disturb its own nodes only. *)
LEMMA NextInv == TypeOK /\ Inv /\ [Next]_vars => Inv'
<1> SUFFICES ASSUME TypeOK, Inv, [Next]_vars PROVE Inv'
    OBVIOUS
<1> USE OpcAssumption DEF TypeOK, Inv
<1>1. CASE NextStatus
      BY <1>1 DEF NextStatus, CacheWritten, CacheUnused, RoundServed, RoundCopied, RoundWhole
<1>2. CASE WriteContext
      BY <1>2 DEF WriteContext, CacheWritten, CacheUnused, RoundServed, RoundCopied, RoundWhole
<1>3. CASE SessionDies
      BY <1>3 DEF SessionDies, CacheWritten, CacheUnused, RoundServed, RoundCopied, RoundWhole
<1>4. CASE ServerRestarts
      BY <1>4 DEF ServerRestarts, CacheWritten, CacheUnused, RoundServed, RoundCopied, RoundWhole
<1>5. ASSUME NEW n \in Nodes, Expire(n) PROVE Inv'
      BY <1>5 DEF Expire, sideVars, CacheWritten, CacheUnused, RoundServed, RoundCopied, RoundWhole
<1>6. ASSUME NEW i \in Inputs, InputStep(i) PROVE Inv'
  <2>1. \E p : pc' = [pc EXCEPT ![i] = p]
        BY <1>6 DEF InputStep, ReadNodes, ReadFails, Reconnect
  <2>2. \A o \in Outputs : pc'[o] = pc[o]
        BY <2>1
  <2>3. UNCHANGED <<status, server, cache, lastSync, round, kept, lost>>
        BY <1>6 DEF InputStep, ReadNodes, ReadFails, Reconnect, sideVars
  <2>4. QED BY <2>2, <2>3 DEF CacheWritten, CacheUnused, RoundServed, RoundCopied, RoundWhole
<1>7. ASSUME NEW o \in Outputs, OutputStep(o) PROVE Inv'
  <2>1. CASE StartRound(o)
    <3> USE <2>1 DEF StartRound, sideVars, OutputLastSync
    <3>1. CacheWritten' BY DEF CacheWritten
    <3>2. CacheUnused' BY DEF CacheUnused
    <3>3. RoundServed' BY DEF RoundServed
    <3>4. RoundCopied' BY DEF RoundCopied
    <3>5. RoundWhole' BY DEF RoundWhole
    <3>6. QED BY <3>1, <3>2, <3>3, <3>4, <3>5
  <2>2. CASE Retain(o)
    <3> USE <2>2 DEF Retain, sideVars, Modified
    <3>1. CacheWritten'
      <4>1. CASE status = Active
            BY <4>1 DEF CacheWritten, RoundWhole
      <4>2. CASE status # Active
            BY <4>2 DEF CacheWritten
      <4>3. QED BY <4>1, <4>2
    <3>2. CacheUnused' BY DEF CacheUnused
    <3>3. RoundServed'
      <4>1. CASE status = Active
            BY <4>1 DEF CacheWritten, RoundServed, RoundWhole
      <4>2. CASE status # Active
            BY <4>2 DEF RoundServed, RoundWhole
      <4>3. QED BY <4>1, <4>2
    <3>4. RoundCopied' BY DEF RoundCopied
    <3>5. RoundWhole' BY DEF RoundWhole
    <3>6. QED BY <3>1, <3>2, <3>3, <3>4, <3>5
  <2>3. CASE NothingToWrite(o)
    <3> USE <2>3 DEF NothingToWrite, EndRound, Pending, sideVars
    <3>1. CacheWritten' BY DEF CacheWritten
    <3>2. CacheUnused' BY DEF CacheUnused
    <3>3. RoundServed' BY DEF RoundServed
    <3>4. RoundCopied' BY DEF RoundCopied
    <3>5. RoundWhole' BY DEF RoundWhole
    <3>6. QED BY <3>1, <3>2, <3>3, <3>4, <3>5
  <2>4. CASE WriteNodes(o)
    <3> USE <2>4 DEF WriteNodes, EndRound, Pending, sideVars
    <3>1. CacheWritten' BY DEF CacheWritten
    <3>2. CacheUnused' BY DEF CacheUnused
    <3>3. RoundServed' BY DEF RoundServed
    <3>4. RoundCopied' BY DEF RoundCopied
    <3>5. RoundWhole' BY DEF RoundWhole
    <3>6. QED BY <3>1, <3>2, <3>3, <3>4, <3>5
  <2>5. CASE WriteFails(o)
    <3> USE <2>5 DEF WriteFails, EndRound, Pending, sideVars
    <3>1. CacheWritten' BY DEF CacheWritten
    <3>2. CacheUnused' BY DEF CacheUnused
    <3>3. RoundServed' BY DEF RoundServed
    <3>4. RoundCopied' BY DEF RoundCopied
    <3>5. RoundWhole' BY DEF RoundWhole
    <3>6. QED BY <3>1, <3>2, <3>3, <3>4, <3>5
  <2>6. QED BY <1>7, <2>1, <2>2, <2>3, <2>4, <2>5 DEF OutputStep
<1>8. CASE UNCHANGED vars
      BY <1>8 DEF vars, CacheWritten, CacheUnused, RoundServed, RoundCopied, RoundWhole
<1>9. QED BY <1>1, <1>2, <1>3, <1>4, <1>5, <1>6, <1>7, <1>8 DEF Next

(* The invariant of the caches holds in every reachable state. *)
THEOREM Invariance == Spec => []IndInv
<1>1. Init => TypeOK /\ Inv
      BY InitType, InitInv
<1>2. TypeOK /\ Inv /\ [Next]_vars => (TypeOK /\ Inv)'
      BY NextType, NextInv DEF Inv
<1>3. QED BY <1>1, <1>2, PTL DEF Spec, IndInv

(* What an output leaves out of a write, the server holds, unless the last    *)
(* write of that node has failed or the server has restarted (cache.rs).      *)
THEOREM CacheIsHonest == Spec => []ServedOrLost
<1>1. TypeOK /\ Inv => ServedOrLost
      BY DEF Inv, RoundServed, ServedOrLost
<1>2. QED BY <1>1, Invariance, PTL DEF IndInv

(* The final round of an output writes every one of its nodes (is_active()). *)
THEOREM FinalRoundWritesAll == Spec => []FinalRoundIsWhole
<1>1. TypeOK /\ Inv => FinalRoundIsWhole
      BY DEF Inv, RoundWhole, FinalRoundIsWhole
<1>2. QED BY <1>1, Invariance, PTL DEF IndInv
=============================================================================
