----------------------------- MODULE EapiProofs -----------------------------
(* Proofs of the safety properties of Eapi, for any outputs and actions, any   *)
(* channel and pool, and any number of lost connections.                       *)
EXTENDS Eapi, TLAPS

USE DEF Senders, Goto, busVars, seenVars, rtVars, tableVars

(* None is not an event. *)
LEMMA EventsArePayload ==
  \A a \in Actions : /\ EventsOf(a) \subseteq Payload
                     /\ [of |-> a, event |-> "final"] \in EventsOf(a)
                     /\ None \notin EventsOf(a)
BY EapiAssumption DEF EventsOf, Payload

LEMMA EmptyChan == <<>> \in Seq(Payload) /\ Len(<<>>) = 0 /\ DOMAIN <<>> = {}
OBVIOUS

LEMMA InitInv == Init => IndInv
<1> SUFFICES ASSUME Init PROVE IndInv
    OBVIOUS
<1>1. chan \in Seq(Payload) /\ Len(chan) = 0 /\ DOMAIN chan = {}
      BY EmptyChan DEF Init
<1>2. /\ calledIn \in [Actions -> 0 .. losses] /\ pc \in [Senders -> Pcs]
      /\ seen \in [Actions -> {"nothing", "running", "final"}]
      BY DEF Init, Pcs
<1>3. 0 \in 0 .. MaxLosses /\ 0 <= QueueSize
      BY EapiAssumption
<1> USE <1>1, <1>2, <1>3
<1>7. TypeOK
      BY DEF Init, TypeOK
<1>4. LockInv
      BY EapiAssumption DEF Init, LockInv
<1>5. OrderInv
      BY <1>1, EventsArePayload DEF Init, OrderInv
<1>6. QED BY <1>7, <1>4, <1>5 DEF IndInv

(* The steps of run() and of the publisher. *)
LEMMA RuntimeKeepsInv ==
  ASSUME IndInv, RunStep \/ PublisherStep \/ LoseLink \/ AppendHandlers
  PROVE  IndInv'
<1> USE EapiAssumption DEF IndInv
<1>1. TypeOK'
  <2>1. CASE Receive
    <3>1. chan \in Seq(Payload) /\ chan # <<>> /\ Len(chan) <= QueueSize
          BY <2>1 DEF TypeOK, Receive
    <3>2. Head(chan) \in Payload /\ Tail(chan) \in Seq(Payload)
          /\ Len(Tail(chan)) <= QueueSize
          BY <3>1
    <3>3. QED BY <2>1, <3>2 DEF TypeOK, Receive
  <2>2. CASE Publish
    <3>1. sending.of \in Actions => sending.event \in {"running", "final"}
          BY <2>2 DEF TypeOK, Payload, Publish
    <3>2. seen' \in [Actions -> {"nothing", "running", "final"}]
          BY <2>2, <3>1 DEF TypeOK, Publish
    <3>3. QED BY <2>2, <3>2 DEF TypeOK, Publish
  <2>3. CASE LoseLink
    <3>1. losses \in Nat /\ losses < MaxLosses /\ losses' = losses + 1
          BY <2>3 DEF TypeOK, LoseLink
    <3>2. 0 .. losses \subseteq 0 .. losses'
          BY <3>1
    <3>3. calledIn' \in [Actions -> 0 .. losses']
          BY <2>3, <3>2 DEF TypeOK, LoseLink
    <3>4. losses' \in 0 .. MaxLosses
          BY <3>1
    <3>5. UNCHANGED <<rt, tx, sending, txLock, table, tableLock, chan, pc, seen>>
          /\ link' = FALSE
          BY <2>3 DEF LoseLink
    <3>6. QED BY <3>3, <3>4, <3>5 DEF TypeOK
  <2>4. CASE RunStep \/ AppendHandlers
    <3>1. chan' = chan \/ (chan' \in Seq(Payload) /\ Len(chan') = 0)
          BY <2>4, EmptyChan DEF RunStep, Connect, StoreTx, Notice, TakeTx, AppendHandlers
    <3>2. /\ UNCHANGED <<losses, txLock, tableLock, pc, seen, calledIn>>
          /\ rt' \in {"connect", "store", "up", "take"} /\ link' \in BOOLEAN
          /\ tx' \in BOOLEAN /\ table' \in BOOLEAN
          /\ sending' \in Payload \cup {None}
          BY <2>4 DEF TypeOK, RunStep, Connect, StoreTx, Notice, TakeTx, AppendHandlers
    <3>3. chan' \in Seq(Payload) /\ Len(chan') <= QueueSize
          BY <3>1 DEF TypeOK
    <3>4. calledIn' \in [Actions -> 0 .. losses']
          BY <3>2 DEF TypeOK
    <3>5. QED BY <3>2, <3>3, <3>4 DEF TypeOK
  <2>5. QED BY <2>1, <2>2, <2>3, <2>4 DEF PublisherStep
<1>2. LockInv'
      BY DEF TypeOK, LockInv, RunStep, Connect, StoreTx, Notice, TakeTx,
             PublisherStep, Receive, Publish, LoseLink, AppendHandlers
<1>3. OrderInv'
  <2>1. CASE Receive
    <3>1. /\ sending' = chan[1] /\ pc' = pc /\ seen' = seen
          /\ \A j \in DOMAIN chan' : j + 1 \in DOMAIN chan /\ chan'[j] = chan[j + 1]
          /\ 1 \in DOMAIN chan /\ DOMAIN chan' \subseteq Nat \ {0}
          BY <2>1 DEF TypeOK, Receive
    <3> HIDE DEF IndInv
    <3>2. OrderInv
          BY DEF IndInv
    <3> SUFFICES ASSUME NEW a \in Actions
                 PROVE  /\ \A i \in DOMAIN chan' : chan'[i] = [of |-> a, event |-> "final"] =>
                             /\ pc[a] = "done"
                             /\ \A j \in DOMAIN chan' : j > i => chan'[j] \notin EventsOf(a)
                        /\ sending' = [of |-> a, event |-> "final"] \/ seen[a] = "final" =>
                             /\ pc[a] = "done"
                             /\ \A j \in DOMAIN chan' : chan'[j] \notin EventsOf(a)
                        /\ seen[a] = "final" => sending' \notin EventsOf(a)
        BY <3>1 DEF OrderInv
    <3>3. ASSUME NEW i \in DOMAIN chan', chan'[i] = [of |-> a, event |-> "final"]
          PROVE  /\ pc[a] = "done"
                 /\ \A j \in DOMAIN chan' : j > i => chan'[j] \notin EventsOf(a)
          BY <3>1, <3>2, <3>3 DEF OrderInv
    <3>4. ASSUME sending' = [of |-> a, event |-> "final"]
          PROVE  /\ pc[a] = "done"
                 /\ \A j \in DOMAIN chan' : chan'[j] \notin EventsOf(a)
      <4>1. chan[1] = [of |-> a, event |-> "final"]
            BY <3>1, <3>4
      <4>2. \A j \in DOMAIN chan : j > 1 => chan[j] \notin EventsOf(a)
            BY <3>1, <3>2, <4>1 DEF OrderInv
      <4>3. \A j \in DOMAIN chan' : j + 1 \in DOMAIN chan /\ j + 1 > 1
            BY <3>1
      <4>4. QED BY <3>1, <3>2, <4>1, <4>2, <4>3 DEF OrderInv
    <3>5. QED BY <3>1, <3>2, <3>3, <3>4 DEF OrderInv
  <2>2. CASE Publish
    <3>1. /\ pc' = pc /\ chan' = chan /\ sending' = None
          /\ sending \in Payload
          /\ \A a \in Actions :
               seen'[a] = seen[a] \/ (sending = [of |-> a, event |-> seen'[a]]
                                      /\ seen'[a] \in {"running", "final"})
          BY <2>2 DEF TypeOK, Payload, Publish
    <3>2. QED BY <3>1, EventsArePayload DEF OrderInv
  <2>3. CASE RunStep \/ LoseLink \/ AppendHandlers
    <3>1. /\ pc' = pc /\ seen' = seen
          /\ chan' = chan \/ DOMAIN chan' = {}
          /\ sending' = sending \/ sending' = None
          BY <2>3, EmptyChan DEF RunStep, Connect, StoreTx, Notice, TakeTx,
                                 LoseLink, AppendHandlers
    <3>2. QED BY <3>1, EventsArePayload DEF OrderInv
  <2>4. QED BY <2>1, <2>2, <2>3 DEF PublisherStep
<1>4. QED BY <1>1, <1>2, <1>3

-----------------------------------------------------------------------------
(* The steps of an output or an action that send nothing: it takes the lock    *)
(* where there is a channel, or moves on without it.                           *)
LEMMA MovesKeepInv ==
  ASSUME IndInv, NEW s \in Senders, NEW p \in Pcs,
         pc' = [pc EXCEPT ![s] = p],
         pc[s] # "done", pc[s] \notin {"sendRunning", "send"},
         IF p \in {"sendRunning", "send"}
           THEN tx /\ txLock = None /\ txLock' = s
           ELSE txLock' = txLock,
         tableLock' \in Actions \cup {None},
         calledIn' \in [Actions -> 0 .. losses],
         UNCHANGED <<busVars, rtVars, chan, table, seen>>
  PROVE  IndInv'
<1> USE EapiAssumption DEF IndInv
<1>1. TypeOK'
      BY DEF TypeOK
<1>2. LockInv'
      BY DEF TypeOK, LockInv
<1>3. \A a \in Actions : pc[a] = "done" => pc'[a] = "done"
      BY DEF TypeOK
<1>4. OrderInv'
      BY <1>3 DEF OrderInv
<1>5. QED BY <1>1, <1>2, <1>4

(* A send puts the event of one that is not done at the end of the channel.    *)
LEMMA SendKeepsInv ==
  ASSUME IndInv, NEW s \in Senders, NEW event, NEW next \in Pcs,
         Send(s, event, next),
         [of |-> s, event |-> event] \in Payload,
         pc[s] \in {"sendRunning", "send"}, next \notin {"sendRunning", "send"},
         event = "final" => next = "done",
         UNCHANGED <<busVars, rtVars, tableVars, seenVars>>
  PROVE  IndInv'
<1> USE EapiAssumption DEF IndInv, Send
<1> DEFINE sent == [of |-> s, event |-> event]
<1>1. /\ Len(chan) \in Nat /\ DOMAIN chan = 1 .. Len(chan)
      /\ DOMAIN chan' = 1 .. (Len(chan) + 1)
      /\ \A i \in DOMAIN chan : chan'[i] = chan[i]
      /\ chan'[Len(chan) + 1] = sent
      /\ chan' \in Seq(Payload) /\ Len(chan') = Len(chan) + 1
      BY DEF TypeOK
<1>2. Len(chan') <= QueueSize
      BY <1>1
<1>3. TypeOK'
      BY <1>1, <1>2 DEF TypeOK
<1>4. LockInv'
      BY DEF TypeOK, LockInv
<1>5. OrderInv'
  <2> HIDE DEF IndInv, Send
  <2> SUFFICES ASSUME NEW a \in Actions
               PROVE  /\ \A i \in DOMAIN chan' : chan'[i] = [of |-> a, event |-> "final"] =>
                           /\ pc'[a] = "done"
                           /\ \A j \in DOMAIN chan' : j > i => chan'[j] \notin EventsOf(a)
                      /\ sending = [of |-> a, event |-> "final"] \/ seen[a] = "final" =>
                           /\ pc'[a] = "done"
                           /\ \A j \in DOMAIN chan' : chan'[j] \notin EventsOf(a)
                      /\ seen[a] = "final" => sending \notin EventsOf(a)
      BY DEF OrderInv
  <2>1. OrderInv /\ TypeOK
        BY DEF IndInv
  <2>2. CASE a = s
    <3>1. pc[a] # "done" /\ (event = "final" => pc'[a] = "done")
          BY <2>1, <2>2 DEF TypeOK, Send
    <3>2. \A i \in DOMAIN chan : chan[i] = [of |-> a, event |-> "final"] => pc[a] = "done"
          BY <2>1 DEF OrderInv
    <3>3. \A i \in DOMAIN chan : chan'[i] # [of |-> a, event |-> "final"]
          BY <1>1, <3>1, <3>2
    <3>4. /\ sending # [of |-> a, event |-> "final"] /\ seen[a] # "final"
          BY <2>1, <3>1 DEF OrderInv
    <3>5. sent = [of |-> a, event |-> "final"] => event = "final"
          OBVIOUS
    <3>6. \A i \in DOMAIN chan' : i \in DOMAIN chan \/ i = Len(chan) + 1
          BY <1>1
    <3>7. \A i \in DOMAIN chan' : chan'[i] = [of |-> a, event |-> "final"] =>
            /\ event = "final" /\ \A j \in DOMAIN chan' : ~(j > i)
          BY <1>1, <3>3, <3>5, <3>6
    <3>8. QED BY <3>1, <3>4, <3>7
  <2>3. CASE a # s
    <3>1. sent \notin EventsOf(a) /\ sent # [of |-> a, event |-> "final"]
          BY <2>3 DEF EventsOf
    <3>2. pc'[a] = pc[a]
          BY <2>1, <2>3 DEF TypeOK, Send
    <3>3. \A i \in DOMAIN chan' : i \in DOMAIN chan \/ i = Len(chan) + 1
          BY <1>1
    <3> HIDE DEF sent
    <3>4. QED BY <1>1, <2>1, <3>1, <3>2, <3>3 DEF OrderInv
  <2>4. QED BY <2>2, <2>3
<1>6. QED BY <1>3, <1>4, <1>5

-----------------------------------------------------------------------------
LEMMA OutputKeepsInv ==
  ASSUME IndInv, NEW o \in Outputs, OutputStep(o)
  PROVE  IndInv'
<1>1. o \in Senders /\ {"idle", "want", "send"} \subseteq Pcs
      BY DEF Pcs
<1>2. TypeOK
      BY DEF IndInv
<1>3. CASE StartNotify(o)
      BY <1>1, <1>2, <1>3, MovesKeepInv DEF StartNotify, TypeOK
<1>4. CASE NotifyLock(o)
  <2>1. CASE tx
        BY <1>1, <1>2, <1>4, <2>1, MovesKeepInv DEF NotifyLock, LockTx, TypeOK
  <2>2. CASE ~tx
        BY <1>1, <1>2, <1>4, <2>2, MovesKeepInv DEF NotifyLock, LockTx, TypeOK
  <2>3. QED BY <2>1, <2>2
<1>5. CASE NotifySend(o)
  <2>1. [of |-> o, event |-> "state"] \in Payload
        BY DEF Payload
  <2>2. Send(o, "state", "idle")
        BY <1>5 DEF NotifySend
  <2>3. pc[o] = "send" /\ UNCHANGED <<busVars, rtVars, tableVars, seenVars>>
        BY <1>5 DEF NotifySend
  <2>4. QED BY <1>1, <2>1, <2>2, <2>3, SendKeepsInv
<1>6. QED BY <1>3, <1>4, <1>5 DEF OutputStep

LEMMA ActionKeepsInv ==
  ASSUME IndInv, NEW a \in Actions, Call(a) \/ ActionStep(a)
  PROVE  IndInv'
<1>1. a \in Senders
      OBVIOUS
<1>2. TypeOK
      BY DEF IndInv
<1>3. CASE Call(a)
  <2>1. calledIn' \in [Actions -> 0 .. losses]
        BY <1>2, <1>3 DEF Call, TypeOK
  <2>2. QED BY <1>1, <1>2, <1>3, <2>1, MovesKeepInv DEF Call, TypeOK, Pcs
<1>4. CASE Begin(a)
      BY <1>1, <1>2, <1>4, MovesKeepInv DEF Begin, TypeOK, Pcs
<1>5. CASE FindHandler(a)
  <2>1. CASE table
        BY <1>1, <1>2, <1>5, <2>1, MovesKeepInv DEF FindHandler, TypeOK, Pcs
  <2>2. CASE ~table
        BY <1>1, <1>2, <1>5, <2>2, MovesKeepInv DEF FindHandler, TypeOK, Pcs
  <2>3. QED BY <2>1, <2>2
<1>6. CASE RunningLock(a)
  <2>1. CASE tx
        BY <1>1, <1>2, <1>6, <2>1, MovesKeepInv DEF RunningLock, LockTx, TypeOK, Pcs
  <2>2. CASE ~tx
        BY <1>1, <1>2, <1>6, <2>2, MovesKeepInv DEF RunningLock, LockTx, TypeOK, Pcs
  <2>3. QED BY <2>1, <2>2
<1>7. CASE RunningSend(a)
  <2>1. [of |-> a, event |-> "running"] \in Payload /\ "handler" \in Pcs
        BY DEF Payload, Pcs
  <2>2. Send(a, "running", "handler") /\ pc[a] = "sendRunning"
        /\ UNCHANGED <<busVars, rtVars, tableVars, seenVars>>
        BY <1>7 DEF RunningSend
  <2>3. QED BY <1>1, <2>1, <2>2, SendKeepsInv
<1>8. CASE HandlerReturns(a)
      BY <1>1, <1>2, <1>8, MovesKeepInv DEF HandlerReturns, TypeOK, Pcs
<1>9. CASE FinalLock(a)
  <2>1. CASE tx
        BY <1>1, <1>2, <1>9, <2>1, MovesKeepInv DEF FinalLock, LockTx, TypeOK, Pcs
  <2>2. CASE ~tx
        BY <1>1, <1>2, <1>9, <2>2, MovesKeepInv DEF FinalLock, LockTx, TypeOK, Pcs
  <2>3. QED BY <2>1, <2>2
<1>10. CASE FinalSend(a)
  <2>1. [of |-> a, event |-> "final"] \in Payload /\ "done" \in Pcs
        BY DEF Payload, Pcs
  <2>2. Send(a, "final", "done") /\ pc[a] = "send"
        /\ UNCHANGED <<busVars, rtVars, tableVars, seenVars>>
        BY <1>10 DEF FinalSend
  <2>3. QED BY <1>1, <2>1, <2>2, SendKeepsInv
<1>11. QED BY <1>3, <1>4, <1>5, <1>6, <1>7, <1>8, <1>9, <1>10 DEF ActionStep

LEMMA NextInv == IndInv /\ [Next]_vars => IndInv'
<1> SUFFICES ASSUME IndInv, [Next]_vars PROVE IndInv'
    OBVIOUS
<1>1. CASE RunStep \/ PublisherStep \/ LoseLink \/ AppendHandlers
      BY <1>1, RuntimeKeepsInv
<1>2. ASSUME NEW o \in Outputs, OutputStep(o) PROVE IndInv'
      BY <1>2, OutputKeepsInv
<1>3. ASSUME NEW a \in Actions, Call(a) \/ ActionStep(a) PROVE IndInv'
      BY <1>3, ActionKeepsInv
<1>4. CASE UNCHANGED vars
      BY <1>4 DEF vars, IndInv, TypeOK, LockInv, OrderInv
<1>5. QED BY <1>1, <1>2, <1>3, <1>4 DEF Next

(* The lock is held by the one who sends, the channel is within its bound and  *)
(* keeps the order of each action's events (notify, handle_action, handle_call). *)
THEOREM Invariance == Spec => []IndInv
BY InitInv, NextInv, PTL DEF Spec

(* Nobody sends to a channel whose receiver is gone: run() takes the sender     *)
(* under the lock that others hold while they send (run, PUBLISHER_TX).        *)
THEOREM NobodySendsInVain == Spec => []SendersHaveAChannel
<1>1. IndInv => SendersHaveAChannel
      BY EapiAssumption DEF IndInv, LockInv, TypeOK, SendersHaveAChannel
<1>2. QED BY Invariance, <1>1, PTL

(* The bus never sees an action run after it has seen it completed or failed,   *)
(* over whatever connections its events have gone (handle_call, the publisher). *)
THEOREM FinalStays == Spec => FinalIsLast
<1>1. IndInv /\ [Next]_vars => [\A a \in Actions : seen[a] = "final" => seen'[a] = "final"]_vars
  <2> SUFFICES ASSUME IndInv, [Next]_vars, NEW a \in Actions, seen[a] = "final"
               PROVE  seen'[a] = "final"
      OBVIOUS
  <2>1. CASE Publish
    <3>1. sending \notin EventsOf(a) /\ sending \in Payload
          BY <2>1 DEF IndInv, OrderInv, TypeOK, Publish
    <3>2. sending.of # a
          BY <3>1, EapiAssumption DEF EventsOf, Payload
    <3>3. QED BY <2>1, <3>2 DEF Publish
  <2>2. CASE ~Publish
        BY <2>2 DEF Next, RunStep, Connect, StoreTx, Notice, TakeTx, PublisherStep, Receive,
                    LoseLink, AppendHandlers, OutputStep, StartNotify, NotifyLock, NotifySend,
                    Call, ActionStep, Begin, FindHandler, RunningLock, RunningSend,
                    HandlerReturns, FinalLock, FinalSend, vars
  <2>3. QED BY <2>1, <2>2
<1>2. QED BY Invariance, <1>1, PTL DEF Spec, FinalIsLast
=============================================================================
