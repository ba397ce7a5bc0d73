-------------------------------- MODULE Eapi --------------------------------
(***************************************************************************)
(* The connection to the EVA ICS bus, src/src/eapi.rs: a service thread     *)
(* with a single-threaded runtime, on which run() connects, watches the     *)
(* connection and hosts the publisher task; the outputs that notify() and   *)
(* the blocking threads that execute actions send to the publisher through  *)
(* one bounded channel.                                                     *)
(*                                                                         *)
(* Who sends holds PUBLISHER_TX until there is room in the channel.  When   *)
(* run() finds the connection lost it aborts the publisher and locks        *)
(* PUBLISHER_TX: it blocks the runtime's only thread behind the sender, and *)
(* the receiver of a full channel is neither read from nor dropped.         *)
(***************************************************************************)
EXTENDS Naturals, Sequences, FiniteSets

CONSTANTS
  Outputs,    \* the EAPI output workers
  Actions,    \* the actions the bus calls, each once
  QueueSize,  \* EVENT_CHANNEL_SIZE
  PoolSize,   \* the blocking threads of the runtime
  MaxLosses,  \* bound: losses of the connection
  None

(* A state of an output, or an event of an action. *)
Payload == [of : Outputs, event : {"state"}] \cup [of : Actions, event : {"running", "final"}]

ASSUME EapiAssumption ==
  /\ Outputs \cap Actions = {}
  /\ None \notin Outputs \cup Actions \cup Payload
  /\ QueueSize \in Nat \ {0}
  /\ PoolSize \in Nat \ {0}
  /\ MaxLosses \in Nat

Senders == Outputs \cup Actions

VARIABLES
  link,       \* the client is connected
  losses,     \* how often it has been lost
  rt,         \* where run() stands
  tx,         \* PUBLISHER_TX holds a sender
  txLock,     \* who has PUBLISHER_TX locked
  table,      \* the handlers are in ACTION_HANDLERS
  tableLock,  \* who has ACTION_HANDLERS locked
  chan,       \* the channel
  sending,    \* what the publisher has received and not yet published
  pc,         \* where an output or an action stands
  seen,       \* the last event of an action the bus has seen
  calledIn    \* history: the losses before an action was called

busVars == <<link, losses>>
seenVars == <<seen, calledIn>>
rtVars == <<rt, tx, sending>>
tableVars == <<table, tableLock>>
vars == <<link, losses, rt, tx, txLock, table, tableLock, chan, sending, pc, seen, calledIn>>

Pcs == {"idle", "called", "begun", "wantRunning", "sendRunning", "handler",
        "want", "send", "done"}

Goto(s, p) == pc' = [pc EXCEPT ![s] = p]

Init ==
  /\ link = FALSE /\ losses = 0
  /\ rt = "connect"
  /\ tx = FALSE /\ txLock = None
  /\ table = FALSE /\ tableLock = None
  /\ chan = <<>>
  /\ sending = None
  /\ pc = [s \in Senders |-> "idle"]
  /\ seen = [a \in Actions |-> "nothing"]
  /\ calledIn = [a \in Actions |-> 0]

-----------------------------------------------------------------------------
(* run().  After an error or a disconnection it waits and starts again.      *)

Connect ==
  /\ rt = "connect"
  /\ link' = TRUE
  /\ chan' = <<>>
  /\ rt' = "store"
  /\ UNCHANGED <<losses, tx, txLock, tableVars, sending, pc, seenVars>>

(* PUBLISHER_TX.lock().replace() *)
StoreTx ==
  /\ rt = "store"
  /\ txLock = None
  /\ tx' = TRUE
  /\ rt' = "up"
  /\ UNCHANGED <<busVars, txLock, tableVars, chan, sending, pc, seenVars>>

LoseLink ==
  /\ link /\ losses < MaxLosses
  /\ link' = FALSE
  /\ losses' = losses + 1
  /\ UNCHANGED <<rtVars, txLock, tableVars, chan, pc, seenVars>>

(* is_connected() is false: the publisher is aborted. *)
Notice ==
  /\ rt = "up"
  /\ ~link
  /\ rt' = "take"
  /\ UNCHANGED <<busVars, tx, txLock, tableVars, chan, sending, pc, seenVars>>

(* Mutant: the sender is taken from under whoever uses it. *)
TakeTxAtOnce ==
  /\ rt = "take"
  /\ tx' = FALSE
  /\ rt' = "connect"
  /\ chan' = <<>> /\ sending' = None
  /\ UNCHANGED <<busVars, txLock, tableVars, pc, seenVars>>

(* PUBLISHER_TX.lock().take(); then the runtime drops the aborted publisher, *)
(* its receiver and what was in the channel.                                *)
TakeTx ==
  /\ rt = "take"
  /\ txLock = None
  /\ tx' = FALSE
  /\ rt' = "connect"
  /\ chan' = <<>> /\ sending' = None
  /\ UNCHANGED <<busVars, txLock, tableVars, pc, seenVars>>

(* The publisher task.  While run() is about to lock PUBLISHER_TX, or waits   *)
(* for it, no task of the runtime makes a step.                             *)
Receive ==
  /\ rt = "up"
  /\ sending = None
  /\ chan # <<>>
  /\ sending' = Head(chan)
  /\ chan' = Tail(chan)
  /\ UNCHANGED <<busVars, rt, tx, txLock, tableVars, pc, seenVars>>

(* Without a connection publish() fails: the payload is gone. *)
Publish ==
  /\ rt = "up"
  /\ sending # None
  /\ sending' = None
  /\ seen' = IF link /\ sending.of \in Actions
               THEN [seen EXCEPT ![sending.of] = sending.event]
               ELSE seen
  /\ UNCHANGED <<busVars, rt, tx, txLock, tableVars, chan, pc, calledIn>>

-----------------------------------------------------------------------------
(* A send, in two steps: PUBLISHER_TX is locked, and held until there is     *)
(* room.  `on' and `off' are where a sender goes with and without a channel. *)

(* Mutant: the lock is not given back when there is no channel. *)
LockTxForEver(s, on, off) ==
  /\ txLock = None
  /\ txLock' = s
  /\ Goto(s, IF tx THEN on ELSE off)

LockTx(s, on, off) ==
  /\ txLock = None
  /\ txLock' = IF tx THEN s ELSE None
  /\ Goto(s, IF tx THEN on ELSE off)

(* Mutant: the channel has no bound. *)
SendAnyway(s, event, next) ==
  /\ chan' = Append(chan, [of |-> s, event |-> event])
  /\ txLock' = None
  /\ Goto(s, next)

(* Mutant: the channel does not keep the order. *)
SendFirst(s, event, next) ==
  /\ Len(chan) < QueueSize
  /\ chan' = <<[of |-> s, event |-> event]>> \o chan
  /\ txLock' = None
  /\ Goto(s, next)

Send(s, event, next) ==
  /\ Len(chan) < QueueSize
  /\ chan' = Append(chan, [of |-> s, event |-> event])
  /\ txLock' = None
  /\ Goto(s, next)

(* An output: notify(), again and again. *)
StartNotify(o) ==
  /\ pc[o] = "idle"
  /\ Goto(o, "want")
  /\ UNCHANGED <<busVars, rtVars, txLock, tableVars, chan, seenVars>>

NotifyLock(o) ==
  /\ pc[o] = "want"
  /\ LockTx(o, "send", "idle")
  /\ UNCHANGED <<busVars, rtVars, tableVars, chan, seenVars>>

NotifySend(o) ==
  /\ pc[o] = "send"
  /\ Send(o, "state", "idle")
  /\ UNCHANGED <<busVars, rtVars, tableVars, seenVars>>

-----------------------------------------------------------------------------
(* An action. *)

(* launch_datasync() registers the handlers after launch() has returned. *)
AppendHandlers ==
  /\ ~table /\ tableLock = None
  /\ table' = TRUE
  /\ UNCHANGED <<busVars, rtVars, txLock, tableLock, chan, pc, seenVars>>

(* handle_call(), on the runtime: spawn_blocking(). *)
Call(a) ==
  /\ rt = "up" /\ link
  /\ pc[a] = "idle"
  /\ Goto(a, "called")
  /\ calledIn' = [calledIn EXCEPT ![a] = losses]
  /\ UNCHANGED <<busVars, rtVars, txLock, tableVars, chan, seen>>

Begun == {a \in Actions : pc[a] \notin {"idle", "called", "done"}}

Begin(a) ==
  /\ pc[a] = "called"
  /\ Cardinality(Begun) < PoolSize
  /\ Goto(a, "begun")
  /\ UNCHANGED <<busVars, rtVars, txLock, tableVars, chan, seenVars>>

(* ACTION_HANDLERS.lock().get(), and the lock for as long as the handler runs. *)
FindHandler(a) ==
  /\ pc[a] = "begun"
  /\ tableLock = None
  /\ tableLock' = IF table THEN a ELSE None
  /\ Goto(a, IF table THEN "wantRunning" ELSE "want")
  /\ UNCHANGED <<busVars, rtVars, txLock, table, chan, seenVars>>

RunningLock(a) ==
  /\ pc[a] = "wantRunning"
  /\ LockTx(a, "sendRunning", "want")
  /\ tableLock' = IF tx THEN tableLock ELSE None
  /\ UNCHANGED <<busVars, rtVars, table, chan, seenVars>>

RunningSend(a) ==
  /\ pc[a] = "sendRunning"
  /\ Send(a, "running", "handler")
  /\ UNCHANGED <<busVars, rtVars, tableVars, seenVars>>

(* Mutant: an action whose handler fails is forgotten. *)
HandlerForgets(a) ==
  /\ pc[a] = "handler"
  /\ tableLock' = None
  /\ Goto(a, "want") \/ Goto(a, "done")
  /\ UNCHANGED <<busVars, rtVars, txLock, table, chan, seenVars>>

(* The handler returns, with an error or without. *)
HandlerReturns(a) ==
  /\ pc[a] = "handler"
  /\ tableLock' = None
  /\ Goto(a, "want")
  /\ UNCHANGED <<busVars, rtVars, txLock, table, chan, seenVars>>

(* The completed or failed event; without a channel the response is orphaned. *)
FinalLock(a) ==
  /\ pc[a] = "want"
  /\ LockTx(a, "send", "done")
  /\ UNCHANGED <<busVars, rtVars, tableVars, chan, seenVars>>

FinalSend(a) ==
  /\ pc[a] = "send"
  /\ Send(a, "final", "done")
  /\ UNCHANGED <<busVars, rtVars, tableVars, seenVars>>

-----------------------------------------------------------------------------
RunStep == Connect \/ StoreTx \/ Notice \/ TakeTx

PublisherStep == Receive \/ Publish

OutputStep(o) == StartNotify(o) \/ NotifyLock(o) \/ NotifySend(o)

ActionStep(a) ==
  \/ Begin(a) \/ FindHandler(a) \/ RunningLock(a) \/ RunningSend(a)
  \/ HandlerReturns(a) \/ FinalLock(a) \/ FinalSend(a)

Next ==
  \/ RunStep \/ PublisherStep \/ LoseLink \/ AppendHandlers
  \/ \E o \in Outputs : OutputStep(o)
  \/ \E a \in Actions : Call(a) \/ ActionStep(a)

Spec == Init /\ [][Next]_vars

(* The threads and the tasks of a runtime that is not blocked run, and the   *)
(* locks are eventually fair.  Nothing is promised of calls and losses.      *)
Fairness ==
  /\ SF_vars(RunStep) /\ WF_vars(Receive) /\ WF_vars(Publish)
  /\ WF_vars(AppendHandlers)
  /\ \A o \in Outputs : SF_vars(OutputStep(o))
  /\ \A a \in Actions : SF_vars(ActionStep(a))

FairSpec == Spec /\ Fairness

-----------------------------------------------------------------------------
TypeOK ==
  /\ link \in BOOLEAN /\ losses \in 0 .. MaxLosses
  /\ rt \in {"connect", "store", "up", "take"}
  /\ tx \in BOOLEAN /\ txLock \in Senders \cup {None}
  /\ table \in BOOLEAN /\ tableLock \in Actions \cup {None}
  /\ chan \in Seq(Payload) /\ Len(chan) <= QueueSize
  /\ sending \in Payload \cup {None}
  /\ pc \in [Senders -> Pcs]
  /\ seen \in [Actions -> {"nothing", "running", "final"}]
  /\ calledIn \in [Actions -> 0 .. losses]

(* Nobody sends to a channel whose receiver is gone, or through a sender that *)
(* is not PUBLISHER_TX's: run() takes the sender under the lock the others     *)
(* hold while they send (notify, handle_action, run).                         *)
SendersHaveAChannel ==
  \A s \in Senders :
    pc[s] \in {"sendRunning", "send"} => tx /\ rt \in {"up", "take"}

(* The inductive invariant.  The lock is held by the one who sends, *)
LockInv ==
  /\ \A s \in Senders : pc[s] \in {"sendRunning", "send"} <=> txLock = s
  /\ txLock # None => tx
  /\ tx <=> rt \in {"up", "take"}

EventsOf(a) == [of : {a}, event : {"running", "final"}]

(* and an action has nothing more to say after its final event, wherever that  *)
(* event is: in the channel, with the publisher, or on the bus.               *)
OrderInv ==
  \A a \in Actions :
    /\ \A i \in DOMAIN chan : chan[i] = [of |-> a, event |-> "final"] =>
         /\ pc[a] = "done"
         /\ \A j \in DOMAIN chan : j > i => chan[j] \notin EventsOf(a)
    /\ sending = [of |-> a, event |-> "final"] \/ seen[a] = "final" =>
         /\ pc[a] = "done"
         /\ \A j \in DOMAIN chan : chan[j] \notin EventsOf(a)
    /\ seen[a] = "final" => sending \notin EventsOf(a)

(* The channel stays within its bound, is sent to under the lock only, and     *)
(* keeps the order of an action's events (notify, handle_action, handle_call). *)
IndInv == TypeOK /\ LockInv /\ OrderInv

(* The bus never sees an action run after it has seen it completed or failed,  *)
(* over whatever connections the events have gone (handle_call).               *)
FinalIsLast == [][\A a \in Actions : seen[a] = "final" => seen'[a] = "final"]_vars

(* An action the bus has called is answered, unless that connection is lost,   *)
(* whether its handler is registered, busy, or fails (handle_call).            *)
ActionAnswered ==
  \A a \in Actions : pc[a] = "called" ~> seen[a] = "final" \/ losses > calledIn[a]

(* run() waits for a sender that waits for room. *)
Stuck == rt = "take" /\ txLock # None /\ Len(chan) = QueueSize

(* A lost connection is made again, unless it has been lost while a sender     *)
(* waited at a full channel: then never (run, PUBLISHER_TX).                   *)
RecoversUnlessFull == ~link ~> link \/ []Stuck
=============================================================================
