-------------------------------- MODULE Opcua --------------------------------
(***************************************************************************)
(* The OPC-UA client of src/src/io/opcua: one session, shared by the input  *)
(* and the output workers generated for it, and the cache of written values *)
(* every output keeps.                                                      *)
(*                                                                         *)
(* An output enters a value in its cache before it writes it, and a write   *)
(* that fails leaves it there.  Only an input drops a session: the wrapper  *)
(* of an output logs the error and nothing more.                            *)
(***************************************************************************)
EXTENDS PlcStatus

CONSTANTS
  Inputs,     \* the input workers
  Outputs,    \* the output workers
  Nodes,      \* the nodes the outputs write
  Owner,      \* the output a node belongs to
  Variable,   \* the nodes whose values programs go on to change
  Values,     \* the values of a node
  Default,    \* what a node holds when its server starts
  None,
  MaxFaults   \* bound: losses of the session and restarts of the server

ASSUME OpcAssumption ==
  /\ Inputs \cap Outputs = {}
  /\ Owner \in [Nodes -> Outputs]
  /\ Variable \subseteq Nodes
  /\ Default \in Values
  /\ None \notin Values
  /\ MaxFaults \in Nat

Workers == Inputs \cup Outputs

VARIABLES
  status,     \* the status of the controller, from Preparing on
  ctx,        \* the context, as far as it is mapped to nodes
  session,    \* OpcSafeSess.session
  server,     \* what the nodes hold on the server
  cache,      \* the caches of the outputs, by node
  pc,         \* where a worker stands
  lastSync,   \* the round of an output is its final one
  round,      \* the values an output has copied in its round
  kept,       \* the nodes whose values retain_map_modified() has left in it
  lost,       \* history: nodes whose last write may not have been done, or undone
  faults      \* losses of the session and restarts so far

sideVars == <<status, ctx, faults>>
vars == <<status, ctx, session, server, cache, pc, lastSync, round, kept, lost, faults>>

Sessions == {"none", "up", "dead"}

InputPcs  == {"idle", "reconnect", "done"}
OutputPcs == {"idle", "retain", "write", "done"}

Mine(o) == {n \in Nodes : Owner[n] = o}

Goto(w, p) == pc' = [pc EXCEPT ![w] = p]

(* f, with the values of g for the nodes in S *)
Overwrite(f, S, g) == [n \in Nodes |-> IF n \in S THEN g[n] ELSE f[n]]

Init ==
  /\ status = Preparing
  /\ ctx \in [Nodes -> Values]
  /\ session = "none"
  /\ server = [n \in Nodes |-> Default]
  /\ cache = [n \in Nodes |-> None]
  /\ pc = [w \in Workers |-> "idle"]
  /\ lastSync = [o \in Outputs |-> FALSE]
  /\ round = [n \in Nodes |-> None]
  /\ kept = {}
  /\ lost = {}
  /\ faults = 0

-----------------------------------------------------------------------------
(* The controller, the programs and the server.                             *)

(* The scheduler stores the status; see Tasks. *)
NextStatus ==
  /\ \/ status = Preparing /\ status' = Active
     \/ status = Active    /\ status' = Stopping
     \/ status = Stopping  /\ status' = StopSyncing
  /\ UNCHANGED <<ctx, session, server, cache, pc, lastSync, round, kept, lost, faults>>

WriteContext ==
  /\ \E n \in Variable, v \in Values : ctx' = [ctx EXCEPT ![n] = v]
  /\ UNCHANGED <<status, session, server, cache, pc, lastSync, round, kept, lost, faults>>

(* The session does not come back by itself: session_retry_limit(0). *)
SessionDies ==
  /\ session = "up" /\ faults < MaxFaults
  /\ session' = "dead"
  /\ faults' = faults + 1
  /\ UNCHANGED <<status, ctx, server, cache, pc, lastSync, round, kept, lost>>

ServerRestarts ==
  /\ faults < MaxFaults
  /\ session' = IF session = "up" THEN "dead" ELSE session
  /\ server' = [n \in Nodes |-> Default]
  /\ lost' = Nodes
  /\ faults' = faults + 1
  /\ UNCHANGED <<status, ctx, cache, pc, lastSync, round, kept>>

(* Mutant: an entry stays. *)
ExpireNever(n) == cache[n] # None /\ UNCHANGED vars

(* The TTL of an entry passes, or the cache is full. *)
Expire(n) ==
  /\ cache[n] # None
  /\ cache' = [cache EXCEPT ![n] = None]
  /\ UNCHANGED <<sideVars, session, server, pc, lastSync, round, kept, lost>>

-----------------------------------------------------------------------------
(* An input: session.read(), and reconnect() when it has failed, by which   *)
(* time another worker may have opened a session already.                   *)

ReadNodes(i) ==
  /\ pc[i] = "idle"
  /\ session \in {"none", "up"}
  /\ session' = "up"
  /\ Goto(i, IF NeedStop(status) THEN "done" ELSE "idle")
  /\ UNCHANGED <<sideVars, server, cache, lastSync, round, kept, lost>>

(* No connection can be made, the session is dead, the server is late. *)
ReadFails(i) ==
  /\ pc[i] = "idle"
  /\ session' \in (IF session = "none" THEN {"none", "up"} ELSE {session})
  /\ Goto(i, "reconnect")
  /\ UNCHANGED <<sideVars, server, cache, lastSync, round, kept, lost>>

(* Mutant: the wrapper of an output. *)
ReconnectNever(i) ==
  /\ pc[i] = "reconnect"
  /\ Goto(i, IF NeedStop(status) THEN "done" ELSE "idle")
  /\ UNCHANGED <<sideVars, session, server, cache, lastSync, round, kept, lost>>

Reconnect(i) ==
  /\ pc[i] = "reconnect"
  /\ session' = "none"
  /\ Goto(i, IF NeedStop(status) THEN "done" ELSE "idle")
  /\ UNCHANGED <<sideVars, server, cache, lastSync, round, kept, lost>>

-----------------------------------------------------------------------------
(* An output: spawn_loop's round.                                           *)

(* output_last_sync(), then a new map of values under the context's lock. *)
StartRound(o) ==
  /\ pc[o] = "idle"
  /\ lastSync' = [lastSync EXCEPT ![o] = OutputLastSync(status)]
  /\ round' = Overwrite(round, Mine(o), ctx)
  /\ kept' = kept \cup Mine(o)
  /\ Goto(o, "retain")
  /\ UNCHANGED <<sideVars, session, server, cache, lost>>

(* Mutant: a node in the cache is taken for written. *)
ModifiedUnlessCached(o) == {n \in Mine(o) : cache[n] = None}

(* The nodes whose value is not the cached one. *)
Modified(o) == {n \in Mine(o) : cache[n] # round[n]}

(* Mutant: the cache is asked in every round. *)
RetainAlways(o) ==
  /\ pc[o] = "retain"
  /\ kept' = kept \ (Mine(o) \ Modified(o))
  /\ cache' = Overwrite(cache, Modified(o), round)
  /\ Goto(o, "write")
  /\ UNCHANGED <<sideVars, session, server, lastSync, round, lost>>

(* retain_map_modified(), asked for by an active controller only. *)
Retain(o) ==
  /\ pc[o] = "retain"
  /\ IF status = Active
       THEN /\ kept' = kept \ (Mine(o) \ Modified(o))
            /\ cache' = Overwrite(cache, Modified(o), round)
       ELSE UNCHANGED <<kept, cache>>
  /\ Goto(o, "write")
  /\ UNCHANGED <<sideVars, session, server, lastSync, round, lost>>

EndRound(o) == Goto(o, IF lastSync[o] THEN "done" ELSE "idle")

Pending(o) == kept \cap Mine(o)

NothingToWrite(o) ==
  /\ pc[o] = "write"
  /\ Pending(o) = {}
  /\ EndRound(o)
  /\ UNCHANGED <<sideVars, session, server, cache, lastSync, round, kept, lost>>

(* session.write(): every node has a status of its own, which is logged. *)
WriteNodes(o) ==
  /\ pc[o] = "write"
  /\ Pending(o) # {}
  /\ session \in {"none", "up"}
  /\ session' = "up"
  /\ \E good \in SUBSET Pending(o) :
       /\ server' = Overwrite(server, good, round)
       /\ lost' = (lost \ good) \cup (Pending(o) \ good)
  /\ EndRound(o)
  /\ UNCHANGED <<sideVars, cache, lastSync, round, kept>>

(* As a read fails; the server may have done what it has not confirmed. *)
WriteFails(o) ==
  /\ pc[o] = "write"
  /\ Pending(o) # {}
  /\ session' \in (IF session = "none" THEN {"none", "up"} ELSE {session})
  /\ \/ UNCHANGED server
     \/ session' = "up" /\ server' = Overwrite(server, Pending(o), round)
  /\ lost' = lost \cup Pending(o)
  /\ EndRound(o)
  /\ UNCHANGED <<sideVars, cache, lastSync, round, kept>>

-----------------------------------------------------------------------------
InputStep(i) == ReadNodes(i) \/ ReadFails(i) \/ Reconnect(i)

OutputStep(o) ==
  \/ StartRound(o) \/ Retain(o)
  \/ NothingToWrite(o) \/ WriteNodes(o) \/ WriteFails(o)

Next ==
  \/ NextStatus \/ WriteContext \/ SessionDies \/ ServerRestarts
  \/ \E n \in Nodes : Expire(n)
  \/ \E i \in Inputs : InputStep(i)
  \/ \E o \in Outputs : OutputStep(o)

Spec == Init /\ [][Next]_vars

(* The threads run, a TTL passes, and a node that is written again and again  *)
(* with a session is in the end written.                                      *)
WriteNode(n) ==
  /\ n \in kept
  /\ WriteNodes(Owner[n])
  /\ server'[n] = round[n]

Fairness ==
  /\ \A i \in Inputs : WF_vars(InputStep(i))
  /\ \A o \in Outputs : WF_vars(OutputStep(o))
  /\ \A n \in Nodes : WF_vars(Expire(n)) /\ SF_vars(WriteNode(n))

FairSpec == Spec /\ Fairness

-----------------------------------------------------------------------------
TypeOK ==
  /\ status \in {Preparing, Active, Stopping, StopSyncing}
  /\ ctx \in [Nodes -> Values]
  /\ session \in Sessions
  /\ server \in [Nodes -> Values]
  /\ cache \in [Nodes -> Values \cup {None}]
  /\ pc \in [Workers -> InputPcs \cup OutputPcs]
  /\ \A i \in Inputs : pc[i] \in InputPcs
  /\ \A o \in Outputs : pc[o] \in OutputPcs
  /\ lastSync \in [Outputs -> BOOLEAN]
  /\ round \in [Nodes -> Values \cup {None}]
  /\ kept \subseteq Nodes /\ lost \subseteq Nodes
  /\ faults \in 0 .. MaxFaults

(* Between the rounds of an output the server holds what its last round has   *)
(* copied from the context, except for nodes whose last write has failed or    *)
(* the server has forgotten: what the cache leaves out need not be written     *)
(* (retain_map_modified, cache.rs).                                           *)
ServedOrLost ==
  \A n \in Nodes :
    pc[Owner[n]] \in {"idle", "done"} /\ round[n] # None
      => server[n] = round[n] \/ n \in lost

(* The final round of an output writes every node, whatever its cache says:   *)
(* is_active() is read after the status that made the round the final one.    *)
FinalRoundIsWhole ==
  \A o \in Outputs : pc[o] = "done" => Mine(o) \subseteq kept

-----------------------------------------------------------------------------
(* The inductive invariant.                                                  *)

(* An active output has written what is in its cache, or is about to.        *)
CacheWritten ==
  \A n \in Nodes :
    status = Active /\ cache[n] # None =>
      IF pc[Owner[n]] = "write" /\ n \in kept
        THEN cache[n] = round[n]
        ELSE server[n] = cache[n] \/ n \in lost

(* No cache is used before the controller is active. *)
CacheUnused == status = Preparing => \A n \in Nodes : cache[n] = None

(* As ServedOrLost, and for the nodes a round has already decided to leave.   *)
RoundServed ==
  \A n \in Nodes :
    /\ round[n] # None
    /\ \/ pc[Owner[n]] \in {"idle", "done"}
       \/ pc[Owner[n]] = "write" /\ n \notin kept
    => server[n] = round[n] \/ n \in lost

RoundCopied ==
  \A n \in Nodes : pc[Owner[n]] \in {"retain", "write"} => round[n] \in Values

RoundWhole ==
  \A o \in Outputs :
    /\ lastSync[o] => status = StopSyncing
    /\ pc[o] \in {"retain", "done"} => Mine(o) \subseteq kept
    /\ pc[o] = "write" /\ lastSync[o] => Mine(o) \subseteq kept

Inv == CacheWritten /\ CacheUnused /\ RoundServed /\ RoundCopied /\ RoundWhole

(* What the caches and the rounds say of the server at every step (OpcCache,  *)
(* push_output_worker).                                                       *)
IndInv == TypeOK /\ Inv

-----------------------------------------------------------------------------
(* A lost session is given up, as long as the inputs run (the wrapper of an    *)
(* input worker, push_input_worker).                                          *)
DeadSessionIsReplaced ==
  session = "dead" ~> session # "dead" \/ NeedStop(status)

(* A value that stays in the context of an active controller reaches the      *)
(* server, though a failed write has left it in the cache: the entry expires   *)
(* (OpcCache.ttl).                                                            *)
LostValueIsRewritten ==
  \A n \in Nodes, v \in Values :
    <>[](ctx[n] = v /\ status = Active) => <>[](server[n] = v)
=============================================================================
