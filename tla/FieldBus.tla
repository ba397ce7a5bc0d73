------------------------------ MODULE FieldBus ------------------------------
(***************************************************************************)
(* One communicator of src/src/comm and the Modbus workers that share it.   *)
(* src/src/io/modbus/mod.rs generates an input or output worker for every   *)
(* request of a bus; all carry the same transaction id, so an answer can be *)
(* told from another only by its shape.  A worker holds `busy` from the     *)
(* request to the answer, but parses the answer, and reconnects, after it   *)
(* has given `busy` up.                                                     *)
(*                                                                         *)
(* The read time-out of a TCP stream comes as WouldBlock on Linux, not as   *)
(* TimedOut: the stream is kept, and so is an answer that is only late.     *)
(* SerialComm calls reconnect() on an error with its port mutex locked.     *)
(***************************************************************************)
EXTENDS Naturals, Sequences

CONSTANTS
  Workers,    \* the input and output workers of the bus
  Shape,      \* what the parser sees of a worker's answer: unit, function, size
  Serial,     \* SerialComm, not TcpComm
  MaxWire,    \* bound: the answers that may be on their way at a time
  None

ASSUME BusAssumption ==
  /\ None \notin Workers
  /\ Serial \in BOOLEAN
  /\ MaxWire \in Nat
  /\ DOMAIN Shape = Workers

VARIABLES
  busy,       \* the holder of Comm::lock()
  stream,     \* the connection, as far as the peer lets it be one
  wire,       \* the answers the device gives on the stream, in order
  pc,         \* where a worker stands
  got         \* the answer a worker has read

vars == <<busy, stream, wire, pc, got>>

(* An answer: to whose request, whole or without the header already read,   *)
(* and whether the transaction it belongs to is over.                       *)
Answer == [of : Workers, part : {"whole", "rest"}, late : BOOLEAN]

NoAnswer == [of |-> None]

(* "closed": the peer has closed the connection; "reset": it says so.        *)
Streams == {"none", "up", "closed", "reset"}

Pcs == {"out", "write", "header", "rest", "parse", "reconnect", "stuck"}

Goto(w, p) == pc' = [pc EXCEPT ![w] = p]

(* A worker inside a call of SerialComm that waits for its own mutex. *)
PortLocked == \E w \in Workers : pc[w] = "stuck"

Init ==
  /\ busy = None
  /\ stream = "none"
  /\ wire = <<>>
  /\ pc = [w \in Workers |-> "out"]
  /\ got = [w \in Workers |-> NoAnswer]

-----------------------------------------------------------------------------
(* Helpers. *)

(* The answers still to come belong to a transaction that is over. *)
Overdue == [i \in DOMAIN wire |-> [wire[i] EXCEPT !.late = TRUE]]

(* Mutant: what was on its way still comes. *)
TakeStreamOnly == stream' = "none" /\ UNCHANGED wire

(* The stream is dropped, and whatever was on its way with it. *)
TakeStream == stream' = "none" /\ wire' = <<>>

(* An early return: the lock guard is dropped. *)
GiveUp(w) == busy' = None /\ Goto(w, "out") /\ UNCHANGED got

(* reconnect() inside a call that holds the port. *)
SelfLock(w) == Serial /\ Goto(w, "stuck") /\ UNCHANGED <<busy, stream, wire, got>>

(* Mutant: a worker does not take the lock. *)
BeginUnlocked(w) ==
  /\ pc[w] = "out"
  /\ busy' = w
  /\ Goto(w, "write")
  /\ UNCHANGED <<stream, wire, got>>

(* comm.lock() *)
Begin(w) ==
  /\ pc[w] = "out"
  /\ busy = None
  /\ busy' = w
  /\ Goto(w, "write")
  /\ UNCHANGED <<stream, wire, got>>

-----------------------------------------------------------------------------
(* write(): get_stream() or get_port(), then write_all().                   *)

(* The device answers, or has lost the request. *)
Write(w) ==
  /\ pc[w] = "write"
  /\ stream \in {"none", "up"}
  /\ stream' = "up"
  /\ \/ /\ Len(wire) < MaxWire
        /\ wire' = Append(wire, [of |-> w, part |-> "whole", late |-> FALSE])
     \/ UNCHANGED wire
  /\ Goto(w, "header")
  /\ UNCHANGED <<busy, got>>

(* The first write to a closed connection succeeds. *)
WriteToClosed(w) ==
  /\ pc[w] = "write"
  /\ stream = "closed"
  /\ stream' = "reset"
  /\ Goto(w, "header")
  /\ UNCHANGED <<busy, wire, got>>

(* The connection cannot be made, the port cannot be opened. *)
ConnectFails(w) ==
  /\ pc[w] \in {"write", "header", "rest"}
  /\ stream = "none"
  /\ GiveUp(w)
  /\ UNCHANGED <<stream, wire>>

(* Mutant: a write error is treated like a read error. *)
WriteFailsAsRead(w) ==
  /\ pc[w] = "write"
  /\ stream # "none"
  /\ \/ SelfLock(w)
     \/ ~Serial /\ GiveUp(w) /\ UNCHANGED <<stream, wire>>

WriteFails(w) ==
  /\ pc[w] = "write"
  /\ stream # "none"
  /\ \/ SelfLock(w)
     \/ ~Serial /\ GiveUp(w) /\ TakeStream

-----------------------------------------------------------------------------
(* read_exact(), of the six bytes a frame length is guessed from and of the *)
(* rest of the frame.  Another worker may have reconnected in between: then *)
(* the stream is opened again, and there is nothing to read on it.          *)

ReadHeader(w) ==
  /\ pc[w] = "header"
  /\ wire # <<>>
  /\ Head(wire).part = "whole"
  /\ wire' = [wire EXCEPT ![1].part = "rest"]
  /\ got' = [got EXCEPT ![w] = Head(wire)]
  /\ Goto(w, "rest")
  /\ UNCHANGED <<busy, stream>>

(* The rest of a frame taken for a header: no frame, or a wrong one, is      *)
(* recognised, and answers are swallowed with it, the last maybe in part.    *)
ReadGarbage(w) ==
  /\ pc[w] = "header"
  /\ wire # <<>>
  /\ Head(wire).part = "rest"
  /\ \E n \in 0 .. Len(wire), p \in {"whole", "rest"} :
       /\ n = 0 => p = "rest"
       /\ wire' = [i \in 1 .. Len(wire) - n |->
                     [wire[i + n] EXCEPT !.late = TRUE,
                                         !.part = IF i = 1 THEN p ELSE @]]
  /\ busy' = None
  /\ Goto(w, "out") \/ Goto(w, "reconnect")
  /\ UNCHANGED <<stream, got>>

(* The transaction is over with this frame, whosever answer it is. *)
ReadRest(w) ==
  /\ pc[w] = "rest"
  /\ wire # <<>>
  /\ wire' = Tail(Overdue)
  /\ busy' = None
  /\ Goto(w, "parse")
  /\ UNCHANGED <<stream, got>>

(* Mutant: the read is tried again, with the bus locked. *)
ReadFailsRetried(w) ==
  /\ pc[w] \in {"header", "rest"}
  /\ stream' = IF stream = "none" THEN "up" ELSE stream
  /\ UNCHANGED <<busy, wire, pc, got>>

(* The time-out, or the end of a closed connection: TcpComm keeps the stream. *)
ReadFails(w) ==
  /\ pc[w] \in {"header", "rest"}
  /\ \/ SelfLock(w)
     \/ /\ ~Serial
        /\ GiveUp(w)
        /\ stream' = IF stream = "none" THEN "up" ELSE stream
        /\ wire' = Overdue

-----------------------------------------------------------------------------
(* The parser, with the lock given up: the answer of another request of the  *)
(* same shape is taken for one's own, and any other is an error.             *)
Accept(w) ==
  /\ pc[w] = "parse"
  /\ Shape[got[w].of] = Shape[w]
  /\ Goto(w, "out")
  /\ UNCHANGED <<busy, stream, wire, got>>

(* An error of the parser or of the device; UnknownError asks to reconnect. *)
Reject(w) ==
  /\ pc[w] = "parse"
  /\ \/ Goto(w, "out")
     \/ Goto(w, "reconnect")
  /\ UNCHANGED <<busy, stream, wire, got>>

(* reconnect(), possibly in the middle of another worker's transaction. *)
Reconnect(w) ==
  /\ pc[w] = "reconnect"
  /\ ~PortLocked
  /\ TakeStream
  /\ Goto(w, "out")
  /\ UNCHANGED <<busy, got>>

(* The device goes away; some of its answers may still come. *)
PeerCloses ==
  /\ ~Serial
  /\ stream = "up"
  /\ stream' = "closed"
  /\ \E n \in 0 .. Len(wire) : wire' = SubSeq(wire, 1, n)
  /\ UNCHANGED <<busy, pc, got>>

-----------------------------------------------------------------------------
Step(w) ==
  \/ Write(w) \/ WriteToClosed(w) \/ ConnectFails(w) \/ WriteFails(w)
  \/ ReadHeader(w) \/ ReadGarbage(w) \/ ReadRest(w) \/ ReadFails(w)
  \/ Accept(w) \/ Reject(w) \/ Reconnect(w)

Next ==
  \/ \E w \in Workers : Begin(w) \/ Step(w)
  \/ PeerCloses

Spec == Init /\ [][Next]_vars

(* The threads run, every call of a stream ends by its time-out, and the     *)
(* mutex is eventually fair.  Nothing is promised of the device.             *)
Fairness == \A w \in Workers : WF_vars(Step(w)) /\ SF_vars(Begin(w))

FairSpec == Spec /\ Fairness

-----------------------------------------------------------------------------
TypeOK ==
  /\ busy \in Workers \cup {None}
  /\ stream \in Streams
  /\ wire \in Seq(Answer) /\ Len(wire) <= MaxWire
  /\ pc \in [Workers -> Pcs]
  /\ got \in [Workers -> Answer \cup {NoAnswer}]

(* A worker parses the answer to the request it has just made, or one that a *)
(* transaction before it has left behind: no reconnection of another worker,  *)
(* in the middle of its transaction, and no transaction of another worker     *)
(* makes it read anything else (comm.lock, reconnect after it).               *)
OwnAnswerOrLate ==
  \A w \in Workers : pc[w] = "parse" => got[w].late \/ got[w].of = w

-----------------------------------------------------------------------------
(* The inductive invariant.                                                  *)

(* A worker in its transaction holds the bus. *)
LockInv == \A w \in Workers : pc[w] \in {"write", "header", "rest", "stuck"} => busy = w

(* Nothing is on its way without a stream. *)
StreamInv == stream = "none" => wire = <<>>

(* An answer on its way is late, or for the worker that waits for it. *)
WireInv ==
  \A i \in DOMAIN wire :
    \/ wire[i].late
    \/ /\ busy \in Workers
       /\ wire[i].of = busy
       /\ pc[busy] \in {"header", "rest", "stuck"}

GotInv ==
  \A w \in Workers :
    pc[w] \in {"rest", "parse"} =>
      got[w] \in Answer /\ (got[w].late \/ got[w].of = w)

Inv == LockInv /\ StreamInv /\ WireInv /\ GotInv

(* What holds at every step of a transaction, by which workers that share a    *)
(* bus do not read one another's answers (Comm::lock, TcpComm::reconnect).     *)
IndInv == TypeOK /\ Inv

-----------------------------------------------------------------------------
(* Every call of a communicator returns: a worker whose device fails comes    *)
(* back with an error and the bus is free for the others, so that every        *)
(* worker makes transactions again and again, and can be stopped in between   *)
(* (Comm::lock, write, read_exact).                                           *)
TransactionsEnd ==
  \A w \in Workers : []<>(pc[w] = "out") /\ []<>(pc[w] # "out")

(* A connection the peer has closed is given up, although a failed read does  *)
(* not give it up (handle_tcp_stream_error).                                  *)
DeadStreamIsDropped == stream = "closed" ~> stream \in {"none", "up"}
=============================================================================
