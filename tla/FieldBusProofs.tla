--------------------------- MODULE FieldBusProofs ---------------------------
(* Proofs of the safety properties of FieldBus, for any number of workers,   *)
(* on a TCP connection or a serial line.                                     *)
EXTENDS FieldBus, TLAPS

USE DEF Goto, GiveUp, SelfLock, TakeStream, Overdue, Streams, Pcs

LEMMA Initial == Init => TypeOK /\ Inv
<1> SUFFICES ASSUME Init PROVE TypeOK /\ Inv
    OBVIOUS
<1> USE BusAssumption DEF Init
<1>1. TypeOK
      BY DEF TypeOK
<1>2. LockInv /\ StreamInv /\ WireInv /\ GotInv
      BY DEF LockInv, StreamInv, WireInv, GotInv
<1>3. QED BY <1>1, <1>2 DEF Inv

(* An answer changed in its part or its lateness is still one, to the same request. *)
LEMMA Altered ==
  ASSUME NEW a \in Answer, NEW p \in {"whole", "rest"}, NEW l \in BOOLEAN
  PROVE  /\ [a EXCEPT !.late = l] \in Answer
         /\ [a EXCEPT !.part = p] \in Answer
         /\ [a EXCEPT !.late = l, !.part = p] \in Answer
         /\ [a EXCEPT !.late = l].late = l
         /\ [a EXCEPT !.late = l, !.part = p].late = l
         /\ [a EXCEPT !.part = p].late = a.late
         /\ [a EXCEPT !.part = p].of = a.of
         /\ a.part \in {"whole", "rest"}
BY DEF Answer

(* A sequence given by its elements. *)
LEMMA SeqOf ==
  ASSUME NEW T, NEW n \in Nat, NEW f \in [1 .. n -> T]
  PROVE  f \in Seq(T) /\ Len(f) = n /\ DOMAIN f = 1 .. n
OBVIOUS

LEMMA EmptyWire == <<>> \in Seq(Answer) /\ Len(<<>>) = 0 /\ DOMAIN <<>> = {}
OBVIOUS

LEMMA WireElements ==
  ASSUME NEW s \in Seq(Answer)
  PROVE  /\ Len(s) \in Nat
         /\ DOMAIN s = 1 .. Len(s)
         /\ \A i \in 1 .. Len(s) : s[i] \in Answer
OBVIOUS

(* What is left on the way when a transaction ends is late, and still answers. *)
LEMMA OverdueIsLate ==
  ASSUME wire \in Seq(Answer)
  PROVE  /\ Overdue \in Seq(Answer)
         /\ Len(Overdue) = Len(wire)
         /\ \A i \in DOMAIN Overdue : Overdue[i].late
<1>1. DOMAIN wire = 1 .. Len(wire) /\ Len(wire) \in Nat
      BY WireElements
<1>2. \A i \in 1 .. Len(wire) : /\ [wire[i] EXCEPT !.late = TRUE] \in Answer
                                /\ [wire[i] EXCEPT !.late = TRUE].late
      BY WireElements, Altered
<1>3. Overdue \in [1 .. Len(wire) -> Answer]
      BY <1>1, <1>2
<1>4. Overdue \in Seq(Answer) /\ Len(Overdue) = Len(wire)
      BY <1>1, <1>3, SeqOf
<1>5. \A i \in DOMAIN Overdue : Overdue[i].late
      BY <1>1, <1>2
<1>6. QED BY <1>4, <1>5

(* When a frame is misread, the last answers are left on the way, late. *)
LEMMA GarbageIsLate ==
  ASSUME NEW w \in Workers, ReadGarbage(w)
  PROVE  \E n \in 0 .. Len(wire), p \in {"whole", "rest"} :
           wire' = [i \in 1 .. Len(wire) - n |->
                     [wire[i + n] EXCEPT !.late = TRUE,
                                         !.part = IF i = 1 THEN p ELSE @]]
BY DEF ReadGarbage

LEMMA NextType == TypeOK /\ Inv /\ [Next]_vars => TypeOK'
<1> SUFFICES ASSUME TypeOK, Inv, [Next]_vars PROVE TypeOK'
    OBVIOUS
<1> USE BusAssumption DEF TypeOK
<1>1. ASSUME NEW w \in Workers, Begin(w) PROVE TypeOK'
      BY <1>1 DEF Begin
<1>2. ASSUME NEW w \in Workers, Write(w) PROVE TypeOK'
  <2>1. [of |-> w, part |-> "whole", late |-> FALSE] \in Answer
        BY DEF Answer
  <2>2. /\ wire' \in Seq(Answer)
        /\ Len(wire') <= MaxWire
    <3>1. CASE Len(wire) < MaxWire /\ wire' = Append(wire, [of |-> w, part |-> "whole", late |-> FALSE])
          BY <2>1, <3>1
    <3>2. CASE UNCHANGED wire
          BY <3>2
    <3>3. QED BY <1>2, <3>1, <3>2 DEF Write
  <2>3. QED BY <1>2, <2>2 DEF Write
<1>3. ASSUME NEW w \in Workers, WriteToClosed(w) PROVE TypeOK'
      BY <1>3 DEF WriteToClosed
<1>4. ASSUME NEW w \in Workers, ConnectFails(w) PROVE TypeOK'
      BY <1>4 DEF ConnectFails
<1>5. ASSUME NEW w \in Workers, WriteFails(w) PROVE TypeOK'
  <2>1. CASE SelfLock(w)
        BY <2>1
  <2>2. CASE GiveUp(w) /\ TakeStream
        BY <2>2, EmptyWire
  <2>3. QED BY <1>5, <2>1, <2>2 DEF WriteFails
<1>6. ASSUME NEW w \in Workers, ReadHeader(w) PROVE TypeOK'
  <2>1. Head(wire) = wire[1] /\ wire[1] \in Answer /\ 1 \in 1 .. Len(wire)
        BY <1>6 DEF ReadHeader
  <2>2. [wire[1] EXCEPT !.part = "rest"] \in Answer
        BY <2>1, Altered
  <2>3. wire' = [wire EXCEPT ![1] = [wire[1] EXCEPT !.part = "rest"]]
        BY <1>6 DEF ReadHeader
  <2>5. wire' \in Seq(Answer) /\ Len(wire') = Len(wire)
        BY <2>1, <2>2, <2>3
  <2>4. QED BY <1>6, <2>1, <2>5 DEF ReadHeader
<1>7. ASSUME NEW w \in Workers, ReadGarbage(w) PROVE TypeOK'
  <2>1. PICK n \in 0 .. Len(wire), p \in {"whole", "rest"} :
          wire' = [i \in 1 .. Len(wire) - n |->
                    [wire[i + n] EXCEPT !.late = TRUE,
                                        !.part = IF i = 1 THEN p ELSE @]]
        BY <1>7, GarbageIsLate
  <2>2. \A i \in 1 .. Len(wire) - n :
          [wire[i + n] EXCEPT !.late = TRUE, !.part = IF i = 1 THEN p ELSE @] \in Answer
    <3> TAKE i \in 1 .. Len(wire) - n
    <3>1. wire[i + n] \in Answer
          BY WireElements
    <3>2. QED BY <3>1 DEF Answer
  <2>3. wire' \in [1 .. Len(wire) - n -> Answer]
        BY <2>1, <2>2
  <2>4. Len(wire) - n \in Nat
        BY WireElements
  <2>5. wire' \in Seq(Answer) /\ Len(wire') = Len(wire) - n
        BY <2>3, <2>4, SeqOf
  <2>6. /\ UNCHANGED <<stream, got>>
        /\ busy' = None
        /\ \E q \in {"out", "reconnect"} : pc' = [pc EXCEPT ![w] = q]
        BY <1>7 DEF ReadGarbage
  <2>7. QED BY <2>4, <2>5, <2>6, WireElements
<1>8. ASSUME NEW w \in Workers, ReadRest(w) PROVE TypeOK'
  <2>1. wire' \in Seq(Answer) /\ Len(wire') <= Len(wire)
        BY <1>8, OverdueIsLate DEF ReadRest
  <2>2. QED BY <1>8, <2>1 DEF ReadRest
<1>9. ASSUME NEW w \in Workers, ReadFails(w) PROVE TypeOK'
      BY <1>9, OverdueIsLate DEF ReadFails
<1>10. ASSUME NEW w \in Workers, Accept(w) \/ Reject(w) PROVE TypeOK'
      BY <1>10 DEF Accept, Reject
<1>11. ASSUME NEW w \in Workers, Reconnect(w) PROVE TypeOK'
      BY <1>11, EmptyWire DEF Reconnect
<1>12. CASE PeerCloses
  <2>1. PICK n \in 0 .. Len(wire) : wire' = SubSeq(wire, 1, n)
        BY <1>12 DEF PeerCloses
  <2>2. wire' \in Seq(Answer) /\ Len(wire') <= Len(wire)
        BY <2>1
  <2>3. QED BY <1>12, <2>2 DEF PeerCloses
<1>13. CASE UNCHANGED vars
      BY <1>13 DEF vars
<1>14. QED BY <1>1, <1>2, <1>3, <1>4, <1>5, <1>6, <1>7, <1>8, <1>9, <1>10,
              <1>11, <1>12, <1>13 DEF Next, Step

-----------------------------------------------------------------------------
LEMMA NextInv == TypeOK /\ Inv /\ [Next]_vars => Inv'
<1> SUFFICES ASSUME TypeOK, Inv, [Next]_vars PROVE Inv'
    OBVIOUS
<1> USE BusAssumption DEF TypeOK, Inv, LockInv, StreamInv, WireInv, GotInv
<1>1. ASSUME NEW w \in Workers, Begin(w) PROVE Inv'
      BY <1>1 DEF Begin
<1>2. ASSUME NEW w \in Workers, Write(w) PROVE Inv'
  <2>1. \A i \in DOMAIN wire : wire[i].late
        BY <1>2 DEF Write
  <2>2. \A i \in DOMAIN wire' : wire'[i].late \/ wire'[i].of = w
        BY <1>2, <2>1 DEF Write, Answer
  <2>3. QED BY <1>2, <2>2 DEF Write
<1>3. ASSUME NEW w \in Workers, WriteToClosed(w) PROVE Inv'
      BY <1>3 DEF WriteToClosed
<1>4. ASSUME NEW w \in Workers, ConnectFails(w) PROVE Inv'
      BY <1>4 DEF ConnectFails
<1>5. ASSUME NEW w \in Workers, WriteFails(w) PROVE Inv'
      BY <1>5, EmptyWire DEF WriteFails
<1>6. ASSUME NEW w \in Workers, ReadHeader(w) PROVE Inv'
  <2>1. Head(wire) = wire[1] /\ wire[1] \in Answer /\ 1 \in DOMAIN wire
        BY <1>6 DEF ReadHeader
  <2>2. wire' = [wire EXCEPT ![1] = [wire[1] EXCEPT !.part = "rest"]]
        BY <1>6 DEF ReadHeader
  <2>3. DOMAIN wire' = DOMAIN wire
        BY <2>2
  <2>4. /\ wire'[1].late = wire[1].late
        /\ wire'[1].of = wire[1].of
        BY <2>1, <2>2, Altered
  <2>5. \A i \in DOMAIN wire : i # 1 => wire'[i] = wire[i]
        BY <2>2
  <2>6. \A i \in DOMAIN wire' : /\ i \in DOMAIN wire
                               /\ wire'[i].late = wire[i].late
                               /\ wire'[i].of = wire[i].of
        BY <2>3, <2>4, <2>5
  <2>7. WireInv'
        BY <1>6, <2>6 DEF ReadHeader
  <2>8. LockInv' /\ StreamInv'
        BY <1>6 DEF ReadHeader
  <2>9. wire[1].late \/ wire[1].of = w
        BY <1>6, <2>1 DEF ReadHeader
  <2>10. GotInv'
        BY <1>6, <2>1, <2>9 DEF ReadHeader
  <2>11. QED BY <2>7, <2>8, <2>10
<1>7. ASSUME NEW w \in Workers, ReadGarbage(w) PROVE Inv'
  <2>1. PICK n \in 0 .. Len(wire), p \in {"whole", "rest"} :
          wire' = [i \in 1 .. Len(wire) - n |->
                    [wire[i + n] EXCEPT !.late = TRUE,
                                        !.part = IF i = 1 THEN p ELSE @]]
        BY <1>7, GarbageIsLate
  <2>2. \A i \in 1 .. Len(wire) - n : wire'[i].late
    <3> TAKE i \in 1 .. Len(wire) - n
    <3>1. wire[i + n] \in Answer
          BY WireElements
    <3>2. QED BY <2>1, <3>1 DEF Answer
  <2>3. \A i \in DOMAIN wire' : wire'[i].late
        BY <2>1, <2>2
  <2>4. /\ UNCHANGED <<stream, got>>
        /\ busy' = None
        /\ \E q \in {"out", "reconnect"} : pc' = [pc EXCEPT ![w] = q]
        BY <1>7 DEF ReadGarbage
  <2>5. stream # "none" /\ pc[w] = "header"
        BY <1>7 DEF ReadGarbage
  <2>6. WireInv' /\ StreamInv'
        BY <2>3, <2>4, <2>5
  <2>7. LockInv'
        BY <2>4, <2>5
  <2>8. GotInv'
        BY <2>4, <2>5
  <2>9. QED BY <2>6, <2>7, <2>8
<1>8. ASSUME NEW w \in Workers, ReadRest(w) PROVE Inv'
  <2>1. \A i \in DOMAIN wire' : wire'[i].late
        BY <1>8, OverdueIsLate DEF ReadRest
  <2>2. QED BY <1>8, <2>1 DEF ReadRest
<1>9. ASSUME NEW w \in Workers, ReadFails(w) PROVE Inv'
      BY <1>9, OverdueIsLate DEF ReadFails
<1>10. ASSUME NEW w \in Workers, Accept(w) \/ Reject(w) PROVE Inv'
      BY <1>10 DEF Accept, Reject
<1>11. ASSUME NEW w \in Workers, Reconnect(w) PROVE Inv'
      BY <1>11, EmptyWire DEF Reconnect
<1>12. CASE PeerCloses
  <2>1. \A i \in DOMAIN wire' : i \in DOMAIN wire /\ wire'[i] = wire[i]
        BY <1>12 DEF PeerCloses
  <2>2. QED BY <1>12, <2>1 DEF PeerCloses
<1>13. CASE UNCHANGED vars
      BY <1>13 DEF vars
<1>14. QED BY <1>1, <1>2, <1>3, <1>4, <1>5, <1>6, <1>7, <1>8, <1>9, <1>10,
              <1>11, <1>12, <1>13 DEF Next, Step

(* The invariant of the bus holds in every reachable state. *)
THEOREM Invariance == Spec => []IndInv
<1>1. TypeOK /\ Inv /\ [Next]_vars => (TypeOK /\ Inv)'
      BY NextType, NextInv
<1>2. QED BY Initial, <1>1, PTL DEF Spec, IndInv

(* However the workers of a bus interleave their transactions and their       *)
(* reconnections, a worker parses the answer to its own request, or one that   *)
(* an earlier transaction has left behind (Comm::lock, push_input_worker).     *)
THEOREM AnswersArePaired == Spec => []OwnAnswerOrLate
<1>1. TypeOK /\ Inv => OwnAnswerOrLate
      BY DEF Inv, GotInv, OwnAnswerOrLate
<1>2. QED BY <1>1, Invariance, PTL DEF IndInv
=============================================================================
