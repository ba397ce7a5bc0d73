---------------------------- MODULE MCLoopClock ----------------------------
(* An instance of LoopClock for TLC. *)
EXTENDS LoopClock

(* With Unit = 2: three and two nanoseconds, and eight, which wrap to one. *)
SomeIntervals == {<<3, "ns">>, <<1, "us">>, <<2, "ms">>}
=============================================================================
