----------------------------- MODULE MCFieldBus -----------------------------
(* Instances of FieldBus for TLC: two workers whose answers look the same.  *)
EXTENDS FieldBus

CONSTANTS w1, w2

TwoWorkers == {w1, w2}

OneShape == [w \in TwoWorkers |-> "holdings"]
=============================================================================
