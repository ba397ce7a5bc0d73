------------------------------- MODULE MCEapi -------------------------------
(* Instances of Eapi for TLC. *)
EXTENDS Eapi

CONSTANTS o1, o2, a1, a2

OneOutput  == {o1}
TwoOutputs == {o1, o2}
TwoActions == {a1, a2}
=============================================================================
