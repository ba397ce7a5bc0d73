------------------------------ MODULE MCOpcua ------------------------------
(* Instances of Opcua for TLC: an input, and an output with two nodes.       *)
EXTENDS Opcua

CONSTANTS i1, o1, n1, n2, v0, v1

OneInput  == {i1}
OneOutput == {o1}
TwoNodes  == {n1, n2}
OnlyN1 == {n1}
AllOfO1   == [n \in TwoNodes |-> o1]
TwoValues == {v0, v1}
=============================================================================
