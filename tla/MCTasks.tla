------------------------------ MODULE MCTasks ------------------------------
(* Instances of Tasks for TLC: the names of the threads. *)
EXTENDS TasksProperties, TasksClaims, TLC

CONSTANTS i1, i2, p1, o1, o2

NoThreads  == {}
OneInput   == {i1}
TwoInputs  == {i1, i2}
OneProgram == {p1}
OneOutput  == {o1}
TwoOutputs == {o1, o2}

(* The threads of a kind differ in nothing but their names. *)
Symmetry == Permutations(TwoInputs) \cup Permutations(TwoOutputs)
=============================================================================
