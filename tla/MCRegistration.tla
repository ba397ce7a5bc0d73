--------------------------- MODULE MCRegistration ---------------------------
(* An instance of Registration for TLC. *)
EXTENDS Registration, TLC

CONSTANTS c1, c2

TwoClis == {c1, c2}
=============================================================================
