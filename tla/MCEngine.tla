------------------------------ MODULE MCEngine ------------------------------
(* Instances of Engine for TLC. *)
EXTENDS Engine
CONSTANTS w0, w1

OneTun == {w0}
TwoTuns == {w0, w1}
=============================================================================
