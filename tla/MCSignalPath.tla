---------------------------- MODULE MCSignalPath ----------------------------
(* A small instance of SignalPath for TLC: periods and windows scaled down. *)
EXTENDS SignalPath

Periods == [f \in Frame |-> CASE f = "M1" -> 1 [] f = "H1" -> 4 [] OTHER -> 2]
=============================================================================
