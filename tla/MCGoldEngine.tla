---------------------------- MODULE MCGoldEngine ----------------------------
(* Instance of GoldEngine for TLC. *)
EXTENDS GoldEngine

MCComment == [s \in Signals |-> s]
=============================================================================
