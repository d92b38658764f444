--------------------------- MODULE MCPositionStore --------------------------
(* Instance of PositionStore for TLC. *)
EXTENDS PositionStore

CONSTANTS v1, v2, v3
=============================================================================
