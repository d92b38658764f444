---------------------------- MODULE MCEventSpool ----------------------------
(* Small instances of EventSpool for TLC. *)
EXTENDS EventSpool
=============================================================================
