--------------------------- MODULE MCOrchestrator ---------------------------
(* Small instances of Orchestrator for TLC. *)
EXTENDS Orchestrator

Both == <<"goldi", "goldm">>
OnlyFirst == [w \in Worker |-> w = "goldi"]
=============================================================================
