---------------------------- MODULE MCEntryGate ----------------------------
(* Small instances of EntryGate for TLC. *)
EXTENDS EntryGate
=============================================================================
