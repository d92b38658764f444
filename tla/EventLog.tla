------------------------------ MODULE EventLog ------------------------------
(***************************************************************************)
(* What the spool, its rotation and the bridge's database promise together *)
(* to whoever writes or reads events: one append-only log.  An event enters *)
(* it once, at its end, and stays at its place; the rows of the database    *)
(* are a growing front part of the log.                                    *)
(***************************************************************************)
EXTENDS Sequences, Naturals

CONSTANT Event      \* event identities (the event_id of an envelope)

VARIABLES log,      \* the events written as lines of their own, in order
          rows      \* those that are rows of engine_events, in rowid order

vars == <<log, rows>>

Logged(e) == \E i \in DOMAIN log : log[i] = e

Init ==
    /\ log = <<>>
    /\ rows = <<>>

Write(e) ==
    /\ ~Logged(e)
    /\ log' = Append(log, e)
    /\ UNCHANGED rows

Store ==
    /\ \E n \in Len(rows) + 1 .. Len(log) : rows' = SubSeq(log, 1, n)
    /\ UNCHANGED log

Next == Store \/ \E e \in Event : Write(e)

Spec == Init /\ [][Next]_vars

=============================================================================
