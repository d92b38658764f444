--------------------------- MODULE AtomicRegister ---------------------------
(***************************************************************************)
(* What the runtime needs of the position state store: one register that a *)
(* single client overwrites, where a call that is cut short (a crash, a    *)
(* full disk, an unreadable file) leaves either the old or the new content *)
(* and never anything else.  The one exception the two-slot file format    *)
(* really has is kept: while nothing was ever stored, the first write that *)
(* is cut short leaves the register unreadable ("INVALID").  A Save that   *)
(* could not see what the register held is excused; the next one is not.   *)
(***************************************************************************)
CONSTANTS Value,      \* the position states a caller can save
          NoValue,    \* "no call in progress", not a value
          Missing,    \* what Load returns before anything was stored
          Invalid     \* what Load returns when nothing stored is readable

VARIABLES reg,        \* what Load returns: a value, Missing or Invalid
          pending,    \* the value a Save in progress was called with
          answer,     \* what the last call that ended answered
          misled      \* whether that call, or the one in progress, was misled

Content == Value \cup {Missing, Invalid}

(***************************************************************************)
(* The contract of one Save(v) call made when the register held `from`: the *)
(* contents it can leave when it answers `ok`.                             *)
(***************************************************************************)
AfterSave(from, v, ok) ==
    IF ok THEN {v}
    ELSE {from, v} \cup (IF from \in Value THEN {} ELSE {Invalid})

TypeOK ==
    /\ reg \in Content
    /\ pending \in Value \cup {NoValue}
    /\ answer \in BOOLEAN
    /\ misled \in BOOLEAN

Init ==
    /\ reg = Missing
    /\ pending = NoValue
    /\ answer = FALSE
    /\ misled = FALSE

Begin(v) ==
    /\ pending = NoValue
    /\ pending' = v
    /\ reg' = reg \/ (reg \notin Value /\ reg' = Invalid)
    /\ answer' = FALSE
    /\ misled' = FALSE

\* A call that sees something else than the register holds may put any content
\* in its place.
BeginMisled(v) ==
    /\ pending = NoValue
    /\ pending' = v
    /\ reg' \in Content \ {Missing}
    /\ answer' = FALSE
    /\ misled' = TRUE

\* A call that could not begin.
Refuse ==
    /\ pending = NoValue
    /\ answer' = FALSE
    /\ misled' = FALSE
    /\ UNCHANGED <<reg, pending>>

\* What was to be saved is there; a misled call may leave something else.
Commit ==
    /\ pending # NoValue
    /\ reg' \in {pending} \cup IF misled THEN Value ELSE {}
    /\ UNCHANGED <<pending, answer, misled>>

\* The call answers, or is cut short (FALSE); it never claims what it did not do,
\* but for a misled one.
End(ok) ==
    /\ pending # NoValue
    /\ ok => reg = pending \/ misled
    /\ answer' = ok
    /\ pending' = NoValue
    /\ UNCHANGED <<reg, misled>>

Next ==
    \/ \E v \in Value : Begin(v) \/ BeginMisled(v)
    \/ Refuse
    \/ Commit
    \/ \E ok \in BOOLEAN : End(ok)

Spec == Init /\ [][Next]_<<reg, pending, answer, misled>>

=============================================================================
