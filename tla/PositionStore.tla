--------------------------- MODULE PositionStore ----------------------------
(***************************************************************************)
(* CPositionStateStore (GoldEnginePositionPersistence.mqh): the expected   *)
(* position is kept in two files, "position-<profile>-0.state" and "-1".   *)
(* Each file holds a generation, the state and a checksum; Save writes     *)
(* generation g to file g % 2, so the newest state is never overwritten by *)
(* the write that is to replace it.  FileOpen(FILE_WRITE) truncates, so a  *)
(* write that is cut short leaves a file whose checksum does not match.    *)
(* A file that cannot be opened (a scanner or a backup has it) reads as if *)
(* it did not exist; a Save that is misled by this may harm what is there. *)
(***************************************************************************)
EXTENDS Integers

CONSTANTS Value, NoValue,
          MaxGeneration    \* bounds the generation counter

ASSUME ValueAssumption ==
    /\ "MISSING" \notin Value
    /\ "INVALID" \notin Value
    /\ NoValue \notin Value

ASSUME GenerationAssumption == MaxGeneration \in Nat

VARIABLES slot,     \* the two files, as ReadSlot sees them
          call      \* the Save call in progress, or the last one that ended

vars == <<slot, call>>

Slots == 0 .. 1

Slot == [status : {"MISSING", "INVALID", "VALID"},
         generation : Nat,
         value : Value \cup {NoValue}]

MissingSlot == [status |-> "MISSING", generation |-> 0, value |-> NoValue]
InvalidSlot == [status |-> "INVALID", generation |-> 0, value |-> NoValue]
ValidSlot(g, v) == [status |-> "VALID", generation |-> g, value |-> v]

IsValid(r) == r.status = "VALID"
IsMissing(r) == r.status = "MISSING"

\* Defect for a mutant run: the older of two readable files wins.
OldestWins(f) ==
    IF IsValid(f[0]) /\ (IsValid(f[1]) => f[0].generation <= f[1].generation) THEN f[0]
    ELSE IF IsValid(f[1]) THEN f[1] ELSE MissingSlot

(***************************************************************************)
(* Load: the valid file of the higher generation (file 0 on a tie), MISSING *)
(* only when neither file exists.                                          *)
(***************************************************************************)
LoadOf(f) ==
    IF IsValid(f[0]) /\ (IsValid(f[1]) => f[0].generation >= f[1].generation) THEN f[0]
    ELSE IF IsValid(f[1]) THEN f[1]
    ELSE IF IsMissing(f[0]) /\ IsMissing(f[1]) THEN MissingSlot
    ELSE InvalidSlot

Load == LoadOf(slot)

ContentOf(r) == IF IsValid(r) THEN r.value ELSE r.status

\* Defect for a mutant run: the generation is not advanced.
SameGeneration(r) == IF IsValid(r) THEN r.generation ELSE 1

GenerationAfter(r) == IF IsValid(r) THEN r.generation + 1 ELSE 1

\* The files as a Save sees them while those of `hidden` cannot be opened.
Seen(hidden) == [i \in Slots |-> IF i \in hidden THEN MissingSlot ELSE slot[i]]

\* The generation of a Save that sees what the files hold.
NextGeneration == GenerationAfter(Load)

\* Defect for a mutant run: one file instead of two.
OneFile(g) == 0 * g

SlotFor(g) == g % 2

Register == INSTANCE AtomicRegister
    WITH Missing <- "MISSING",
         Invalid <- "INVALID",
         reg <- ContentOf(Load),
         pending <- IF call.phase = "idle" THEN NoValue ELSE call.value,
         answer <- call.ok,
         misled <- call.misled

(***************************************************************************)
(* from and value are what the contract of the call speaks about: what the *)
(* store held when Save was entered and the state Save was given.  misled: *)
(* Save's own Load returned something else than the files hold.            *)
(***************************************************************************)
Call == [phase : {"idle", "opened", "written"},
         from : Value \cup {"MISSING", "INVALID"},
         value : Value \cup {NoValue},
         generation : Nat,
         ok : BOOLEAN,
         misled : BOOLEAN]

TypeOK ==
    /\ slot \in [Slots -> Slot]
    /\ call \in Call

Init ==
    /\ slot = [i \in Slots |-> MissingSlot]
    /\ call = [phase |-> "idle", from |-> "MISSING", value |-> NoValue,
               generation |-> 0, ok |-> FALSE, misled |-> FALSE]

\* Save up to FileOpen(FILE_WRITE): the generation is chosen from what Load
\* returns and the file of its parity is truncated.
OpenSlot(v, hidden) ==
    LET current == LoadOf(Seen(hidden))
        g == GenerationAfter(current)
    IN  /\ call.phase = "idle"
        /\ g <= MaxGeneration
        /\ call' = [phase |-> "opened", from |-> ContentOf(Load), value |-> v,
                    generation |-> g, ok |-> FALSE, misled |-> current # Load]
        /\ slot' = [slot EXCEPT ![SlotFor(g)] = InvalidSlot]

\* FileOpen returned INVALID_HANDLE: Save answers false, no file is touched.
OpenFails(v) ==
    /\ call.phase = "idle"
    /\ call' = [phase |-> "idle", from |-> ContentOf(Load), value |-> v,
                generation |-> NextGeneration, ok |-> FALSE, misled |-> FALSE]
    /\ UNCHANGED slot

\* The payload and its checksum reach the disk.
WriteSlot ==
    /\ call.phase = "opened"
    /\ slot' = [slot EXCEPT ![SlotFor(call.generation)] =
                    ValidSlot(call.generation, call.value)]
    /\ call' = [call EXCEPT !.phase = "written"]

\* Defect for a mutant run: Save trusts its write without reading it back.
Unverified == TRUE

Verified ==
    LET r == slot[SlotFor(call.generation)]
    IN  IsValid(r) /\ r.generation = call.generation

\* Save reads the file back.  It answers true only for a valid file of the
\* generation it wrote; the read itself may fail, which reads as MISSING.
Return(readable) ==
    /\ call.phase \in {"opened", "written"}
    /\ call' = [call EXCEPT !.phase = "idle", !.ok = readable /\ Verified]
    /\ UNCHANGED slot

\* The terminal dies inside Save: no answer, the files stay as they are.
Crash ==
    /\ call.phase # "idle"
    /\ call' = [call EXCEPT !.phase = "idle", !.ok = FALSE]
    /\ UNCHANGED slot

Next ==
    \/ \E v \in Value : OpenFails(v) \/ \E hidden \in SUBSET Slots : OpenSlot(v, hidden)
    \/ WriteSlot
    \/ \E readable \in BOOLEAN : Return(readable)
    \/ Crash

Spec == Init /\ [][Next]_vars

-----------------------------------------------------------------------------
(***************************************************************************)
(* At every moment, inside a Save and after it, Load returns what the      *)
(* contract allows: the saved value once Save answered true, and otherwise *)
(* the value from before the call or the new one -- never an older state   *)
(* that an earlier Save had replaced, and never nothing.  This holds of    *)
(* every Save that was not misled, whatever earlier ones that were have    *)
(* done to the files.                                                      *)
(***************************************************************************)
SaveContract ==
    call.value # NoValue /\ ~call.misled =>
        ContentOf(Load) \in Register!AfterSave(call.from, call.value, call.ok)

(***************************************************************************)
(* Once a state was stored, the store never becomes unreadable: whatever   *)
(* crash or failed write follows, Load keeps returning a state, unless a   *)
(* Save is misled (it may truncate the only readable file).                *)
(***************************************************************************)
NeverLosesState ==
    [][IsValid(Load) /\ ~call'.misled => IsValid(Load')]_vars

\* The two files implement one atomically overwritten register.
ImplementsRegister == Register!Spec

(***************************************************************************)
(* Why it holds: a valid file's generation has the file's parity, so the   *)
(* two valid files never tie and the file a Save truncates is never the    *)
(* one Load returns.                                                       *)
(***************************************************************************)
ParityInv ==
    \A i \in Slots : IsValid(slot[i]) => /\ slot[i].generation >= 1
                                 /\ SlotFor(slot[i].generation) = i
                                 /\ slot[i].value \in Value

InProgressInv ==
    /\ call.phase = "opened" => slot[SlotFor(call.generation)] = InvalidSlot
    /\ call.phase = "opened" /\ ~call.misled =>
          /\ ContentOf(Load) # "MISSING"
          /\ call.generation = NextGeneration
          /\ call.from \in Value => ContentOf(Load) = call.from
          /\ call.from \notin Value => ContentOf(Load) = "INVALID"
    /\ call.phase = "written" =>
          /\ slot[SlotFor(call.generation)] = ValidSlot(call.generation, call.value)
          /\ ~call.misled => Load = ValidSlot(call.generation, call.value)
    /\ call.phase # "idle" => call.value \in Value /\ call.generation >= 1 /\ ~call.ok

(***************************************************************************)
(* The inductive invariant the proofs use: types, the parity of the files, *)
(* what an unfinished Save has done so far, and the contract itself.       *)
(***************************************************************************)
StoreInv == TypeOK /\ ParityInv /\ InProgressInv /\ SaveContract
=============================================================================
