----------------------------- MODULE EventSpool -----------------------------
(***************************************************************************)
(* One profile's event spool: the expert appends event lines to it         *)
(* (GoldEngineOutbox.mqh) while the bridge process ingests, rotates and     *)
(* deletes it (gold_event_bridge/store.py, driven by cli.py).  The two      *)
(* share nothing but the file, and either may die between any two steps.    *)
(*                                                                         *)
(* A line is what lies between two newlines: `event` is the event of the    *)
(* last Emit that wrote into it and `whole` says that nothing else is in it.*)
(* A file offset is counted in lines.  A file without lines stands for a    *)
(* missing one too: both are smaller than any compaction threshold.         *)
(***************************************************************************)
EXTENDS Naturals, Sequences, FiniteSets

CONSTANTS
    Event,          \* event identities; Emit may use one again (same second)
    Idle,           \* "the outbox writes no event"
    Minimum,        \* --spool-compact-bytes, in lines
    MaxWrites,      \* bound: calls of Emit that open the file
    MaxRotations,   \* bound: renames of the spool
    MaxTears,       \* bound: short writes and deaths of the expert
    MaxCrashes      \* bound: deaths of the bridge process

ASSUME IdleAssumption == Idle \notin Event
ASSUME MinimumAssumption == Minimum \in Nat \ {0}
ASSUME BoundsAssumption ==
    {MaxWrites, MaxRotations, MaxTears, MaxCrashes} \subseteq Nat

VARIABLES
    files,      \* path -> [lines, torn]: whole lines, and an unfinished last one
    offset,     \* spool_offsets: path -> lines acknowledged (0: no row)
    stored,     \* engine_events in rowid order
    rejected,   \* rejected_events: rows [path, line, event]
    writer,     \* the Emit in progress: [event, step, whole]
    acked,      \* events for which Emit answered true
    written,    \* history: the events that got a line of their own, in that order
    pc,         \* the bridge's next step
    home,       \* where the bridge goes on when the file in hand is finished
    path,       \* the file in hand
    at,         \* how many of its lines ingest_spool has read
    tx,         \* the rows its open transaction would commit
    kept,       \* compact_ingested_spool's `offset`
    todo,       \* rotated files recover_rotated_spools has still to visit
    spent       \* how much of each bound is used

bridge == <<pc, home, path, at, tx, kept, todo>>
database == <<offset, stored, rejected>>
producer == <<writer, acked, written>>
vars == <<files, database, producer, bridge, spent>>

Spool == 0                      \* the producer's path
Rotated == 1 .. MaxRotations    \* <spool>.bridge-<uuid>.rotating, a fresh one each
Path == {Spool} \cup Rotated

Line == [event : Event, whole : BOOLEAN]
Empty == [lines |-> <<>>, torn |-> FALSE]
Remnants == {p \in Rotated : files[p].lines # <<>>}
Size(p) == Len(files[p].lines)
FullyRead(p, n) == n = Size(p) /\ ~files[p].torn
Holds(db, e) == \E i \in DOMAIN db : db[i] = e

\* INSERT OR IGNORE: an event is stored once, at the end.
InsertEvent(db, e) == IF Holds(db, e) THEN db ELSE Append(db, e)

NotWriting == [event |-> Idle, step |-> "idle", whole |-> FALSE]
HandleOpen == writer.step # "idle"

Spend(what) ==
    /\ spent[what] < CASE what = "writes" -> MaxWrites
                       [] what = "rotations" -> MaxRotations
                       [] what = "tears" -> MaxTears
                       [] what = "crashes" -> MaxCrashes
    /\ spent' = [spent EXCEPT ![what] = @ + 1]

-----------------------------------------------------------------------------
(* The expert's Emit: open, append, flush, close, answer.                   *)

EmitOpen(e) ==
    /\ writer.step = "idle"
    /\ Spend("writes")
    /\ writer' = [event |-> e, step |-> "open", whole |-> ~files[Spool].torn]
    /\ UNCHANGED <<files, database, acked, written, bridge>>

\* Some of the line has reached the file, not its newline.
EmitPart ==
    /\ writer.step = "open"
    /\ files' = [files EXCEPT ![Spool].torn = TRUE]
    /\ writer' = [writer EXCEPT !.step = "part"]
    /\ UNCHANGED <<database, acked, written, bridge, spent>>

\* The newline ends whatever stood after the last one.
EmitRest ==
    /\ writer.step = "part"
    /\ files' = [files EXCEPT ![Spool] =
          [lines |-> Append(@.lines, [event |-> writer.event, whole |-> writer.whole]),
           torn |-> FALSE]]
    /\ writer' = [writer EXCEPT !.step = "all"]
    /\ written' = IF writer.whole THEN InsertEvent(written, writer.event) ELSE written
    /\ UNCHANGED <<database, acked, bridge, spent>>

EmitClose ==
    /\ writer.step = "all"
    /\ acked' = acked \cup {writer.event}
    /\ writer' = NotWriting
    /\ UNCHANGED <<files, database, written, bridge, spent>>

\* Defect for a mutant run: Emit answers true after a short write too.
CutShortUnnoticed ==
    /\ HandleOpen
    /\ Spend("tears")
    /\ acked' = acked \cup {writer.event}
    /\ writer' = NotWriting
    /\ UNCHANGED <<files, database, written, bridge>>

\* The write came out short (Emit answers false), or the expert dies inside Emit.
EmitCutShort ==
    /\ HandleOpen
    /\ Spend("tears")
    /\ writer' = NotWriting
    /\ UNCHANGED <<files, database, acked, written, bridge>>

-----------------------------------------------------------------------------
(* ingest_spool: read line after line inside one transaction, then commit.  *)

\* A file smaller than its acknowledged offset is a new one.
StartOf(p) == IF Size(p) < offset[p] THEN 0 ELSE offset[p]

Ingest(p, next) ==
    /\ path' = p
    /\ home' = next
    /\ at' = StartOf(p)
    /\ tx' = [stored |-> stored, rejected |-> rejected]
    /\ pc' = "read"

InsertRejected(rows, p, i, e) ==
    IF \E r \in rows : r.path = p /\ r.line = i THEN rows
    ELSE rows \cup {[path |-> p, line |-> i, event |-> e]}

ReadLine ==
    /\ pc = "read"
    /\ at < Size(path)
    /\ at' = at + 1
    /\ LET line == files[path].lines[at + 1]
       IN  tx' = IF line.whole
                 THEN [tx EXCEPT !.stored = InsertEvent(@, line.event)]
                 ELSE [tx EXCEPT !.rejected = InsertRejected(@, path, at, line.event)]
    /\ UNCHANGED <<files, database, producer, pc, home, path, kept, todo, spent>>

\* What follows an ingest of the spool is the compaction; a rotated file is
\* deleted when it was read to its last byte, and left alone otherwise.
AfterIngest ==
    IF path = Spool THEN "compact" ELSE IF FullyRead(path, at) THEN "forget" ELSE home

CommitIngest ==
    /\ pc = "read"
    /\ at = Size(path)
    /\ offset' = [offset EXCEPT ![path] = at]
    /\ stored' = tx.stored
    /\ rejected' = tx.rejected
    /\ pc' = AfterIngest
    /\ UNCHANGED <<files, producer, home, path, at, tx, kept, todo, spent>>

-----------------------------------------------------------------------------
(* compact_ingested_spool: the offset row is reset before the file is moved. *)

CompactionDue ==
    /\ Size(Spool) >= Minimum
    /\ FullyRead(Spool, offset[Spool])
    /\ spent.rotations < MaxRotations       \* bound

SkipCompaction ==
    /\ pc = "compact"
    /\ ~CompactionDue
    /\ pc' = "loop"
    /\ UNCHANGED <<files, database, producer, home, path, at, tx, kept, todo, spent>>

BeginCompaction ==
    /\ pc = "compact"
    /\ CompactionDue
    /\ kept' = offset[Spool]
    /\ pc' = "reset"
    /\ UNCHANGED <<files, database, producer, home, path, at, tx, todo, spent>>

ResetOffset ==
    /\ pc = "reset"
    /\ offset' = [offset EXCEPT ![Spool] = 0]
    /\ pc' = "rename"
    /\ UNCHANGED <<files, stored, rejected, producer, home, path, at, tx, kept, todo, spent>>

\* Defect for a mutant run: the renamed file is deleted without a second ingest.
RenameAndDelete ==
    /\ pc = "rename"
    /\ ~HandleOpen
    /\ Spend("rotations")
    /\ files' = [files EXCEPT ![spent.rotations + 1] = files[Spool], ![Spool] = Empty]
    /\ path' = spent.rotations + 1
    /\ home' = "loop"
    /\ pc' = "forget"
    /\ UNCHANGED <<database, producer, at, tx, kept, todo>>

\* os.replace, then ingest_spool of the file under its new name.
Rename ==
    /\ pc = "rename"
    /\ ~HandleOpen
    /\ Spend("rotations")
    /\ LET rotated == spent.rotations + 1
       IN  /\ files' = [files EXCEPT ![rotated] = files[Spool], ![Spool] = Empty]
           /\ Ingest(rotated, "loop")
    /\ UNCHANGED <<database, producer, kept, todo>>

\* Defect for a mutant run: the bridge tries again until the producer lets go.
RetryRename ==
    /\ pc = "rename"
    /\ HandleOpen
    /\ UNCHANGED vars

\* The producer has the file open: Windows refuses the rename.
RenameRefused ==
    /\ pc = "rename"
    /\ HandleOpen
    /\ pc' = "restore"
    /\ UNCHANGED <<files, database, producer, home, path, at, tx, kept, todo, spent>>

RestoreOffset ==
    /\ pc = "restore"
    /\ offset' = [offset EXCEPT ![Spool] = kept]
    /\ pc' = "loop"
    /\ UNCHANGED <<files, stored, rejected, producer, home, path, at, tx, kept, todo, spent>>

\* Delete a rotated file: its offset row first, then the file.
ForgetOffset ==
    /\ pc = "forget"
    /\ offset' = [offset EXCEPT ![path] = 0]
    /\ pc' = "unlink"
    /\ UNCHANGED <<files, stored, rejected, producer, home, path, at, tx, kept, todo, spent>>

Unlink ==
    /\ pc = "unlink"
    /\ files' = [files EXCEPT ![path] = Empty]
    /\ pc' = home
    /\ UNCHANGED <<database, producer, home, path, at, tx, kept, todo, spent>>

-----------------------------------------------------------------------------
(* The loop of main: recover what a crash left, ingest, compact.            *)

BeginLoop ==
    /\ pc = "loop"
    /\ todo' = Remnants
    /\ pc' = "recover"
    /\ UNCHANGED <<files, database, producer, home, path, at, tx, kept, spent>>

\* The names are random, so their sorted order is any order.
RecoverFile(p) ==
    /\ pc = "recover"
    /\ p \in todo
    /\ todo' = todo \ {p}
    /\ Ingest(p, "recover")
    /\ UNCHANGED <<files, database, producer, kept, spent>>

\* Defect for a mutant run: the spool is ingested before the rotated files.
IngestSpoolFirst ==
    /\ pc = "recover"
    /\ Ingest(Spool, "loop")
    /\ UNCHANGED <<files, database, producer, kept, todo, spent>>

IngestSpool ==
    /\ pc = "recover"
    /\ todo = {}
    /\ Ingest(Spool, "loop")
    /\ UNCHANGED <<files, database, producer, kept, todo, spent>>

\* The process dies, an open transaction with it, and is started again.
BridgeCrash ==
    /\ Spend("crashes")
    /\ pc' = "loop"
    /\ UNCHANGED <<files, database, producer, home, path, at, tx, kept, todo>>

-----------------------------------------------------------------------------
Init ==
    /\ files = [p \in Path |-> Empty]
    /\ offset = [p \in Path |-> 0]
    /\ stored = <<>>
    /\ rejected = {}
    /\ writer = NotWriting
    /\ acked = {}
    /\ written = <<>>
    /\ pc = "loop"
    /\ home = "loop"
    /\ path = Spool
    /\ at = 0
    /\ tx = [stored |-> <<>>, rejected |-> {}]
    /\ kept = 0
    /\ todo = {}
    /\ spent = [what \in {"writes", "rotations", "tears", "crashes"} |-> 0]

Emit ==
    \/ \E e \in Event : EmitOpen(e)
    \/ EmitPart
    \/ EmitRest
    \/ EmitClose

Bridge ==
    \/ BeginLoop
    \/ \E p \in Rotated : RecoverFile(p)
    \/ IngestSpool
    \/ ReadLine
    \/ CommitIngest
    \/ SkipCompaction
    \/ BeginCompaction
    \/ ResetOffset
    \/ Rename
    \/ RenameRefused
    \/ RestoreOffset
    \/ ForgetOffset
    \/ Unlink

Next == Emit \/ EmitCutShort \/ Bridge \/ BridgeCrash

Spec == Init /\ [][Next]_vars

\* The bridge process is scheduled, and started again whenever it dies.
FairSpec == Spec /\ WF_vars(Bridge)

-----------------------------------------------------------------------------
(* Properties.                                                              *)

TypeOK ==
    /\ files \in [Path -> [lines : Seq(Line), torn : BOOLEAN]]
    /\ offset \in [Path -> Nat]
    /\ stored \in Seq(Event)
    /\ rejected \subseteq [path : Path, line : Nat, event : Event]
    /\ writer \in [event : Event \cup {Idle}, step : {"idle", "open", "part", "all"},
                   whole : BOOLEAN]
    /\ HandleOpen => writer.event \in Event
    /\ acked \subseteq Event
    /\ written \in Seq(Event)
    /\ pc \in {"loop", "recover", "read", "compact", "reset", "rename", "restore",
              "forget", "unlink"}
    /\ home \in {"loop", "recover"}
    /\ path \in Path
    /\ at \in Nat
    /\ tx \in [stored : Seq(Event),
               rejected : SUBSET [path : Path, line : Nat, event : Event]]
    /\ kept \in Nat
    /\ todo \subseteq Rotated
    /\ spent \in [{"writes", "rotations", "tears", "crashes"} -> Nat]

IsRejected(rows, p, i) == \E r \in rows : r.path = p /\ r.line = i

\* The first n lines of the file at p are rows of the given tables.
Recorded(p, lines, n, db, rows) ==
    \A i \in 1 .. n :
        /\ i <= Len(lines)
        /\ IF lines[i].whole THEN Holds(db, lines[i].event)
           ELSE IsRejected(rows, p, i - 1)

\* An offset never runs past a line the database does not hold: whatever the
\* bridge skips at its next ingest is a row of engine_events or rejected_events,
\* through every rotation, refused rename, append in between and crash.
NothingSkipped ==
    \A p \in Path : Recorded(p, files[p].lines, offset[p], stored, rejected)

Trace(e) ==
    \/ Holds(stored, e)
    \/ \E r \in rejected : r.event = e
    \/ \E p \in Path : \E i \in 1 .. Size(p) : files[p].lines[i].event = e

\* An event whose Emit answered true is never without a trace: it is a row, the
\* raw line of a rejected row, or a line of a file that is still there.
NeverVanishes == \A e \in acked : Trace(e)

\* Emit may answer true for an event that will never be a row: its line ended the
\* remains of an earlier one.  A short write, or a death inside Emit, costs at
\* most one later event in this way, whatever is rotated, retried or repeated
\* afterwards.
Lost == {e \in acked : ~Holds(written, e)}
LossIsExplained == Cardinality(Lost) <= spent.tears

\* Why nothing is skipped and nothing vanishes: at each step of the bridge what it
\* is about to rely on (the lines read, the offset to restore, the file to delete)
\* is recorded, rotated names are fresh, and a rejected row of a rotated file holds
\* that file's line.
ReadIsRecorded ==
    pc = "read" =>
        /\ Recorded(path, files[path].lines, at, tx.stored, tx.rejected)
        /\ \A e \in Event : Holds(stored, e) => Holds(tx.stored, e)
        /\ rejected \subseteq tx.rejected

KeptIsRecorded ==
    /\ pc \in {"reset", "rename", "restore"} =>
          Recorded(Spool, files[Spool].lines, kept, stored, rejected)
    /\ pc = "rename" => offset[Spool] = 0

DeletedIsRecorded ==
    /\ pc \in {"forget", "unlink"} =>
          /\ path \in Rotated
          /\ Recorded(path, files[path].lines, Size(path), stored, rejected)
    /\ pc = "unlink" => offset[path] = 0

NamesAreFresh ==
    /\ \A p \in Rotated : p > spent.rotations => files[p] = Empty /\ offset[p] = 0
    /\ \A r \in rejected \cup tx.rejected : r.path <= spent.rotations
    /\ path <= spent.rotations
    /\ \A p \in todo : p <= spent.rotations

RowsHoldTheirLine ==
    \A r \in rejected \cup tx.rejected :
        r.path \in Rotated /\ files[r.path] # Empty =>
            /\ r.line < Size(r.path)
            /\ files[r.path].lines[r.line + 1].event = r.event

WrittenHasTrace == writer.step = "all" => Trace(writer.event)

SpoolInv ==
    /\ TypeOK
    /\ NothingSkipped
    /\ ReadIsRecorded
    /\ KeptIsRecorded
    /\ DeletedIsRecorded
    /\ NamesAreFresh
    /\ RowsHoldTheirLine
    /\ WrittenHasTrace
    /\ NeverVanishes

L == INSTANCE EventLog WITH log <- written, rows <- stored

\* Producer, rotation and database together are one append-only log: an event
\* enters it with its first whole line and keeps its place, and the rows of
\* engine_events are at all times a front part of it, without a gap, a repeat or
\* an exchange: the order in which the expert wrote is the order of delivery.
ImplementsEventLog == L!Spec

\* Every event of the log becomes a row in the end.
WrittenIsStored == \A e \in Event : L!Logged(e) ~> Holds(stored, e)

=============================================================================
