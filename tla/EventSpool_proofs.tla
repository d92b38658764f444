------------------------- MODULE EventSpool_proofs -------------------------
(***************************************************************************)
(* Theorems about the spool, for any number of events, writes, rotations,   *)
(* short writes and crashes.                                               *)
(*                                                                         *)
(* The argument: SpoolInv is inductive.  A file only grows until it is      *)
(* moved under a fresh name, tables only grow, so "recorded" stays true;    *)
(* and wherever the bridge moves an offset or deletes a file, the lines it  *)
(* gives up are recorded.                                                  *)
(* The log: what the tables lack of it stands in the files, in the order in *)
(* which the bridge reads them, rotated files before the spool; so a commit *)
(* adds the next events of the log.  The tears: each spoils one line at     *)
(* most, and the debt passes from the torn file to the Emit that meets it   *)
(* and on to the event that is lost.                                        *)
(***************************************************************************)
EXTENDS EventSpool, SequenceTheorems, FiniteSetTheorems, TLAPS

\* A file that was appended to, or left alone.
Extends(new, old) ==
    /\ Len(old) <= Len(new)
    /\ \A i \in 1 .. Len(old) : new[i] = old[i]

Covers(new, old) == \A e \in Event : Holds(old, e) => Holds(new, e)

\* Lines recorded stay recorded while the file and the tables only grow.
LEMMA RecordedGrows ==
    ASSUME NEW p, NEW old \in Seq(Line), NEW new \in Seq(Line), NEW n \in Nat,
           NEW db, NEW db2, NEW rows, NEW rows2,
           Recorded(p, old, n, db, rows), Extends(new, old), Covers(db2, db),
           rows \subseteq rows2
    PROVE  Recorded(p, new, n, db2, rows2)
  <1> SUFFICES ASSUME NEW i \in 1 .. n
               PROVE  /\ i <= Len(new)
                      /\ IF new[i].whole THEN Holds(db2, new[i].event)
                         ELSE IsRejected(rows2, p, i - 1)
    BY DEF Recorded
  <1>1. /\ i <= Len(old)
        /\ IF old[i].whole THEN Holds(db, old[i].event) ELSE IsRejected(rows, p, i - 1)
    BY DEF Recorded
  <1>2. i \in 1 .. Len(old) /\ new[i] = old[i] /\ i <= Len(new)
    BY <1>1 DEF Extends
  <1>3. old[i].event \in Event /\ old[i].whole \in BOOLEAN
    <2>1. old[i] \in Line
      BY <1>2
    <2> QED
      BY <2>1 DEF Line
  <1>4. IsRejected(rows, p, i - 1) => IsRejected(rows2, p, i - 1)
    BY DEF IsRejected
  <1> QED
    BY <1>1, <1>2, <1>3, <1>4 DEF Covers

\* Every file extends itself, and every table covers itself.
LEMMA Unchanged ==
    /\ \A s \in Seq(Line) : Extends(s, s)
    /\ \A db : Covers(db, db)
  BY DEF Extends, Covers

\* INSERT OR IGNORE makes the event a row and keeps the others.
LEMMA InsertEventHolds ==
    ASSUME NEW db \in Seq(Event), NEW e \in Event
    PROVE  /\ InsertEvent(db, e) \in Seq(Event)
           /\ Holds(InsertEvent(db, e), e)
           /\ Covers(InsertEvent(db, e), db)
  <1>1. CASE Holds(db, e)
    BY <1>1 DEF InsertEvent, Covers
  <1>2. CASE ~Holds(db, e)
    <2>1. InsertEvent(db, e) = Append(db, e)
      BY <1>2 DEF InsertEvent
    <2>2. Append(db, e) \in Seq(Event) /\ Len(Append(db, e)) = Len(db) + 1
      OBVIOUS
    <2>3. Append(db, e)[Len(db) + 1] = e /\ \A i \in DOMAIN db : Append(db, e)[i] = db[i]
      OBVIOUS
    <2>4. DOMAIN Append(db, e) = 1 .. Len(db) + 1 /\ DOMAIN db = 1 .. Len(db)
      BY <2>2
    <2>5. Holds(Append(db, e), e)
      BY <2>3, <2>4 DEF Holds
    <2>6. Covers(Append(db, e), db)
      BY <2>3, <2>4 DEF Holds, Covers
    <2> QED
      BY <2>1, <2>2, <2>5, <2>6
  <1> QED
    BY <1>1, <1>2

\* ... and so for a rejected line.
LEMMA InsertRejectedHolds ==
    ASSUME NEW rows, NEW p, NEW i, NEW e
    PROVE  /\ rows \subseteq InsertRejected(rows, p, i, e)
           /\ IsRejected(InsertRejected(rows, p, i, e), p, i)
           /\ InsertRejected(rows, p, i, e) \subseteq
                rows \cup {[path |-> p, line |-> i, event |-> e]}
  <1>1. CASE \E r \in rows : r.path = p /\ r.line = i
    BY <1>1 DEF InsertRejected, IsRejected
  <1>2. CASE ~\E r \in rows : r.path = p /\ r.line = i
    <2> DEFINE row == [path |-> p, line |-> i, event |-> e]
    <2>1. InsertRejected(rows, p, i, e) = rows \cup {row}
      BY <1>2 DEF InsertRejected
    <2>2. row.path = p /\ row.line = i
      OBVIOUS
    <2> HIDE DEF row
    <2>3. IsRejected(rows \cup {row}, p, i)
      BY <2>2 DEF IsRejected
    <2> QED
      BY <2>1, <2>3 DEF row
  <1> QED
    BY <1>1, <1>2

Budget == [{"writes", "rotations", "tears", "crashes"} -> Nat]

\* A step that uses a bound up leaves the other bounds alone.
LEMMA SpendOne ==
    ASSUME NEW what \in {"writes", "rotations", "tears", "crashes"},
           spent \in Budget, Spend(what)
    PROVE  /\ spent' \in Budget
           /\ spent'["rotations"] =
                IF what = "rotations" THEN spent["rotations"] + 1 ELSE spent["rotations"]
           /\ what = "rotations" => spent["rotations"] < MaxRotations
  <1>1. spent' = [spent EXCEPT ![what] = @ + 1]
    BY DEF Spend
  <1>2. spent[what] \in Nat
    BY DEF Budget
  <1>3. spent' \in Budget
    BY <1>1, <1>2 DEF Budget
  <1>4. what = "rotations" => spent["rotations"] < MaxRotations
    BY DEF Spend
  <1> QED
    BY <1>1, <1>3, <1>4 DEF Budget

\* The empty spool and database satisfy the invariant.
LEMMA InitSpool == Init => SpoolInv
  <1> SUFFICES ASSUME Init PROVE SpoolInv
    OBVIOUS
  <1>1. TypeOK
    <2>1. Empty \in [lines : Seq(Line), torn : BOOLEAN]
      BY DEF Empty
    <2>2. files \in [Path -> [lines : Seq(Line), torn : BOOLEAN]] /\ offset \in [Path -> Nat]
      BY <2>1 DEF Init
    <2>3. /\ stored \in Seq(Event)
          /\ tx \in [stored : Seq(Event),
                     rejected : SUBSET [path : Path, line : Nat, event : Event]]
          /\ rejected \subseteq [path : Path, line : Nat, event : Event]
          /\ written \in Seq(Event)
      BY DEF Init
    <2>4. /\ writer \in [event : Event \cup {Idle}, step : {"idle", "open", "part", "all"},
                         whole : BOOLEAN]
          /\ ~HandleOpen
      BY DEF Init, NotWriting, HandleOpen
    <2>5. spent \in [{"writes", "rotations", "tears", "crashes"} -> Nat]
      BY DEF Init
    <2>6. /\ pc = "loop" /\ home = "loop" /\ path \in Path /\ at \in Nat /\ kept \in Nat
          /\ todo \subseteq Rotated /\ acked \subseteq Event
      BY DEF Init, Path
    <2> QED
      BY <2>2, <2>3, <2>4, <2>5, <2>6 DEF TypeOK
  <1>2. NothingSkipped
    BY DEF Init, NothingSkipped, Recorded
  <1>3. ReadIsRecorded /\ KeptIsRecorded /\ DeletedIsRecorded
    BY DEF Init, ReadIsRecorded, KeptIsRecorded, DeletedIsRecorded
  <1>4. NamesAreFresh
    BY DEF Init, NamesAreFresh, Spool, Rotated, Path
  <1>5. RowsHoldTheirLine /\ WrittenHasTrace /\ NeverVanishes
    BY DEF Init, RowsHoldTheirLine, WrittenHasTrace, NeverVanishes, NotWriting
  <1> QED
    BY <1>1, <1>2, <1>3, <1>4, <1>5 DEF SpoolInv

-----------------------------------------------------------------------------
(* The expert's steps.                                                      *)

\* A trace is not lost while files and tables only grow.
LEMMA TraceGrows ==
    ASSUME TypeOK, NEW e \in Event, Trace(e), Covers(stored', stored),
           rejected \subseteq rejected',
           \A p \in Path : Extends(files'[p].lines, files[p].lines)
    PROVE  Trace(e)'
  <1>1. CASE Holds(stored, e)
    BY <1>1 DEF Trace, Covers
  <1>2. CASE \E r \in rejected : r.event = e
    BY <1>2 DEF Trace
  <1>3. CASE \E p \in Path : \E i \in 1 .. Size(p) : files[p].lines[i].event = e
    <2>1. PICK p \in Path : \E i \in 1 .. Size(p) : files[p].lines[i].event = e
      BY <1>3
    <2>2. PICK i \in 1 .. Size(p) : files[p].lines[i].event = e
      BY <2>1
    <2>3. Extends(files'[p].lines, files[p].lines)
      OBVIOUS
    <2>4. files[p].lines \in Seq(Line)
      BY DEF TypeOK
    <2>5. files'[p].lines[i].event = e /\ i <= Len(files'[p].lines)
      BY <2>2, <2>3, <2>4 DEF Extends, Size
    <2>6. i \in 1 .. Len(files'[p].lines)
      BY <2>2, <2>3, <2>4, <2>5 DEF Extends, Size
    <2> QED
      BY <2>5, <2>6 DEF Trace, Size
  <1> QED
    BY <1>1, <1>2, <1>3 DEF Trace

\* Whatever the expert does to the spool only adds to it.
LEMMA GrowStep ==
    ASSUME SpoolInv, TypeOK', UNCHANGED <<database, bridge>>,
           spent'["rotations"] = spent["rotations"],
           Extends(files'[Spool].lines, files[Spool].lines),
           \A p \in Rotated : files'[p] = files[p],
           WrittenHasTrace',
           acked' \subseteq acked \cup {e \in {writer.event} : writer.step = "all"}
    PROVE  SpoolInv'
  <1> USE DEF database, bridge
  <1>1. \A p \in Path : files[p].lines \in Seq(Line) /\ files'[p].lines \in Seq(Line)
    BY DEF SpoolInv, TypeOK
  <1>2. \A p \in Path : Extends(files'[p].lines, files[p].lines)
    BY <1>1, Unchanged DEF Path
  <1>3. Covers(stored, stored) /\ Covers(tx.stored, tx.stored)
    BY Unchanged
  <1>4. ASSUME NEW p \in Path, NEW n \in Nat, NEW db, NEW rows,
               Recorded(p, files[p].lines, n, db, rows)
        PROVE  Recorded(p, files'[p].lines, n, db, rows)
    <2>1. Covers(db, db) /\ rows \subseteq rows
      BY Unchanged
    <2> QED
      BY <1>1, <1>2, <1>4, <2>1, RecordedGrows
  <1>5. NothingSkipped'
    <2>1. \A p \in Path : offset[p] \in Nat
      BY DEF SpoolInv, TypeOK
    <2> QED
      BY <1>4, <2>1 DEF SpoolInv, NothingSkipped
  <1>6. ReadIsRecorded'
    BY <1>4 DEF SpoolInv, TypeOK, ReadIsRecorded
  <1>7. KeptIsRecorded'
    BY <1>4 DEF SpoolInv, TypeOK, KeptIsRecorded, Path
  <1>8. DeletedIsRecorded'
    BY DEF SpoolInv, DeletedIsRecorded, Size
  <1>9. NamesAreFresh'
    BY DEF SpoolInv, NamesAreFresh
  <1>10. RowsHoldTheirLine'
    BY DEF SpoolInv, RowsHoldTheirLine, Size
  <1>11. NeverVanishes'
    <2> SUFFICES ASSUME NEW e \in acked' PROVE Trace(e)'
      BY DEF NeverVanishes
    <2>1. e \in Event /\ Trace(e)
      BY DEF SpoolInv, TypeOK, NeverVanishes, WrittenHasTrace
    <2> QED
      BY <2>1, <1>2, <1>3, TraceGrows DEF SpoolInv
  <1> QED
    BY <1>5, <1>6, <1>7, <1>8, <1>9, <1>10, <1>11 DEF SpoolInv

\* Opening the file changes nothing in it.
LEMMA EmitOpenStep ==
    ASSUME SpoolInv, NEW e \in Event, EmitOpen(e)
    PROVE  SpoolInv'
  <1> USE DEF database, bridge
  <1>1. /\ UNCHANGED <<files, database, acked, written, bridge>>
        /\ writer' = [event |-> e, step |-> "open", whole |-> ~files[Spool].torn]
        /\ Spend("writes")
    BY DEF EmitOpen
  <1>2. spent' \in Budget /\ spent'["rotations"] = spent["rotations"]
    BY <1>1, SpendOne DEF SpoolInv, TypeOK, Budget
  <1>3. files[Spool].torn \in BOOLEAN
    BY DEF SpoolInv, TypeOK, Path
  <1>4. TypeOK'
    BY <1>1, <1>2, <1>3 DEF SpoolInv, TypeOK, HandleOpen, Budget
  <1>5. Extends(files'[Spool].lines, files[Spool].lines)
    BY <1>1, Unchanged DEF SpoolInv, TypeOK, Path
  <1>6. WrittenHasTrace'
    BY <1>1 DEF WrittenHasTrace
  <1> QED
    BY <1>1, <1>2, <1>4, <1>5, <1>6, GrowStep

\* A part of a line leaves the whole lines alone.
LEMMA EmitPartStep == SpoolInv /\ EmitPart => SpoolInv'
  <1> SUFFICES ASSUME SpoolInv, EmitPart PROVE SpoolInv'
    OBVIOUS
  <1> USE DEF database, bridge
  <1>1. /\ UNCHANGED <<database, acked, written, bridge, spent>>
        /\ writer.step = "open"
        /\ writer' = [writer EXCEPT !.step = "part"]
        /\ files' = [files EXCEPT ![Spool].torn = TRUE]
    BY DEF EmitPart
  <1>2. Spool \in Path /\ Spool \notin Rotated
    BY DEF Path, Spool, Rotated
  <1>3. files \in [Path -> [lines : Seq(Line), torn : BOOLEAN]]
    BY DEF SpoolInv, TypeOK
  <1>4. /\ files' \in [Path -> [lines : Seq(Line), torn : BOOLEAN]]
        /\ files'[Spool].lines = files[Spool].lines
        /\ \A p \in Rotated : files'[p] = files[p]
    BY <1>1, <1>2, <1>3 DEF Path
  <1>5. /\ writer' \in [event : Event \cup {Idle}, step : {"idle", "open", "part", "all"},
                       whole : BOOLEAN]
        /\ writer'.step = "part" /\ writer'.event \in Event
    BY <1>1 DEF SpoolInv, TypeOK, HandleOpen
  <1>6. TypeOK'
    BY <1>1, <1>4, <1>5 DEF SpoolInv, TypeOK
  <1>7. Extends(files'[Spool].lines, files[Spool].lines)
    BY <1>2, <1>3, <1>4, Unchanged
  <1>8. WrittenHasTrace'
    BY <1>5 DEF WrittenHasTrace
  <1> QED
    BY <1>1, <1>4, <1>6, <1>7, <1>8, GrowStep

\* The newline makes the event the last line of the spool: its trace.
LEMMA EmitRestStep == SpoolInv /\ EmitRest => SpoolInv'
  <1> SUFFICES ASSUME SpoolInv, EmitRest PROVE SpoolInv'
    OBVIOUS
  <1> USE DEF database, bridge
  <1> DEFINE line == [event |-> writer.event, whole |-> writer.whole]
             old == files[Spool].lines
  <1>1. /\ UNCHANGED <<database, acked, bridge, spent>>
        /\ writer.step = "part"
        /\ writer' = [writer EXCEPT !.step = "all"]
        /\ files' = [files EXCEPT ![Spool] = [lines |-> Append(old, line), torn |-> FALSE]]
    BY DEF EmitRest
  <1>2. Spool \in Path /\ Spool \notin Rotated
    BY DEF Path, Spool, Rotated
  <1>3. files \in [Path -> [lines : Seq(Line), torn : BOOLEAN]]
    BY DEF SpoolInv, TypeOK
  <1>4. /\ writer' \in [event : Event \cup {Idle}, step : {"idle", "open", "part", "all"},
                       whole : BOOLEAN]
        /\ writer'.step = "all" /\ writer'.event = writer.event /\ writer.event \in Event
        /\ writer.whole \in BOOLEAN
    BY <1>1 DEF SpoolInv, TypeOK, HandleOpen
  <1>5. line \in Line /\ old \in Seq(Line) /\ line.event = writer.event
    BY <1>2, <1>3, <1>4 DEF Line
  <1> HIDE DEF line, old
  <1>6. Append(old, line) \in Seq(Line) /\ Extends(Append(old, line), old)
    BY <1>5 DEF Extends
  <1>7. /\ Len(Append(old, line)) = Len(old) + 1
        /\ Append(old, line)[Len(old) + 1] = line
        /\ Len(old) \in Nat
    BY <1>5
  <1>8. /\ files' \in [Path -> [lines : Seq(Line), torn : BOOLEAN]]
        /\ files'[Spool].lines = Append(old, line)
        /\ \A p \in Rotated : files'[p] = files[p]
    BY <1>1, <1>2, <1>3, <1>6 DEF Path
  <1>9. TypeOK'
    <2>1. written' \in Seq(Event)
      BY <1>4, InsertEventHolds DEF EmitRest, SpoolInv, TypeOK
    <2> QED
      BY <1>1, <1>4, <1>8, <2>1 DEF SpoolInv, TypeOK
  <1>10. WrittenHasTrace'
    <2>1. Len(old) + 1 \in 1 .. Len(files'[Spool].lines)
      BY <1>7, <1>8
    <2>2. files'[Spool].lines[Len(old) + 1].event = writer'.event
      BY <1>4, <1>5, <1>7, <1>8
    <2> QED
      BY <1>2, <2>1, <2>2 DEF WrittenHasTrace, Trace, Size
  <1>11. Extends(files'[Spool].lines, files[Spool].lines)
    BY <1>6, <1>8 DEF old
  <1> QED
    BY <1>1, <1>8, <1>9, <1>10, <1>11, GrowStep

\* The answer, and an Emit that is cut short.
LEMMA EmitEndStep == SpoolInv /\ (EmitClose \/ EmitCutShort) => SpoolInv'
  <1> SUFFICES ASSUME SpoolInv, EmitClose \/ EmitCutShort PROVE SpoolInv'
    OBVIOUS
  <1> USE DEF database, bridge
  <1>1. UNCHANGED <<files, database, written, bridge>> /\ writer' = NotWriting
    BY DEF EmitClose, EmitCutShort
  <1>2. acked' \subseteq acked \cup {e \in {writer.event} : writer.step = "all"}
    BY DEF EmitClose, EmitCutShort
  <1>3. spent' \in Budget /\ spent'["rotations"] = spent["rotations"]
    BY SpendOne DEF EmitClose, EmitCutShort, SpoolInv, TypeOK, Budget
  <1>4. /\ writer' \in [event : Event \cup {Idle}, step : {"idle", "open", "part", "all"},
                       whole : BOOLEAN]
        /\ ~HandleOpen' /\ writer'.step = "idle"
    BY <1>1 DEF NotWriting, HandleOpen
  <1>5. acked' \subseteq Event
    BY <1>2 DEF SpoolInv, TypeOK, HandleOpen
  <1>6. TypeOK'
    BY <1>1, <1>3, <1>4, <1>5 DEF SpoolInv, TypeOK, Budget
  <1>7. Extends(files'[Spool].lines, files[Spool].lines)
    BY <1>1, Unchanged DEF SpoolInv, TypeOK, Path
  <1>8. WrittenHasTrace'
    BY <1>4 DEF WrittenHasTrace
  <1> QED
    BY <1>1, <1>2, <1>3, <1>6, <1>7, <1>8, GrowStep

-----------------------------------------------------------------------------
(* The bridge's steps.                                                      *)

\* Steps that change neither a file nor a table keep what is said about those.
LEMMA NothingMoved ==
    ASSUME SpoolInv, UNCHANGED <<files, database, producer>>
    PROVE  /\ NothingSkipped' /\ WrittenHasTrace' /\ NeverVanishes'
           /\ tx' = tx => RowsHoldTheirLine'
  BY DEF SpoolInv, NothingSkipped, WrittenHasTrace, NeverVanishes, Trace, RowsHoldTheirLine,
     Size, database, producer

\* Control moves on, relying on nothing new.
LEMMA IdleStep ==
    ASSUME SpoolInv,
           BeginLoop \/ SkipCompaction \/ BeginCompaction \/ RenameRefused \/ BridgeCrash
    PROVE  SpoolInv'
  <1>1. /\ UNCHANGED <<files, database, producer, tx, at, path, home>>
        /\ pc' \in {"loop", "recover", "reset", "restore"}
    BY DEF BeginLoop, SkipCompaction, BeginCompaction, RenameRefused, BridgeCrash
  <1>2. spent' \in Budget /\ spent'["rotations"] = spent["rotations"]
    <2>1. CASE BridgeCrash
      BY <2>1, SpendOne DEF BridgeCrash, SpoolInv, TypeOK, Budget
    <2>2. CASE ~BridgeCrash
      BY <2>2 DEF BeginLoop, SkipCompaction, BeginCompaction, RenameRefused, SpoolInv, TypeOK,
         Budget
    <2> QED
      BY <2>1, <2>2
  <1>3. /\ todo' \subseteq Rotated
        /\ \A p \in todo' : p <= spent["rotations"]
    <2>1. CASE BeginLoop
      <3>1. todo' = Remnants
        BY <2>1 DEF BeginLoop
      <3>2. \A p \in Remnants : p \in Rotated /\ files[p] # Empty
        BY DEF Remnants, Empty
      <3>3. \A p \in Rotated : p \in Nat
        BY DEF Rotated
      <3>4. spent["rotations"] \in Nat
        BY DEF SpoolInv, TypeOK
      <3> QED
        BY <3>1, <3>2, <3>3, <3>4 DEF SpoolInv, NamesAreFresh
    <2>2. CASE ~BeginLoop
      BY <2>2 DEF SkipCompaction, BeginCompaction, RenameRefused, BridgeCrash, SpoolInv,
         TypeOK, NamesAreFresh
    <2> QED
      BY <2>1, <2>2
  <1>4. /\ kept' \in Nat
        /\ pc' \in {"reset", "restore"} =>
              Recorded(Spool, files[Spool].lines, kept', stored, rejected)
    <2>1. CASE BeginCompaction
      <3>1. kept' = offset[Spool]
        BY <2>1 DEF BeginCompaction
      <3>2. Spool \in Path
        BY DEF Path
      <3> QED
        BY <3>1, <3>2 DEF SpoolInv, TypeOK, NothingSkipped
    <2>2. CASE RenameRefused
      BY <2>2 DEF RenameRefused, SpoolInv, TypeOK, KeptIsRecorded
    <2>3. CASE BeginLoop \/ SkipCompaction \/ BridgeCrash
      BY <2>3 DEF BeginLoop, SkipCompaction, BridgeCrash, SpoolInv, TypeOK
    <2> QED
      BY <2>1, <2>2, <2>3
  <1>5. TypeOK'
    BY <1>1, <1>2, <1>3, <1>4 DEF SpoolInv, TypeOK, database, producer, HandleOpen, Budget
  <1>6. NothingSkipped' /\ WrittenHasTrace' /\ NeverVanishes' /\ RowsHoldTheirLine'
    BY <1>1, NothingMoved
  <1>7. ReadIsRecorded' /\ KeptIsRecorded' /\ DeletedIsRecorded'
    BY <1>1, <1>4 DEF ReadIsRecorded, KeptIsRecorded, DeletedIsRecorded, database
  <1>8. NamesAreFresh'
    BY <1>1, <1>2, <1>3 DEF SpoolInv, NamesAreFresh, database
  <1> QED
    BY <1>5, <1>6, <1>7, <1>8 DEF SpoolInv

\* A transaction starts from what is committed, at an acknowledged line.
LEMMA BeginReading ==
    ASSUME SpoolInv, (\E p \in Rotated : RecoverFile(p)) \/ IngestSpool
    PROVE  SpoolInv'
  <1>1. PICK p \in Path : /\ \E next \in {"loop", "recover"} : Ingest(p, next)
                          /\ p <= spent["rotations"]
    <2>1. CASE \E p \in Rotated : RecoverFile(p)
      BY <2>1 DEF RecoverFile, Path, SpoolInv, NamesAreFresh
    <2>2. CASE IngestSpool
      <3>1. Spool <= spent["rotations"]
        BY DEF SpoolInv, TypeOK, Spool
      <3> QED
        BY <2>2, <3>1 DEF IngestSpool, Path
    <2> QED
      BY <2>1, <2>2
  <1>2. /\ UNCHANGED <<files, database, producer, kept, spent>>
        /\ todo' \subseteq todo
    BY DEF RecoverFile, IngestSpool
  <1>3. /\ path' = p /\ home' \in {"loop", "recover"} /\ at' = StartOf(p) /\ pc' = "read"
        /\ tx' = [stored |-> stored, rejected |-> rejected]
    BY <1>1 DEF Ingest
  <1>4. at' \in Nat /\ Recorded(p, files[p].lines, at', stored, rejected)
    <2>1. offset[p] \in Nat /\ Recorded(p, files[p].lines, offset[p], stored, rejected)
      BY DEF SpoolInv, TypeOK, NothingSkipped
    <2>2. Recorded(p, files[p].lines, 0, stored, rejected)
      BY DEF Recorded
    <2> QED
      BY <1>3, <2>1, <2>2 DEF StartOf
  <1>5. tx' \in [stored : Seq(Event),
                 rejected : SUBSET [path : Path, line : Nat, event : Event]]
    BY <1>3 DEF SpoolInv, TypeOK
  <1>6. TypeOK'
    BY <1>2, <1>3, <1>4, <1>5 DEF SpoolInv, TypeOK, database, producer, HandleOpen
  <1>7. NothingSkipped' /\ WrittenHasTrace' /\ NeverVanishes'
    BY <1>2, NothingMoved
  <1>8. ReadIsRecorded'
    BY <1>2, <1>3, <1>4 DEF ReadIsRecorded, database
  <1>9. KeptIsRecorded' /\ DeletedIsRecorded'
    BY <1>3 DEF KeptIsRecorded, DeletedIsRecorded
  <1>10. NamesAreFresh'
    BY <1>1, <1>2, <1>3 DEF SpoolInv, NamesAreFresh, database
  <1>11. RowsHoldTheirLine'
    BY <1>2, <1>3 DEF SpoolInv, RowsHoldTheirLine, database, Size
  <1> QED
    BY <1>6, <1>7, <1>8, <1>9, <1>10, <1>11 DEF SpoolInv

\* The line read becomes a row of the transaction, and no row is replaced.
LEMMA ReadLineStep == SpoolInv /\ ReadLine => SpoolInv'
  <1> SUFFICES ASSUME SpoolInv, ReadLine PROVE SpoolInv'
    OBVIOUS
  <1> DEFINE line == files[path].lines[at + 1]
             lines == files[path].lines
  <1>1. /\ pc = "read" /\ at < Size(path) /\ at' = at + 1
        /\ UNCHANGED <<files, database, producer, pc, home, path, kept, todo, spent>>
        /\ tx' = IF line.whole
                 THEN [tx EXCEPT !.stored = InsertEvent(@, line.event)]
                 ELSE [tx EXCEPT !.rejected = InsertRejected(@, path, at, line.event)]
    BY DEF ReadLine
  <1>2. /\ path \in Path /\ at \in Nat /\ lines \in Seq(Line)
        /\ tx \in [stored : Seq(Event),
                   rejected : SUBSET [path : Path, line : Nat, event : Event]]
    BY DEF SpoolInv, TypeOK
  <1>3. at + 1 \in 1 .. Len(lines) /\ at + 1 <= Len(lines) /\ line = lines[at + 1]
    BY <1>1, <1>2 DEF Size
  <1>4. line \in Line /\ line.event \in Event /\ line.whole \in BOOLEAN
    <2>1. line \in Line
      BY <1>2, <1>3
    <2> QED
      BY <2>1 DEF Line
  <1>5. /\ Recorded(path, lines, at, tx.stored, tx.rejected)
        /\ Covers(tx.stored, stored)
        /\ rejected \subseteq tx.rejected
    BY <1>1 DEF SpoolInv, ReadIsRecorded, Covers
  <1> DEFINE row == [path |-> path, line |-> at, event |-> line.event]
  <1>6. /\ tx' \in [stored : Seq(Event),
                    rejected : SUBSET [path : Path, line : Nat, event : Event]]
        /\ Covers(tx'.stored, tx.stored)
        /\ tx.rejected \subseteq tx'.rejected
        /\ tx'.rejected \subseteq tx.rejected \cup {row}
        /\ IF line.whole THEN Holds(tx'.stored, line.event)
           ELSE IsRejected(tx'.rejected, path, at)
    <2> HIDE DEF line
    <2>1. CASE line.whole
      <3>1. /\ tx'.stored = InsertEvent(tx.stored, line.event)
            /\ tx'.rejected = tx.rejected
            /\ tx' = [stored |-> InsertEvent(tx.stored, line.event), rejected |-> tx.rejected]
        BY <1>1, <1>2, <2>1
      <3> QED
        BY <1>2, <1>4, <2>1, <3>1, InsertEventHolds
    <2>2. CASE ~line.whole
      <3>1. /\ tx'.stored = tx.stored
            /\ tx'.rejected = InsertRejected(tx.rejected, path, at, line.event)
            /\ tx' = [stored |-> tx.stored,
                      rejected |-> InsertRejected(tx.rejected, path, at, line.event)]
        BY <1>1, <1>2, <2>2
      <3>2. row \in [path : Path, line : Nat, event : Event]
        BY <1>2, <1>4
      <3>3. /\ tx.rejected \subseteq tx'.rejected
            /\ tx'.rejected \subseteq tx.rejected \cup {row}
            /\ IsRejected(tx'.rejected, path, at)
        BY <3>1, InsertRejectedHolds
      <3>4. Covers(tx'.stored, tx.stored)
        BY <3>1, Unchanged
      <3> HIDE DEF row
      <3>5. tx'.rejected \subseteq [path : Path, line : Nat, event : Event]
        BY <1>2, <3>2, <3>3
      <3> QED
        BY <1>2, <2>2, <3>1, <3>3, <3>4, <3>5
    <2> QED
      BY <2>1, <2>2
  <1>7. Recorded(path, lines, at + 1, tx'.stored, tx'.rejected)
    <2>1. Recorded(path, lines, at, tx'.stored, tx'.rejected)
      BY <1>2, <1>5, <1>6, RecordedGrows, Unchanged
    <2>2. ASSUME NEW i \in 1 .. at + 1
          PROVE  /\ i <= Len(lines)
                 /\ IF lines[i].whole THEN Holds(tx'.stored, lines[i].event)
                    ELSE IsRejected(tx'.rejected, path, i - 1)
      <3>1. CASE i \in 1 .. at
        BY <2>1, <3>1 DEF Recorded
      <3>2. CASE i = at + 1
        <4>1. i - 1 = at
          BY <1>2, <3>2
        <4> QED
          BY <1>3, <1>6, <3>2, <4>1
      <3> QED
        BY <1>2, <3>1, <3>2
    <2> QED
      BY <2>2 DEF Recorded
  <1>8. TypeOK'
    <2> HIDE DEF line, lines, row
    <2>1. UNCHANGED <<files, database, producer, pc, home, path, kept, todo, spent>>
      BY <1>1
    <2>2. at' \in Nat
      BY <1>1, <1>2
    <2> QED
      BY <2>1, <2>2, <1>6 DEF SpoolInv, TypeOK, database, producer, HandleOpen
  <1>9. NothingSkipped' /\ WrittenHasTrace' /\ NeverVanishes'
    BY <1>1, NothingMoved
  <1>10. ReadIsRecorded'
    <2>1. Covers(tx'.stored, stored) /\ rejected \subseteq tx'.rejected
      BY <1>5, <1>6 DEF Covers
    <2> QED
      BY <1>1, <1>7, <2>1 DEF ReadIsRecorded, Covers, database
  <1>11. KeptIsRecorded' /\ DeletedIsRecorded'
    BY <1>1 DEF KeptIsRecorded, DeletedIsRecorded
  <1>12. row.path = path /\ row.line = at /\ row.event = line.event
    OBVIOUS
  <1> HIDE DEF row
  <1>13. NamesAreFresh'
    BY <1>1, <1>6, <1>12 DEF SpoolInv, NamesAreFresh, database
  <1>14. RowsHoldTheirLine'
    <2>1. files' = files /\ rejected' = rejected
      BY <1>1 DEF database
    <2>2. row.line < Size(path) /\ files[path].lines[row.line + 1].event = row.event
      BY <1>1, <1>12
    <2>3. \A r \in rejected \cup tx'.rejected : r \in rejected \cup tx.rejected \/ r = row
      BY <1>6
    <2> HIDE DEF line, lines
    <2>4. ASSUME NEW r \in rejected \cup tx'.rejected,
                 r.path \in Rotated, files[r.path] # Empty
          PROVE  r.line < Size(r.path) /\ files[r.path].lines[r.line + 1].event = r.event
      BY <2>2, <2>3, <2>4, <1>12 DEF SpoolInv, RowsHoldTheirLine
    <2> QED
      BY <2>1, <2>4 DEF RowsHoldTheirLine, Size
  <1> QED
    BY <1>8, <1>9, <1>10, <1>11, <1>13, <1>14 DEF SpoolInv

\* The commit makes the transaction's tables the tables, and the offset with them.
LEMMA CommitStep == SpoolInv /\ CommitIngest => SpoolInv'
  <1> SUFFICES ASSUME SpoolInv, CommitIngest PROVE SpoolInv'
    OBVIOUS
  <1>1. /\ pc = "read" /\ at = Size(path)
        /\ offset' = [offset EXCEPT ![path] = at]
        /\ stored' = tx.stored /\ rejected' = tx.rejected
        /\ pc' = AfterIngest
        /\ UNCHANGED <<files, producer, home, path, at, tx, kept, todo, spent>>
    BY DEF CommitIngest
  <1>2. /\ path \in Path /\ at \in Nat /\ offset \in [Path -> Nat]
        /\ \A p \in Path : files[p].lines \in Seq(Line)
        /\ tx \in [stored : Seq(Event),
                   rejected : SUBSET [path : Path, line : Nat, event : Event]]
        /\ home \in {"loop", "recover"}
    BY DEF SpoolInv, TypeOK
  <1>3. /\ Recorded(path, files[path].lines, at, stored', rejected')
        /\ Covers(stored', stored)
        /\ rejected \subseteq rejected'
    BY <1>1 DEF SpoolInv, ReadIsRecorded, Covers
  <1>4. /\ pc' \in {"compact", "forget", "loop", "recover"}
        /\ pc' = "forget" => path \in Rotated
    BY <1>1, <1>2 DEF AfterIngest, Path
  <1>5. /\ stored' \in Seq(Event)
        /\ rejected' \subseteq [path : Path, line : Nat, event : Event]
        /\ offset' \in [Path -> Nat]
    BY <1>1, <1>2
  <1>6. TypeOK'
    BY <1>1, <1>4, <1>5 DEF SpoolInv, TypeOK, producer, HandleOpen
  <1>7. NothingSkipped'
    <2> SUFFICES ASSUME NEW p \in Path
                 PROVE  Recorded(p, files[p].lines, offset'[p], stored', rejected')
      BY <1>1 DEF NothingSkipped
    <2>1. CASE p = path
      BY <1>1, <1>2, <1>3, <2>1
    <2>2. CASE p # path
      <3>1. offset'[p] = offset[p] /\ offset[p] \in Nat
        BY <1>1, <1>2, <2>2
      <3>2. Recorded(p, files[p].lines, offset[p], stored, rejected)
        BY DEF SpoolInv, NothingSkipped
      <3> QED
        BY <3>1, <3>2, <1>2, <1>3, RecordedGrows, Unchanged
    <2> QED
      BY <2>1, <2>2
  <1>8. ReadIsRecorded' /\ KeptIsRecorded'
    BY <1>4 DEF ReadIsRecorded, KeptIsRecorded
  <1>9. DeletedIsRecorded'
    BY <1>1, <1>3, <1>4 DEF DeletedIsRecorded, Size
  <1>10. NamesAreFresh'
    <2>1. spent["rotations"] \in Nat /\ path <= spent["rotations"] /\ path \in Nat
      BY <1>2 DEF SpoolInv, TypeOK, NamesAreFresh, Path, Spool, Rotated
    <2>2. ASSUME NEW p \in Rotated, p > spent["rotations"] PROVE offset'[p] = 0
      <3>1. p \in Path /\ p \in Nat
        BY DEF Path, Rotated
      <3>2. p # path
        BY <2>1, <2>2, <3>1
      <3> QED
        BY <1>1, <1>2, <2>2, <3>1, <3>2 DEF SpoolInv, NamesAreFresh
    <2> QED
      BY <1>1, <2>2 DEF SpoolInv, NamesAreFresh
  <1>11. RowsHoldTheirLine'
    BY <1>1 DEF SpoolInv, RowsHoldTheirLine, Size
  <1>12. \A e \in Event : Trace(e) => Trace(e)'
    BY <1>1, <1>2, <1>3, TraceGrows, Unchanged DEF SpoolInv
  <1>13. WrittenHasTrace' /\ NeverVanishes'
    BY <1>1, <1>12 DEF SpoolInv, TypeOK, HandleOpen, WrittenHasTrace, NeverVanishes, producer
  <1> QED
    BY <1>6, <1>7, <1>8, <1>9, <1>10, <1>11, <1>13 DEF SpoolInv

\* An offset is reset, restored to a recorded line, or forgotten.
LEMMA OffsetStep ==
    SpoolInv /\ (ResetOffset \/ RestoreOffset \/ ForgetOffset) => SpoolInv'
  <1> SUFFICES ASSUME SpoolInv, ResetOffset \/ RestoreOffset \/ ForgetOffset PROVE SpoolInv'
    OBVIOUS
  <1>1. /\ UNCHANGED <<files, stored, rejected, producer, home, path, at, tx, kept, todo, spent>>
        /\ pc' \in {"rename", "loop", "unlink"}
    BY DEF ResetOffset, RestoreOffset, ForgetOffset
  <1>2. /\ offset \in [Path -> Nat] /\ Spool \in Path /\ path \in Path /\ kept \in Nat
    BY DEF SpoolInv, TypeOK, Path
  <1>3. \A p \in Path : Recorded(p, files[p].lines, 0, stored, rejected)
    BY DEF Recorded
  <1>4. offset' \in [Path -> Nat]
    BY <1>2 DEF ResetOffset, RestoreOffset, ForgetOffset
  <1>5. \A p \in Path :
          \/ offset'[p] \in {offset[p], 0}
          \/ RestoreOffset /\ p = Spool /\ offset'[p] = kept
    BY <1>2 DEF ResetOffset, RestoreOffset, ForgetOffset
  <1>6. NothingSkipped'
    <2>1. RestoreOffset => Recorded(Spool, files[Spool].lines, kept, stored, rejected)
      BY DEF RestoreOffset, SpoolInv, KeptIsRecorded
    <2>2. \A p \in Path : Recorded(p, files[p].lines, offset'[p], stored, rejected)
      BY <1>3, <1>5, <2>1 DEF SpoolInv, NothingSkipped
    <2> QED
      BY <1>1, <2>2 DEF NothingSkipped
  <1>7. TypeOK'
    BY <1>1, <1>4 DEF SpoolInv, TypeOK, producer, HandleOpen
  <1>8. ReadIsRecorded'
    BY <1>1 DEF ReadIsRecorded
  <1>9. KeptIsRecorded'
    <2>1. pc' = "rename" => ResetOffset
      BY DEF ResetOffset, RestoreOffset, ForgetOffset
    <2>2. ResetOffset => /\ offset'[Spool] = 0
                         /\ Recorded(Spool, files[Spool].lines, kept, stored, rejected)
      BY <1>2 DEF ResetOffset, SpoolInv, KeptIsRecorded
    <2> QED
      BY <1>1, <2>1, <2>2 DEF KeptIsRecorded
  <1>10. DeletedIsRecorded'
    <2>1. pc' = "unlink" => ForgetOffset
      BY DEF ResetOffset, RestoreOffset, ForgetOffset
    <2>2. ForgetOffset => /\ offset'[path] = 0
                          /\ path \in Rotated
                          /\ Recorded(path, files[path].lines, Size(path), stored, rejected)
      BY <1>2 DEF ForgetOffset, SpoolInv, DeletedIsRecorded
    <2> QED
      BY <1>1, <2>1, <2>2 DEF DeletedIsRecorded, Size
  <1>11. NamesAreFresh'
    <2>1. Spool \notin Rotated /\ Rotated \subseteq Path
      BY DEF Spool, Rotated, Path
    <2>2. \A p \in Rotated : offset[p] = 0 => offset'[p] = 0
      BY <1>5, <2>1
    <2> QED
      BY <1>1, <2>2 DEF SpoolInv, NamesAreFresh
  <1>12. RowsHoldTheirLine'
    BY <1>1 DEF SpoolInv, RowsHoldTheirLine, Size
  <1>13. WrittenHasTrace' /\ NeverVanishes'
    BY <1>1 DEF SpoolInv, WrittenHasTrace, NeverVanishes, Trace, Size, producer
  <1> QED
    BY <1>6, <1>7, <1>8, <1>9, <1>10, <1>11, <1>12, <1>13 DEF SpoolInv

\* The renamed file keeps its lines under a name nobody used, and the spool starts
\* anew at an offset that was reset before.
LEMMA RenameStep == SpoolInv /\ Rename => SpoolInv'
  <1> SUFFICES ASSUME SpoolInv, Rename PROVE SpoolInv'
    OBVIOUS
  <1> DEFINE q == spent["rotations"] + 1
  <1>1. /\ pc = "rename" /\ ~HandleOpen /\ Spend("rotations")
        /\ files' = [files EXCEPT ![q] = files[Spool], ![Spool] = Empty]
        /\ path' = q /\ home' = "loop" /\ pc' = "read"
        /\ at' = StartOf(q)
        /\ tx' = [stored |-> stored, rejected |-> rejected]
        /\ UNCHANGED <<database, producer, kept, todo>>
    BY DEF Rename, Ingest
  <1>2. /\ spent["rotations"] \in Nat /\ spent["rotations"] < MaxRotations
        /\ spent' \in Budget /\ spent'["rotations"] = q
    BY <1>1, SpendOne DEF SpoolInv, TypeOK, Budget
  <1>3. q \in Rotated /\ q # Spool /\ q \in Path /\ Spool \in Path /\ q \in Nat
    BY <1>2, BoundsAssumption DEF Rotated, Path, Spool
  <1>4. q > spent["rotations"]
    BY <1>2
  <1> HIDE DEF q
  <1>5. files[q] = Empty /\ offset[q] = 0
    BY <1>3, <1>4 DEF SpoolInv, NamesAreFresh
  <1>6. offset[Spool] = 0
    BY <1>1 DEF SpoolInv, KeptIsRecorded
  <1>7. files \in [Path -> [lines : Seq(Line), torn : BOOLEAN]]
    BY DEF SpoolInv, TypeOK
  <1>8. Empty \in [lines : Seq(Line), torn : BOOLEAN]
    BY DEF Empty
  <1>9. /\ files' \in [Path -> [lines : Seq(Line), torn : BOOLEAN]]
        /\ files'[q] = files[Spool] /\ files'[Spool] = Empty
        /\ \A p \in Path : p # q /\ p # Spool => files'[p] = files[p]
    BY <1>1, <1>3, <1>7, <1>8
  <1>10. at' = 0
    <2>1. Size(q) = 0
      BY <1>5 DEF Size, Empty
    <2> QED
      BY <1>1, <1>5, <2>1 DEF StartOf
  <1>11. tx' \in [stored : Seq(Event),
                  rejected : SUBSET [path : Path, line : Nat, event : Event]]
    BY <1>1 DEF SpoolInv, TypeOK
  <1>12. TypeOK'
    <2>1. UNCHANGED <<offset, stored, rejected, writer, acked, written, kept, todo>>
      BY <1>1 DEF database, producer
    <2>2. path' \in Path /\ home' = "loop" /\ pc' = "read" /\ at' \in Nat
      BY <1>1, <1>3, <1>10
    <2>3. spent' \in [{"writes", "rotations", "tears", "crashes"} -> Nat]
      BY <1>2 DEF Budget
    <2> QED
      BY <2>1, <2>2, <2>3, <1>9, <1>11 DEF SpoolInv, TypeOK, HandleOpen
  <1>13. NothingSkipped'
    <2> SUFFICES ASSUME NEW p \in Path
                 PROVE  Recorded(p, files'[p].lines, offset[p], stored, rejected)
      BY <1>1 DEF NothingSkipped, database
    <2>1. CASE p = q \/ p = Spool
      BY <1>5, <1>6, <2>1 DEF Recorded
    <2>2. CASE p # q /\ p # Spool
      BY <1>9, <2>2 DEF SpoolInv, NothingSkipped
    <2> QED
      BY <2>1, <2>2
  <1>14. ReadIsRecorded'
    BY <1>1, <1>10 DEF ReadIsRecorded, Recorded, database
  <1>15. KeptIsRecorded' /\ DeletedIsRecorded'
    BY <1>1 DEF KeptIsRecorded, DeletedIsRecorded
  <1>16. \A r \in rejected : r.path \in Path /\ r.path # q
    <2>1. \A r \in rejected : r.path <= spent["rotations"] /\ r.path \in Path
      BY DEF SpoolInv, TypeOK, NamesAreFresh
    <2>2. ~(q <= spent["rotations"])
      BY <1>2, <1>3, <1>4
    <2> QED
      BY <2>1, <2>2
  <1>17. NamesAreFresh'
    <2>1. ASSUME NEW p \in Rotated, p > q PROVE files'[p] = Empty /\ offset[p] = 0
      <3>1. p \in Nat /\ p \in Path /\ p # Spool /\ p # q /\ p > spent["rotations"]
        BY <1>2, <1>3, <1>4, <2>1 DEF Rotated, Path, Spool
      <3> QED
        BY <1>9, <3>1 DEF SpoolInv, NamesAreFresh
    <2>2. \A r \in rejected : r.path <= q
      <3>1. \A r \in rejected : r.path <= spent["rotations"] /\ r.path \in Nat
        BY DEF SpoolInv, TypeOK, NamesAreFresh, Path, Spool, Rotated
      <3> QED
        BY <1>2, <1>3, <1>4, <3>1
    <2>3. \A p \in todo : p <= q
      <3>1. \A p \in todo : p <= spent["rotations"] /\ p \in Nat
        BY DEF SpoolInv, TypeOK, NamesAreFresh, Rotated
      <3> QED
        BY <1>2, <1>3, <1>4, <3>1
    <2>4. /\ UNCHANGED <<offset, rejected, todo>> /\ tx'.rejected = rejected
          /\ path' = q /\ spent'["rotations"] = q /\ q <= q
      BY <1>1, <1>2, <1>3 DEF database
    <2> QED
      BY <2>1, <2>2, <2>3, <2>4 DEF NamesAreFresh
  <1>18. RowsHoldTheirLine'
    <2> SUFFICES ASSUME NEW r \in rejected, r.path \in Rotated, files'[r.path] # Empty
                 PROVE  /\ r.line < Len(files'[r.path].lines)
                        /\ files'[r.path].lines[r.line + 1].event = r.event
      BY <1>1 DEF RowsHoldTheirLine, Size, database
    <2>1. r.path \in Path /\ r.path # q /\ r.path # Spool
      BY <1>16 DEF Rotated, Spool
    <2>2. files'[r.path] = files[r.path]
      BY <1>9, <2>1
    <2> QED
      BY <2>2 DEF SpoolInv, RowsHoldTheirLine, Size
  <1>19. ASSUME NEW e \in Event, Trace(e) PROVE Trace(e)'
    <2>1. CASE Holds(stored, e) \/ \E r \in rejected : r.event = e
      BY <1>1, <2>1 DEF Trace, database
    <2>2. CASE \E p \in Path : \E i \in 1 .. Size(p) : files[p].lines[i].event = e
      <3>1. PICK p \in Path : \E i \in 1 .. Size(p) : files[p].lines[i].event = e
        BY <2>2
      <3>2. p # q
        BY <1>5, <3>1 DEF Size, Empty
      <3>3. \E s \in Path : files'[s] = files[p]
        BY <1>3, <1>9, <3>2
      <3> QED
        BY <3>1, <3>3 DEF Trace, Size
    <2> QED
      BY <1>19, <2>1, <2>2 DEF Trace
  <1>20. WrittenHasTrace' /\ NeverVanishes'
    <2>1. WrittenHasTrace'
      BY <1>1 DEF WrittenHasTrace, HandleOpen, producer
    <2>2. NeverVanishes'
      BY <1>1, <1>19 DEF SpoolInv, TypeOK, NeverVanishes, producer
    <2> QED
      BY <2>1, <2>2
  <1> QED
    BY <1>12, <1>13, <1>14, <1>15, <1>17, <1>18, <1>20 DEF SpoolInv

\* A file is deleted when each of its lines is a row.
LEMMA UnlinkStep == SpoolInv /\ Unlink => SpoolInv'
  <1> SUFFICES ASSUME SpoolInv, Unlink PROVE SpoolInv'
    OBVIOUS
  <1>1. /\ pc = "unlink"
        /\ files' = [files EXCEPT ![path] = Empty]
        /\ pc' = home
        /\ UNCHANGED <<database, producer, home, path, at, tx, kept, todo, spent>>
    BY DEF Unlink
  <1>2. /\ path \in Rotated /\ path \in Path /\ offset[path] = 0
        /\ Recorded(path, files[path].lines, Size(path), stored, rejected)
    BY <1>1 DEF SpoolInv, DeletedIsRecorded, Path
  <1>3. /\ files \in [Path -> [lines : Seq(Line), torn : BOOLEAN]]
        /\ home \in {"loop", "recover"}
    BY DEF SpoolInv, TypeOK
  <1>4. Empty \in [lines : Seq(Line), torn : BOOLEAN]
    BY DEF Empty
  <1>5. /\ files' \in [Path -> [lines : Seq(Line), torn : BOOLEAN]]
        /\ files'[path] = Empty
        /\ \A p \in Path : p # path => files'[p] = files[p]
    BY <1>1, <1>2, <1>3, <1>4
  <1>6. TypeOK'
    BY <1>1, <1>3, <1>5 DEF SpoolInv, TypeOK, database, producer, HandleOpen
  <1>7. NothingSkipped'
    <2> SUFFICES ASSUME NEW p \in Path
                 PROVE  Recorded(p, files'[p].lines, offset[p], stored, rejected)
      BY <1>1 DEF NothingSkipped, database
    <2>1. CASE p = path
      BY <1>2, <2>1 DEF Recorded
    <2>2. CASE p # path
      BY <1>5, <2>2 DEF SpoolInv, NothingSkipped
    <2> QED
      BY <2>1, <2>2
  <1>8. ReadIsRecorded' /\ KeptIsRecorded' /\ DeletedIsRecorded'
    BY <1>1, <1>3 DEF ReadIsRecorded, KeptIsRecorded, DeletedIsRecorded
  <1>9. NamesAreFresh'
    <2>1. \A p \in Rotated : p \in Path
      BY DEF Path
    <2>2. \A p \in Rotated : p > spent["rotations"] => files'[p] = Empty /\ offset[p] = 0
      BY <1>5, <2>1 DEF SpoolInv, NamesAreFresh
    <2> QED
      BY <1>1, <2>2 DEF SpoolInv, NamesAreFresh, database
  <1>10. RowsHoldTheirLine'
    <2>1. \A p \in Rotated : files'[p] # Empty => files'[p] = files[p]
      BY <1>5 DEF Path
    <2> QED
      BY <1>1, <2>1 DEF SpoolInv, RowsHoldTheirLine, Size, database
  <1>11. ASSUME NEW e \in Event, Trace(e) PROVE Trace(e)'
    <2>1. CASE Holds(stored, e) \/ \E r \in rejected : r.event = e
      BY <1>1, <2>1 DEF Trace, database
    <2>2. CASE \E p \in Path : \E i \in 1 .. Size(p) : files[p].lines[i].event = e
      <3>1. PICK p \in Path : \E i \in 1 .. Size(p) : files[p].lines[i].event = e
        BY <2>2
      <3>2. CASE p # path
        BY <1>5, <3>1, <3>2 DEF Trace, Size
      <3>3. CASE p = path
        <4>1. PICK i \in 1 .. Size(path) : files[path].lines[i].event = e
          BY <3>1, <3>3
        <4>2. IF files[path].lines[i].whole THEN Holds(stored, e)
              ELSE IsRejected(rejected, path, i - 1)
          BY <1>2, <4>1 DEF Recorded
        <4>3. CASE files[path].lines[i].whole
          BY <1>1, <4>2, <4>3 DEF Trace, database
        <4>4. CASE ~files[path].lines[i].whole
          <5>1. PICK r \in rejected : r.path = path /\ r.line = i - 1
            BY <4>2, <4>4 DEF IsRejected
          <5>2. files[path] # Empty
            BY <4>1 DEF Size, Empty
          <5>3. files[path].lines[r.line + 1].event = r.event
            BY <1>2, <5>1, <5>2 DEF SpoolInv, RowsHoldTheirLine
          <5>4. r.line + 1 = i
            BY <5>1
          <5>5. r.event = e
            BY <4>1, <5>3, <5>4
          <5> QED
            BY <1>1, <5>5 DEF Trace, database
        <4> QED
          BY <4>3, <4>4
      <3> QED
        BY <3>2, <3>3
    <2> QED
      BY <1>11, <2>1, <2>2 DEF Trace
  <1>12. WrittenHasTrace' /\ NeverVanishes'
    BY <1>1, <1>11 DEF SpoolInv, TypeOK, HandleOpen, WrittenHasTrace, NeverVanishes, producer
  <1> QED
    BY <1>6, <1>7, <1>8, <1>9, <1>10, <1>12 DEF SpoolInv

\* Every step preserves the invariant.
LEMMA SpoolStep == SpoolInv /\ [Next]_vars => SpoolInv'
  <1> SUFFICES ASSUME SpoolInv, [Next]_vars PROVE SpoolInv'
    OBVIOUS
  <1>1. CASE Emit
    BY <1>1, EmitOpenStep, EmitPartStep, EmitRestStep, EmitEndStep DEF Emit
  <1>2. CASE EmitCutShort
    BY <1>2, EmitEndStep
  <1>3. CASE BeginLoop \/ SkipCompaction \/ BeginCompaction \/ RenameRefused \/ BridgeCrash
    BY <1>3, IdleStep
  <1>4. CASE (\E p \in Rotated : RecoverFile(p)) \/ IngestSpool
    BY <1>4, BeginReading
  <1>5. CASE ReadLine \/ CommitIngest
    BY <1>5, ReadLineStep, CommitStep
  <1>6. CASE ResetOffset \/ RestoreOffset \/ ForgetOffset
    BY <1>6, OffsetStep
  <1>7. CASE Rename \/ Unlink
    BY <1>7, RenameStep, UnlinkStep
  <1>8. CASE UNCHANGED vars
    <2> USE <1>8 DEF vars, database, producer, bridge
    <2>1. TypeOK'
      BY DEF SpoolInv, TypeOK, HandleOpen
    <2>2. NothingSkipped' /\ WrittenHasTrace' /\ NeverVanishes' /\ RowsHoldTheirLine'
      BY NothingMoved
    <2>3. ReadIsRecorded' /\ KeptIsRecorded' /\ DeletedIsRecorded' /\ NamesAreFresh'
      BY DEF SpoolInv, ReadIsRecorded, KeptIsRecorded, DeletedIsRecorded, NamesAreFresh, Size
    <2> QED
      BY <2>1, <2>2, <2>3 DEF SpoolInv
  <1> QED
    BY <1>1, <1>2, <1>3, <1>4, <1>5, <1>6, <1>7, <1>8 DEF Next, Bridge

-----------------------------------------------------------------------------
(* The refinement of EventLog.                                              *)

\* db is a front part of log.
IsFront(db, log) ==
    /\ Len(db) <= Len(log)
    /\ \A i \in 1 .. Len(db) : db[i] = log[i]

Distinct(log) == \A i, j \in 1 .. Len(log) : log[i] = log[j] => i = j

\* The places [path, line] after the offsets `from` where e has a line of its own.
Places(fs, from, e) ==
    {x \in Path \X Nat :
        /\ from[x[1]] < x[2] /\ x[2] <= Len(fs[x[1]].lines)
        /\ fs[x[1]].lines[x[2]].whole
        /\ fs[x[1]].lines[x[2]].event = e}

\* The bridge reads a file from its front, and the rotated files before the spool.
Before(x, y) == (x[1] = y[1] /\ x[2] < y[2]) \/ (x[1] \in Rotated /\ y[1] = Spool)

\* What the log has beyond db is still to be read, in the order of the log.
InOrder(fs, from, log, db) ==
    /\ \A k \in Len(db) + 1 .. Len(log) : Places(fs, from, log[k]) # {}
    /\ \A j, k \in Len(db) + 1 .. Len(log) :
          j < k => \A y \in Places(fs, from, log[k]) :
                      \E x \in Places(fs, from, log[j]) : Before(x, y)

\* Every whole line that is anywhere is in the log.
LinesAreLogged(fs, log) ==
    \A p \in Path : \A i \in 1 .. Len(fs[p].lines) :
        fs[p].lines[i].whole => Holds(log, fs[p].lines[i].event)

\* Nothing the file has beyond its offset is missing in the database.
NothingNew(p) ==
    \A i \in offset[p] + 1 .. Len(files[p].lines) :
        files[p].lines[i].whole => Holds(stored, files[p].lines[i].event)

\* Only a rotated file the bridge is going to visit before it reads the spool, or
\* the one it is reading, has something new.
SpoolIsLast ==
    /\ pc # "loop" =>
          \A p \in Rotated \ todo : (pc = "read" /\ path = p) \/ NothingNew(p)
    /\ pc \in {"compact", "reset", "rename", "restore"} => todo = {}
    /\ pc = "read" /\ path = Spool => todo = {}

ReadInOrder ==
    /\ IsFront(stored, tx.stored)
    /\ IsFront(tx.stored, written)
    /\ InOrder(files, [offset EXCEPT ![path] = at], written, tx.stored)

LogInv ==
    /\ Distinct(written)
    /\ IsFront(stored, written)
    /\ InOrder(files, offset, written, stored)
    /\ LinesAreLogged(files, written)
    /\ SpoolIsLast
    /\ pc = "read" => ReadInOrder


Files == [Path -> [lines : Seq(Line), torn : BOOLEAN]]

\* What the log has beyond db is not in db.
LEMMA BeyondIsMissing ==
    ASSUME NEW log \in Seq(Event), NEW db \in Seq(Event), IsFront(db, log), Distinct(log),
           NEW k \in Len(db) + 1 .. Len(log)
    PROVE  ~Holds(db, log[k]) /\ k \in 1 .. Len(log) /\ log[k] \in Event
  <1>1. Len(db) \in Nat /\ Len(log) \in Nat /\ DOMAIN db = 1 .. Len(db) /\ DOMAIN log = 1 .. Len(log)
    OBVIOUS
  <1>2. k \in 1 .. Len(log)
    BY <1>1
  <1>3. ASSUME NEW i \in 1 .. Len(db), db[i] = log[k] PROVE FALSE
    <2>1. log[i] = log[k] /\ i \in 1 .. Len(log)
      BY <1>1, <1>3 DEF IsFront
    <2>2. i = k
      BY <1>2, <2>1 DEF Distinct
    <2> QED
      BY <1>1, <2>2
  <1> QED
    BY <1>1, <1>2, <1>3 DEF Holds

\* The order is about the places of the missing events and nothing else.
LEMMA SamePlaces ==
    ASSUME NEW fs, NEW fs2, NEW from, NEW from2, NEW log, NEW db, InOrder(fs, from, log, db),
           \A k \in Len(db) + 1 .. Len(log) :
              Places(fs2, from2, log[k]) = Places(fs, from, log[k])
    PROVE  InOrder(fs2, from2, log, db)
  BY DEF InOrder

\* An offset may move over lines whose event is in db, forward or back.
LEMMA OverKnownLines ==
    ASSUME NEW fs \in Files, NEW from \in [Path -> Nat], NEW from2 \in [Path -> Nat],
           NEW log \in Seq(Event), NEW db \in Seq(Event), IsFront(db, log), Distinct(log),
           InOrder(fs, from, log, db),
           \A p \in Path : \A i \in 1 .. Len(fs[p].lines) :
              fs[p].lines[i].whole /\ (from[p] < i) # (from2[p] < i)
                => Holds(db, fs[p].lines[i].event)
    PROVE  InOrder(fs, from2, log, db)
  <1>1. ASSUME NEW k \in Len(db) + 1 .. Len(log)
        PROVE  Places(fs, from2, log[k]) = Places(fs, from, log[k])
    <2>1. ~Holds(db, log[k])
      BY BeyondIsMissing
    <2>2. ASSUME NEW p \in Path, NEW i \in Nat, i <= Len(fs[p].lines), i > 0,
                 fs[p].lines[i].whole, fs[p].lines[i].event = log[k]
          PROVE  (from[p] < i) = (from2[p] < i)
      <3>1. Len(fs[p].lines) \in Nat
        BY DEF Files
      <3>2. i \in 1 .. Len(fs[p].lines)
        BY <2>2, <3>1
      <3> QED
        BY <2>1, <2>2, <3>2
    <2>3. ASSUME NEW x \in Path \X Nat
          PROVE  x \in Places(fs, from2, log[k]) <=> x \in Places(fs, from, log[k])
      <3>1. x[1] \in Path /\ x[2] \in Nat /\ from[x[1]] \in Nat /\ from2[x[1]] \in Nat
        OBVIOUS
      <3>2. from[x[1]] < x[2] \/ from2[x[1]] < x[2] => x[2] > 0
        BY <3>1
      <3> QED
        BY <2>2, <3>1, <3>2 DEF Places
    <2> QED
      BY <2>3 DEF Places
  <1> QED
    BY <1>1, SamePlaces

\* A line is added at the end of the spool: the last place of all.
LEMMA LineAdded ==
    ASSUME NEW fs \in Files, NEW fs2 \in Files, NEW from \in [Path -> Nat],
           NEW log \in Seq(Event), NEW db \in Seq(Event), IsFront(db, log), Distinct(log),
           InOrder(fs, from, log, db), NEW line \in Line,
           fs2[Spool].lines = Append(fs[Spool].lines, line),
           \A p \in Rotated : fs2[p] = fs[p],
           from[Spool] <= Len(fs[Spool].lines), LinesAreLogged(fs, log)
    PROVE  InOrder(fs2, from, IF line.whole THEN InsertEvent(log, line.event) ELSE log, db)
  <1> DEFINE n == Len(fs[Spool].lines)
             last == <<Spool, n + 1>>
             log2 == IF line.whole THEN InsertEvent(log, line.event) ELSE log
  <1>1. Spool \in Path /\ Spool \notin Rotated /\ Path = {Spool} \cup Rotated
    BY DEF Path, Spool, Rotated
  <1>2. fs[Spool].lines \in Seq(Line) /\ n \in Nat /\ last \in Path \X Nat
    BY <1>1 DEF Files
  <1>3. /\ Len(fs2[Spool].lines) = n + 1
        /\ \A i \in 1 .. n : fs2[Spool].lines[i] = fs[Spool].lines[i]
        /\ fs2[Spool].lines[n + 1] = line
    BY <1>2
  <1>4. /\ line.event \in Event /\ line.whole \in BOOLEAN
        /\ Len(db) \in Nat /\ Len(log) \in Nat /\ Len(db) <= Len(log)
    BY DEF Line, IsFront
  <1>5. \A x \in Path \X Nat : x # last =>
           \A e : x \in Places(fs2, from, e) <=> x \in Places(fs, from, e)
    <2> SUFFICES ASSUME NEW x \in Path \X Nat, x # last, NEW e
                 PROVE  x \in Places(fs2, from, e) <=> x \in Places(fs, from, e)
      OBVIOUS
    <2>1. x = <<x[1], x[2]>> /\ x[1] \in Path /\ x[2] \in Nat /\ from[x[1]] \in Nat
      OBVIOUS
    <2>2. CASE x[1] \in Rotated
      BY <2>1, <2>2 DEF Places
    <2>3. CASE x[1] = Spool
      <3>1. x[2] # n + 1
        BY <2>1, <2>3
      <3>2. from[Spool] < x[2] /\ x[2] <= n + 1 => x[2] \in 1 .. n
        BY <1>2, <2>1, <2>3, <3>1
      <3>3. CASE x[2] \in 1 .. n
        <4>1. fs2[Spool].lines[x[2]] = fs[Spool].lines[x[2]] /\ x[2] <= n /\ x[2] <= n + 1
          BY <1>2, <1>3, <3>3
        <4> QED
          BY <4>1, <1>3, <2>1, <2>3 DEF Places
      <3>4. CASE x[2] \notin 1 .. n
        BY <1>2, <1>3, <2>1, <2>3, <3>2, <3>4 DEF Places
      <3> QED
        BY <3>3, <3>4
    <2> QED
      BY <1>1, <2>1, <2>2, <2>3
  <1>6. \A e : last \in Places(fs2, from, e) <=> line.whole /\ line.event = e
    <2>1. /\ last[1] = Spool /\ last[2] = n + 1 /\ from[Spool] \in Nat
          /\ from[Spool] < n + 1 /\ n + 1 <= Len(fs2[Spool].lines)
      BY <1>1, <1>2, <1>3
    <2> HIDE DEF last, n
    <2> QED
      BY <2>1, <1>2, <1>3 DEF Places
  <1>7. \A e : last \notin Places(fs, from, e)
    BY <1>2 DEF Places
  <1>8. \A e : \A x \in Places(fs, from, e) : x \in Places(fs2, from, e) /\ Before(x, last)
    <2> SUFFICES ASSUME NEW e, NEW x \in Places(fs, from, e)
                 PROVE  x \in Places(fs2, from, e) /\ Before(x, last)
      OBVIOUS
    <2>1. x \in Path \X Nat /\ x # last /\ x[1] \in Path /\ x[2] \in Nat
      BY <1>7 DEF Places
    <2>2. x[1] = Spool => x[2] < n + 1
      BY <1>2, <2>1 DEF Places
    <2> QED
      BY <1>1, <1>5, <2>1, <2>2 DEF Before
  <1>9. /\ Len(log2) \in Nat /\ Len(log) <= Len(log2) /\ Len(log2) <= Len(log) + 1
        /\ \A i \in 1 .. Len(log) : log2[i] = log[i]
        /\ Len(log2) = Len(log) + 1 => line.whole /\ log2[Len(log) + 1] = line.event
    <2>1. CASE log2 = log
      BY <2>1, <1>4
    <2>2. CASE log2 # log
      <3>1. line.whole /\ log2 = Append(log, line.event)
        BY <2>2 DEF InsertEvent
      <3> HIDE DEF log2
      <3> QED
        BY <3>1, <1>4
    <2> QED
      BY <2>1, <2>2
  <1> HIDE DEF log2, last, n
  <1>10. ASSUME NEW k \in Len(db) + 1 .. Len(log2)
         PROVE  Places(fs2, from, log2[k]) # {}
    <2>1. CASE k \in Len(db) + 1 .. Len(log)
      <3>1. Places(fs, from, log[k]) # {} /\ log2[k] = log[k]
        BY <2>1, <1>4, <1>9 DEF InOrder
      <3> QED
        BY <3>1, <1>8
    <2>2. CASE k = Len(log) + 1
      <3>1. line.whole /\ log2[k] = line.event
        BY <2>2, <1>4, <1>9
      <3> QED
        BY <3>1, <1>6
    <2> QED
      BY <2>1, <2>2, <1>4, <1>9
  <1>11. ASSUME NEW j \in Len(db) + 1 .. Len(log2), NEW k \in Len(db) + 1 .. Len(log2), j < k,
                NEW y \in Places(fs2, from, log2[k])
         PROVE  \E x \in Places(fs2, from, log2[j]) : Before(x, y)
    <2>1. j \in Len(db) + 1 .. Len(log) /\ log2[j] = log[j]
      BY <1>4, <1>9, <1>11
    <2>2. CASE y = last
      <3>1. PICK x \in Places(fs, from, log[j]) : TRUE
        BY <2>1 DEF InOrder
      <3> QED
        BY <2>1, <2>2, <3>1, <1>8
    <2>3. CASE y # last
      <3>1. y \in Places(fs, from, log2[k])
        BY <2>3, <1>5 DEF Places
      <3>2. k \in Len(db) + 1 .. Len(log)
        <4>1. CASE k = Len(log) + 1
          <5>1. log2[k] = line.event
            BY <4>1, <1>4, <1>9
          <5>2. CASE \E i \in 1 .. Len(log) : log[i] = line.event
            <6>1. Holds(log, line.event)
              BY <5>2 DEF Holds
            <6>2. log2 = log
              BY <6>1 DEF log2, InsertEvent
            <6> QED
              BY <6>2, <4>1, <1>4
          <5>3. CASE ~\E i \in 1 .. Len(log) : log[i] = line.event
            <6>1. /\ y[1] \in Path /\ y[2] \in Nat /\ from[y[1]] \in Nat
                  /\ from[y[1]] < y[2] /\ y[2] <= Len(fs[y[1]].lines)
                  /\ fs[y[1]].lines[y[2]].whole
                  /\ fs[y[1]].lines[y[2]].event = line.event
              BY <3>1, <5>1 DEF Places
            <6>2. Len(fs[y[1]].lines) \in Nat
              BY <6>1 DEF Files
            <6>3. y[2] \in 1 .. Len(fs[y[1]].lines)
              BY <6>1, <6>2
            <6>4. Holds(log, line.event)
              BY <6>1, <6>3 DEF LinesAreLogged
            <6> QED
              BY <6>4, <5>3 DEF Holds
          <5> QED
            BY <5>2, <5>3
        <4> QED
          BY <4>1, <1>4, <1>9
      <3>3. log2[k] = log[k]
        BY <3>2, <1>4, <1>9
      <3>4. PICK x \in Places(fs, from, log[j]) : Before(x, y)
        BY <2>1, <3>1, <3>2, <3>3, <1>11 DEF InOrder
      <3> QED
        BY <2>1, <3>4, <1>8
    <2> QED
      BY <2>2, <2>3
  <1> QED
    BY <1>10, <1>11 DEF InOrder, log2

\* The file has nothing beyond `from` that db misses.
Known(fs, from, db, p) ==
    \A i \in from[p] + 1 .. Len(fs[p].lines) :
        fs[p].lines[i].whole => Holds(db, fs[p].lines[i].event)

\* No missing event has a place in such a file.
LEMMA NotInKnown ==
    ASSUME NEW fs \in Files, NEW from \in [Path -> Nat], NEW db, NEW e, ~Holds(db, e),
           NEW x \in Places(fs, from, e), Known(fs, from, db, x[1])
    PROVE  FALSE
  <1>1. /\ x[1] \in Path /\ x[2] \in Nat /\ from[x[1]] \in Nat
        /\ from[x[1]] < x[2] /\ x[2] <= Len(fs[x[1]].lines)
        /\ fs[x[1]].lines[x[2]].whole /\ fs[x[1]].lines[x[2]].event = e
    BY DEF Places
  <1>2. Len(fs[x[1]].lines) \in Nat
    BY <1>1 DEF Files
  <1>3. x[2] \in from[x[1]] + 1 .. Len(fs[x[1]].lines)
    BY <1>1, <1>2
  <1> QED
    BY <1>1, <1>3 DEF Known

\* The spool is moved under a fresh name: its places move with it.
LEMMA SpoolMoved ==
    ASSUME NEW fs \in Files, NEW fs2, NEW from \in [Path -> Nat],
           NEW log \in Seq(Event), NEW db \in Seq(Event), IsFront(db, log), Distinct(log),
           InOrder(fs, from, log, db), NEW r \in Rotated,
           fs[r] = Empty, from[r] = 0, from[Spool] = 0,
           \A p \in Rotated : Known(fs, from, db, p),
           fs2 = [fs EXCEPT ![r] = fs[Spool], ![Spool] = Empty]
    PROVE  InOrder(fs2, from, log, db)
  <1>1. /\ Spool \in Path /\ r \in Path /\ r # Spool /\ Path = {Spool} \cup Rotated
        /\ Spool \notin Rotated
    BY DEF Path, Spool, Rotated
  <1>2. /\ fs2[r] = fs[Spool] /\ fs2[Spool] = Empty
        /\ \A p \in Path : p # r /\ p # Spool => fs2[p] = fs[p]
    BY <1>1 DEF Files
  <1>3. ASSUME NEW k \in Len(db) + 1 .. Len(log), NEW i \in Nat
        PROVE  <<r, i>> \in Places(fs2, from, log[k]) <=> <<Spool, i>> \in Places(fs, from, log[k])
    <2>1. <<r, i>> \in Path \X Nat /\ <<Spool, i>> \in Path \X Nat
      BY <1>1
    <2> QED
      BY <2>1, <1>2 DEF Places
  <1>4. ASSUME NEW k \in Len(db) + 1 .. Len(log), NEW x \in Places(fs, from, log[k])
        PROVE  x[2] \in Nat /\ x = <<Spool, x[2]>>
    <2>1. ~Holds(db, log[k])
      BY BeyondIsMissing
    <2>2. x \in Path \X Nat /\ x = <<x[1], x[2]>> /\ x[1] \in Path /\ x[2] \in Nat
      BY DEF Places
    <2>3. x[1] \notin Rotated
      BY <2>1, NotInKnown
    <2> QED
      BY <2>2, <2>3, <1>1
  <1>5. ASSUME NEW k \in Len(db) + 1 .. Len(log), NEW y \in Places(fs2, from, log[k])
        PROVE  y[2] \in Nat /\ y = <<r, y[2]>>
    <2>1. ~Holds(db, log[k])
      BY BeyondIsMissing
    <2>2. /\ y \in Path \X Nat /\ y = <<y[1], y[2]>> /\ y[1] \in Path /\ y[2] \in Nat
          /\ from[y[1]] < y[2] /\ y[2] <= Len(fs2[y[1]].lines)
      BY DEF Places
    <2>3. y[1] # Spool
      <3>1. Len(Empty.lines) = 0
        BY DEF Empty
      <3> SUFFICES ASSUME y[1] = Spool PROVE FALSE
        OBVIOUS
      <3>2. 0 < y[2] /\ y[2] <= Len(fs2[Spool].lines)
        BY <2>2
      <3>3. y[2] <= 0
        BY <3>1, <3>2, <1>2
      <3> QED
        BY <2>2, <3>2, <3>3
    <2>4. CASE y[1] # r
      <3>1. fs2[y[1]] = fs[y[1]]
        BY <2>2, <2>3, <2>4, <1>2
      <3>2. y \in Places(fs, from, log[k])
        BY <3>1 DEF Places
      <3>3. y[1] \in Rotated
        BY <2>2, <2>3, <1>1
      <3> QED
        BY <2>1, <3>2, <3>3, NotInKnown
    <2> QED
      BY <2>2, <2>4
  <1>6. ASSUME NEW k \in Len(db) + 1 .. Len(log)
        PROVE  Places(fs2, from, log[k]) # {}
    <2>1. PICK x \in Places(fs, from, log[k]) : TRUE
      BY DEF InOrder
    <2>2. x[2] \in Nat /\ x = <<Spool, x[2]>>
      BY <1>4
    <2> QED
      BY <2>1, <2>2, <1>3
  <1>7. ASSUME NEW j \in Len(db) + 1 .. Len(log), NEW k \in Len(db) + 1 .. Len(log), j < k,
               NEW y \in Places(fs2, from, log[k])
        PROVE  \E x \in Places(fs2, from, log[j]) : Before(x, y)
    <2>1. y[2] \in Nat /\ y = <<r, y[2]>>
      BY <1>5
    <2>2. <<Spool, y[2]>> \in Places(fs, from, log[k])
      BY <2>1, <1>3
    <2>3. PICK x \in Places(fs, from, log[j]) : Before(x, <<Spool, y[2]>>)
      BY <2>2, <1>7 DEF InOrder
    <2>4. x[2] \in Nat /\ x = <<Spool, x[2]>>
      BY <1>4
    <2>5. x[2] < y[2]
      BY <2>3, <2>4, <1>1 DEF Before
    <2>6. <<r, x[2]>> \in Places(fs2, from, log[j])
      BY <2>4, <1>3
    <2>7. Before(<<r, x[2]>>, y)
      BY <2>1, <2>5 DEF Before
    <2> QED
      BY <2>6, <2>7
  <1> QED
    BY <1>6, <1>7 DEF InOrder

\* What Append does, place by place.
LEMMA Appended ==
    ASSUME NEW db \in Seq(Event), NEW e \in Event
    PROVE  /\ Len(Append(db, e)) = Len(db) + 1 /\ Append(db, e) \in Seq(Event)
           /\ Append(db, e)[Len(db) + 1] = e
           /\ \A i \in 1 .. Len(db) : Append(db, e)[i] = db[i]
           /\ DOMAIN Append(db, e) = 1 .. Len(db) + 1
  <1>1. Append(db, e) \in Seq(Event) /\ Len(Append(db, e)) = Len(db) + 1
    OBVIOUS
  <1>2. DOMAIN Append(db, e) = 1 .. Len(db) + 1
    BY <1>1
  <1>3. Append(db, e)[Len(db) + 1] = e /\ \A i \in 1 .. Len(db) : Append(db, e)[i] = db[i]
    OBVIOUS
  <1> QED
    BY <1>1, <1>2, <1>3

\* Reading the next line: if its event is missing, it is the next of the log.
LEMMA NextIsRead ==
    ASSUME NEW fs \in Files, NEW p \in Path, NEW from \in [Path -> Nat],
           from[p] < Len(fs[p].lines),
           NEW log \in Seq(Event), NEW db \in Seq(Event), IsFront(db, log), Distinct(log),
           InOrder(fs, from, log, db), LinesAreLogged(fs, log),
           p = Spool => \A q \in Rotated : Known(fs, from, db, q),
           NEW line, line = fs[p].lines[from[p] + 1],
           NEW db2, db2 = IF line.whole THEN InsertEvent(db, line.event) ELSE db
    PROVE  /\ IsFront(db2, log) /\ IsFront(db, db2)
           /\ InOrder(fs, [from EXCEPT ![p] = from[p] + 1], log, db2)
  <1> DEFINE n == from[p] + 1
             from2 == [from EXCEPT ![p] = n]
  <1>1. /\ n \in Nat /\ from[p] \in Nat /\ Len(fs[p].lines) \in Nat /\ n \in 1 .. Len(fs[p].lines)
        /\ fs[p].lines \in Seq(Line)
    BY DEF Files
  <1>2. line \in Line /\ line.whole \in BOOLEAN /\ line.event \in Event
    <2>1. line \in Line
      BY <1>1
    <2> QED
      BY <2>1 DEF Line
  <1>3. from2 \in [Path -> Nat]
    BY <1>1
  <1>4. ASSUME NEW q \in Path, NEW i \in 1 .. Len(fs[q].lines), (from[q] < i) # (from2[q] < i)
        PROVE  q = p /\ i = n
    BY <1>1, <1>4
  <1>5. /\ Len(db) \in Nat /\ Len(log) \in Nat /\ Len(db) <= Len(log)
        /\ DOMAIN db = 1 .. Len(db) /\ DOMAIN log = 1 .. Len(log)
        /\ \A i \in 1 .. Len(db) : db[i] = log[i]
    BY DEF IsFront
  <1>6. ASSUME NEW d \in Seq(Event), IsFront(d, log), InOrder(fs, from, log, d),
               line.whole => Holds(d, line.event)
        PROVE  InOrder(fs, from2, log, d)
    <2>1. ASSUME NEW q \in Path, NEW i \in 1 .. Len(fs[q].lines), fs[q].lines[i].whole,
                 (from[q] < i) # (from2[q] < i)
          PROVE  Holds(d, fs[q].lines[i].event)
      <3>1. q = p /\ i = n
        BY <1>4, <2>1
      <3> QED
        BY <1>6, <2>1, <3>1
    <2> HIDE DEF from2, n
    <2> QED
      BY <1>3, <1>6, <2>1, OverKnownLines
  <1>7. CASE line.whole => Holds(db, line.event)
    <2>1. db2 = db
      BY <1>7, <1>2 DEF InsertEvent
    <2>2. IsFront(db, db)
      BY <1>5 DEF IsFront
    <2> QED
      BY <1>6, <1>7, <2>1, <2>2
  <1>8. CASE line.whole /\ ~Holds(db, line.event)
    <2>1. db2 = Append(db, line.event)
      BY <1>8 DEF InsertEvent
    <2>2. /\ Len(db2) = Len(db) + 1 /\ db2 \in Seq(Event) /\ db2[Len(db) + 1] = line.event
          /\ \A i \in 1 .. Len(db) : db2[i] = db[i]
          /\ DOMAIN db2 = 1 .. Len(db) + 1
      <3> DEFINE longer == Append(db, line.event)
      <3>1. /\ Len(longer) = Len(db) + 1 /\ longer \in Seq(Event)
            /\ longer[Len(db) + 1] = line.event
            /\ \A i \in 1 .. Len(db) : longer[i] = db[i]
            /\ DOMAIN longer = 1 .. Len(db) + 1
        <4>1. line.event \in Event
          BY <1>2
        <4> HIDE DEF longer
        <4> QED
          BY <4>1, Appended DEF longer
      <3>2. db2 = longer
        BY <2>1
      <3> HIDE DEF longer
      <3> QED
        BY <3>1, <3>2
    <2>3. PICK k \in 1 .. Len(log) : log[k] = line.event
      <3>1. Holds(log, line.event)
        BY <1>1, <1>8 DEF LinesAreLogged
      <3> QED
        BY <3>1, <1>5 DEF Holds
    <2>4. k \in Len(db) + 1 .. Len(log)
      BY <2>3, <1>5, <1>8 DEF Holds
    <2> DEFINE y == <<p, n>>
    <2>5. y \in Places(fs, from, log[k])
      <3>1. y \in Path \X Nat /\ y[1] = p /\ y[2] = n
        BY <1>1
      <3>2. from[p] < n /\ n <= Len(fs[p].lines)
        BY <1>1
      <3> HIDE DEF y
      <3> QED
        BY <3>1, <3>2, <2>3, <1>8 DEF Places
    <2>6. CASE k # Len(db) + 1
      <3> DEFINE j == Len(db) + 1
      <3>1. j \in Len(db) + 1 .. Len(log) /\ j < k
        BY <2>4, <2>6, <1>5
      <3> HIDE DEF j, y
      <3>2. PICK x \in Places(fs, from, log[j]) : Before(x, y)
        BY <2>4, <2>5, <3>1 DEF InOrder
      <3>3. ~Holds(db, log[j])
        BY <3>1, BeyondIsMissing
      <3>4. /\ x[1] \in Path /\ x[2] \in Nat /\ from[x[1]] < x[2]
        BY DEF Places
      <3>5. CASE x[1] = p
        BY <3>2, <3>4, <3>5, <1>1 DEF Before, y, Spool, Rotated
      <3>6. CASE x[1] # p
        <4>1. p = Spool /\ x[1] \in Rotated
          BY <3>2, <3>6 DEF Before, y
        <4> QED
          BY <4>1, <3>3, NotInKnown
      <3> QED
        BY <3>5, <3>6
    <2>7. CASE k = Len(db) + 1
      <3>1. IsFront(db2, log) /\ IsFront(db, db2)
        <4>1. IsFront(db, db2)
          BY <2>2, <1>5 DEF IsFront
        <4>2. ASSUME NEW i \in 1 .. Len(db2) PROVE db2[i] = log[i]
          <5>1. CASE i \in 1 .. Len(db)
            BY <5>1, <2>2, <1>5
          <5>2. CASE i = Len(db) + 1
            BY <5>2, <2>2, <2>3, <2>7
          <5> QED
            BY <5>1, <5>2, <2>2, <1>5
        <4>3. Len(db2) <= Len(log)
          BY <2>2, <2>4, <2>7, <1>5
        <4> QED
          BY <4>1, <4>2, <4>3 DEF IsFront
      <3>2. InOrder(fs, from, log, db2)
        <4>1. Len(db2) + 1 .. Len(log) \subseteq Len(db) + 1 .. Len(log)
          BY <2>2, <1>5
        <4> QED
          BY <4>1 DEF InOrder
      <3>3. Holds(db2, line.event)
        <4>1. Len(db) + 1 \in DOMAIN db2
          BY <2>2, <1>5
        <4> QED
          BY <4>1, <2>2 DEF Holds
      <3> QED
        BY <1>6, <2>2, <3>1, <3>2, <3>3
    <2> QED
      BY <2>6, <2>7
  <1> QED
    BY <1>2, <1>7, <1>8

\* What the steps need of SpoolInv.
LEMMA SpoolFacts ==
    ASSUME SpoolInv
    PROVE  /\ files \in Files /\ offset \in [Path -> Nat]
           /\ stored \in Seq(Event) /\ written \in Seq(Event) /\ tx.stored \in Seq(Event)
           /\ path \in Path /\ at \in Nat /\ home \in {"loop", "recover"}
           /\ \A p \in Path : /\ offset[p] \in Nat /\ Len(files[p].lines) \in Nat
                              /\ offset[p] <= Len(files[p].lines)
           /\ pc = "read" => at <= Len(files[path].lines)
           /\ Spool \in Path /\ Path = {Spool} \cup Rotated /\ Spool \notin Rotated
  <1>1. /\ files \in Files /\ offset \in [Path -> Nat]
        /\ stored \in Seq(Event) /\ written \in Seq(Event) /\ tx.stored \in Seq(Event)
        /\ path \in Path /\ at \in Nat /\ home \in {"loop", "recover"}
    BY DEF SpoolInv, TypeOK, Files
  <1>2. ASSUME NEW p \in Path
        PROVE  /\ offset[p] \in Nat /\ Len(files[p].lines) \in Nat
               /\ offset[p] <= Len(files[p].lines)
    <2>1. offset[p] \in Nat /\ Len(files[p].lines) \in Nat
      BY <1>1 DEF Files
    <2>2. \A i \in 1 .. offset[p] : i <= Len(files[p].lines)
      BY DEF SpoolInv, NothingSkipped, Recorded
    <2>3. offset[p] = 0 \/ offset[p] \in 1 .. offset[p]
      BY <2>1
    <2> QED
      BY <2>1, <2>2, <2>3
  <1>3. pc = "read" => at <= Len(files[path].lines)
    <2> SUFFICES ASSUME pc = "read" PROVE at <= Len(files[path].lines)
      OBVIOUS
    <2>1. \A i \in 1 .. at : i <= Len(files[path].lines)
      BY DEF SpoolInv, ReadIsRecorded, Recorded
    <2>2. at = 0 \/ at \in 1 .. at
      BY <1>1
    <2> QED
      BY <1>1, <1>2, <2>1, <2>2
  <1> QED
    BY <1>1, <1>2, <1>3 DEF Path, Spool, Rotated

\* The empty log.
LEMMA InitLog == Init => LogInv
  <1> SUFFICES ASSUME Init PROVE LogInv
    OBVIOUS
  <1>1. written = <<>> /\ stored = <<>> /\ Len(<<>>) = 0 /\ pc = "loop"
    BY DEF Init
  <1>2. \A p \in Path : Len(files[p].lines) = 0
    BY DEF Init, Empty
  <1> QED
    BY <1>1, <1>2 DEF LogInv, Distinct, IsFront, InOrder, LinesAreLogged, SpoolIsLast

\* Steps that change no line, no row, no offset and not the log.
LEMMA CalmLog ==
    ASSUME LogInv, \A p \in Path : files'[p].lines = files[p].lines,
           UNCHANGED <<offset, stored, written>>,
           SpoolIsLast', pc' = "read" => ReadInOrder'
    PROVE  LogInv'
  <1>1. \A e : Places(files', offset', e) = Places(files, offset, e)
    BY DEF Places
  <1>2. InOrder(files', offset', written, stored)
    BY <1>1, SamePlaces DEF LogInv
  <1>3. LinesAreLogged(files', written')
    BY DEF LogInv, LinesAreLogged
  <1> QED
    BY <1>2, <1>3 DEF LogInv

\* An Emit that adds no line.
LEMMA EmitCalmLog ==
    ASSUME SpoolInv, LogInv,
           (\E e \in Event : EmitOpen(e)) \/ EmitPart \/ EmitClose \/ EmitCutShort
    PROVE  LogInv'
  <1>1. UNCHANGED <<database, written, bridge>>
    BY DEF EmitOpen, EmitPart, EmitClose, EmitCutShort
  <1>2. \A p \in Path : files'[p].lines = files[p].lines
    <2>1. CASE EmitPart
      <3>1. files' = [files EXCEPT ![Spool] = [files[Spool] EXCEPT !.torn = TRUE]]
        BY <2>1 DEF EmitPart
      <3>2. files[Spool] \in [lines : Seq(Line), torn : BOOLEAN]
        BY SpoolFacts DEF Files
      <3>3. [files[Spool] EXCEPT !.torn = TRUE].lines = files[Spool].lines
        BY <3>2
      <3> QED
        BY <3>1, <3>3, SpoolFacts DEF Files
    <2>2. CASE ~EmitPart
      BY <2>2 DEF EmitOpen, EmitClose, EmitCutShort
    <2> QED
      BY <2>1, <2>2
  <1>3. SpoolIsLast'
    BY <1>1, <1>2 DEF LogInv, SpoolIsLast, NothingNew, database, bridge, Path
  <1>4. \A from, e : Places(files', from, e) = Places(files, from, e)
    BY <1>2 DEF Places
  <1>5. ASSUME pc' = "read" PROVE ReadInOrder'
    <2> DEFINE from == [offset EXCEPT ![path] = at]
    <2>1. UNCHANGED <<offset, path, at, tx, stored, written>> /\ pc = "read"
      BY <1>1, <1>5 DEF database, bridge
    <2>2. ReadInOrder
      BY <2>1 DEF LogInv
    <2>3. InOrder(files, from, written, tx.stored)
      BY <2>2 DEF ReadInOrder
    <2> HIDE DEF from
    <2>4. InOrder(files', from, written, tx.stored)
      BY <1>4, <2>3, SamePlaces
    <2> QED
      BY <2>1, <2>2, <2>4 DEF ReadInOrder, from
  <1> QED
    BY <1>1, <1>2, <1>3, <1>5, CalmLog DEF database

\* The newline of a line of its own puts its event at the end of the log.
LEMMA EmitRestLog ==
    ASSUME SpoolInv, SpoolInv', LogInv, EmitRest
    PROVE  LogInv'
  <1> DEFINE line == [event |-> writer.event, whole |-> writer.whole]
  <1>1. /\ UNCHANGED <<database, bridge>> /\ writer.step = "part"
        /\ files' = [files EXCEPT ![Spool] =
              [lines |-> Append(files[Spool].lines, line), torn |-> FALSE]]
        /\ written' = IF line.whole THEN InsertEvent(written, line.event) ELSE written
    BY DEF EmitRest
  <1>2. line \in Line /\ line.event \in Event
    BY <1>1 DEF SpoolInv, TypeOK, HandleOpen, Line
  <1>3. files' \in Files /\ written' \in Seq(Event)
    BY SpoolFacts DEF SpoolInv, TypeOK, Files
  <1> HIDE DEF line
  <1>4. /\ files'[Spool].lines = Append(files[Spool].lines, line)
        /\ \A p \in Rotated : files'[p] = files[p]
    BY <1>1, SpoolFacts DEF Files
  <1>5. UNCHANGED <<offset, stored, tx, at, path, pc, todo>>
    BY <1>1 DEF database, bridge
  <1>6. InOrder(files', offset', written', stored')
    <2>1. offset[Spool] <= Len(files[Spool].lines)
      BY SpoolFacts
    <2> QED
      BY <1>1, <1>2, <1>3, <1>4, <1>5, <2>1, SpoolFacts, LineAdded DEF LogInv
  <1>7. IsFront(written, written') /\ Distinct(written')
    <2>1. CASE written' = written
      BY <2>1 DEF LogInv, IsFront
    <2>2. CASE written' # written
      <3> DEFINE longer == Append(written, line.event)
      <3>1. ~Holds(written, line.event) /\ written' = longer
        BY <1>1, <2>2 DEF InsertEvent
      <3>2. /\ Len(longer) = Len(written) + 1
            /\ longer[Len(written) + 1] = line.event
            /\ \A i \in 1 .. Len(written) : longer[i] = written[i]
        BY <1>2, Appended, SpoolFacts
      <3>3. Len(written) \in Nat /\ DOMAIN written = 1 .. Len(written)
        BY SpoolFacts
      <3> HIDE DEF longer
      <3>4. IsFront(written, longer)
        BY <3>2, <3>3 DEF IsFront
      <3>5. ASSUME NEW i \in 1 .. Len(longer), NEW j \in 1 .. Len(longer), longer[i] = longer[j]
            PROVE  i = j
        <4>1. \A k \in 1 .. Len(written) : written[k] # line.event
          BY <3>1, <3>3 DEF Holds
        <4>2. CASE i \in 1 .. Len(written) /\ j \in 1 .. Len(written)
          BY <3>2, <3>5, <4>2 DEF LogInv, Distinct
        <4>3. CASE i = Len(written) + 1 /\ j \in 1 .. Len(written)
          BY <3>2, <3>5, <4>1, <4>3
        <4>4. CASE j = Len(written) + 1 /\ i \in 1 .. Len(written)
          BY <3>2, <3>5, <4>1, <4>4
        <4> QED
          BY <3>2, <3>3, <4>2, <4>3, <4>4
      <3> QED
        BY <3>1, <3>4, <3>5 DEF Distinct
    <2> QED
      BY <2>1, <2>2
  <1>8. ASSUME NEW db \in Seq(Event), IsFront(db, written) PROVE IsFront(db, written')
    <2>1. Len(db) \in Nat /\ Len(written) \in Nat /\ Len(written') \in Nat
      BY <1>3, SpoolFacts
    <2> QED
      BY <1>7, <1>8, <2>1 DEF IsFront
  <1>9. LinesAreLogged(files', written')
    <2> SUFFICES ASSUME NEW p \in Path, NEW i \in 1 .. Len(files'[p].lines),
                        files'[p].lines[i].whole
                 PROVE  Holds(written', files'[p].lines[i].event)
      BY DEF LinesAreLogged
    <2>1. ASSUME NEW e, Holds(written, e) PROVE Holds(written', e)
      <3>1. PICK k \in DOMAIN written : written[k] = e
        BY <2>1 DEF Holds
      <3>2. Len(written) \in Nat /\ DOMAIN written = 1 .. Len(written) /\ Len(written') \in Nat
            /\ DOMAIN written' = 1 .. Len(written')
        BY <1>3, SpoolFacts
      <3>3. k \in DOMAIN written' /\ written'[k] = e
        BY <1>7, <3>1, <3>2 DEF IsFront
      <3> QED
        BY <3>3 DEF Holds
    <2>2. CASE p \in Rotated
      BY <2>1, <2>2, <1>4 DEF LogInv, LinesAreLogged
    <2>3. CASE p = Spool
      <3> DEFINE old == files[Spool].lines
      <3>1. old \in Seq(Line) /\ Len(old) \in Nat
        BY SpoolFacts DEF Files
      <3>2. /\ Len(files'[Spool].lines) = Len(old) + 1
            /\ files'[Spool].lines[Len(old) + 1] = line
            /\ \A k \in 1 .. Len(old) : files'[Spool].lines[k] = old[k]
        BY <1>2, <1>4, <3>1
      <3>3. CASE i \in 1 .. Len(old)
        BY <2>1, <2>3, <3>2, <3>3, SpoolFacts DEF LogInv, LinesAreLogged
      <3>4. CASE i = Len(old) + 1
        <4>1. line.whole /\ files'[p].lines[i].event = line.event
          BY <2>3, <3>2, <3>4
        <4>2. Holds(InsertEvent(written, line.event), line.event)
          BY <1>2, InsertEventHolds, SpoolFacts
        <4> QED
          BY <1>1, <4>1, <4>2
      <3> QED
        BY <2>3, <3>1, <3>2, <3>3, <3>4
    <2> QED
      BY <2>2, <2>3, SpoolFacts
  <1>10. SpoolIsLast'
    BY <1>4, <1>5 DEF LogInv, SpoolIsLast, NothingNew
  <1>11. ASSUME pc' = "read" PROVE ReadInOrder'
    <2>1. pc = "read" /\ ReadInOrder
      BY <1>5, <1>11 DEF LogInv
    <2> DEFINE from == [offset EXCEPT ![path] = at]
    <2>2. from \in [Path -> Nat] /\ from[Spool] <= Len(files[Spool].lines)
      BY <2>1, SpoolFacts
    <2>3. InOrder(files, from, written, tx.stored) /\ IsFront(tx.stored, written)
      BY <2>1 DEF ReadInOrder
    <2> HIDE DEF from
    <2>4. InOrder(files', from, written', tx.stored)
      BY <1>1, <1>2, <1>3, <1>4, <2>2, <2>3, SpoolFacts, LineAdded DEF LogInv
    <2>5. IsFront(tx.stored, written')
      BY <1>8, <2>3, SpoolFacts
    <2> QED
      BY <1>5, <2>1, <2>4, <2>5 DEF ReadInOrder, from
  <1> QED
    BY <1>5, <1>6, <1>7, <1>8, <1>9, <1>10, <1>11, SpoolFacts DEF LogInv

\* Control moves on without touching a file or a table.
LEMMA IdleLog ==
    ASSUME SpoolInv, LogInv,
           BeginLoop \/ SkipCompaction \/ BeginCompaction \/ RenameRefused \/ BridgeCrash
    PROVE  LogInv'
  <1>1. UNCHANGED <<files, database, producer>> /\ pc' # "read"
    BY DEF BeginLoop, SkipCompaction, BeginCompaction, RenameRefused, BridgeCrash
  <1>2. \A p \in Path : NothingNew(p)' <=> NothingNew(p)
    BY <1>1 DEF NothingNew, database
  <1>3. SpoolIsLast'
    <2>1. CASE BeginLoop
      <3>1. pc' = "recover" /\ todo' = Remnants
        BY <2>1 DEF BeginLoop
      <3>2. ASSUME NEW p \in Rotated \ Remnants PROVE NothingNew(p)
        <4>1. files[p].lines = <<>> /\ p \in Path
          BY <3>2, SpoolFacts DEF Remnants
        <4>2. Len(files[p].lines) = 0 /\ offset[p] \in Nat
          BY <4>1, SpoolFacts
        <4> QED
          BY <4>2 DEF NothingNew
      <3> QED
        BY <1>2, <3>1, <3>2, SpoolFacts DEF SpoolIsLast
    <2>2. CASE SkipCompaction \/ BridgeCrash
      BY <2>2 DEF SkipCompaction, BridgeCrash, SpoolIsLast
    <2>3. CASE BeginCompaction \/ RenameRefused
      <3>1. /\ pc \in {"compact", "rename"} /\ pc' \in {"reset", "restore"}
            /\ UNCHANGED <<path, todo>>
        BY <2>3 DEF BeginCompaction, RenameRefused
      <3> QED
        BY <1>2, <3>1, SpoolFacts DEF LogInv, SpoolIsLast
    <2> QED
      BY <2>1, <2>2, <2>3
  <1> QED
    BY <1>1, <1>3, CalmLog DEF database, producer

\* A transaction begins with the rows and the offset that are committed.
LEMMA BeginLog ==
    ASSUME SpoolInv, LogInv, (\E p \in Rotated : RecoverFile(p)) \/ IngestSpool
    PROVE  LogInv'
  <1>1. /\ pc = "recover" /\ pc' = "read" /\ UNCHANGED <<files, database, producer>>
        /\ tx'.stored = stored
    BY DEF RecoverFile, IngestSpool, Ingest
  <1>2. PICK p \in Path : path' = p /\ at' = StartOf(p)
    BY SpoolFacts DEF RecoverFile, IngestSpool, Ingest
  <1>3. StartOf(p) = offset[p]
    BY SpoolFacts DEF StartOf, Size
  <1>4. [offset EXCEPT ![p] = StartOf(p)] = offset
    BY <1>3, SpoolFacts
  <1>5. ReadInOrder'
    <2>1. [offset' EXCEPT ![path'] = at'] = offset
      BY <1>1, <1>2, <1>4 DEF database
    <2>2. IsFront(stored, stored)
      BY SpoolFacts DEF IsFront
    <2> QED
      BY <1>1, <2>1, <2>2 DEF LogInv, ReadInOrder, database, producer
  <1>6. \A q \in Path : NothingNew(q)' <=> NothingNew(q)
    BY <1>1 DEF NothingNew, database
  <1>7. SpoolIsLast'
    <2>1. CASE \E q \in Rotated : RecoverFile(q)
      <3>1. PICK q \in Rotated : path' = q /\ todo' = todo \ {q}
        BY <2>1 DEF RecoverFile, Ingest
      <3> QED
        BY <1>1, <1>6, <3>1, SpoolFacts DEF LogInv, SpoolIsLast
    <2>2. CASE IngestSpool
      <3>1. path' = Spool /\ todo = {} /\ todo' = {}
        BY <2>2 DEF IngestSpool, Ingest
      <3> QED
        BY <1>1, <1>6, <3>1, SpoolFacts DEF LogInv, SpoolIsLast
    <2> QED
      BY <2>1, <2>2
  <1> QED
    BY <1>1, <1>5, <1>7, CalmLog DEF database, producer

\* The transaction takes in the next line.
LEMMA ReadLog ==
    ASSUME SpoolInv, SpoolInv', LogInv, ReadLine
    PROVE  LogInv'
  <1> DEFINE line == files[path].lines[at + 1]
             from == [offset EXCEPT ![path] = at]
             db2 == IF line.whole THEN InsertEvent(tx.stored, line.event) ELSE tx.stored
  <1>1. /\ pc = "read" /\ at < Len(files[path].lines) /\ at' = at + 1
        /\ UNCHANGED <<files, database, producer, pc, path, todo>>
    BY DEF ReadLine, Size
  <1>2. tx'.stored = db2
    BY DEF ReadLine, SpoolInv, TypeOK
  <1>3. ReadInOrder
    BY <1>1 DEF LogInv
  <1>4. from \in [Path -> Nat] /\ from[path] = at /\ path \in Path
    BY SpoolFacts
  <1>5. path = Spool => \A q \in Rotated : Known(files, from, tx.stored, q)
    <2> SUFFICES ASSUME path = Spool, NEW q \in Rotated PROVE Known(files, from, tx.stored, q)
      OBVIOUS
    <2>1. NothingNew(q) /\ q # path /\ q \in Path
      BY <1>1, SpoolFacts DEF LogInv, SpoolIsLast
    <2>2. from[q] = offset[q]
      BY <2>1, SpoolFacts
    <2>3. ASSUME NEW e, Holds(stored, e) PROVE Holds(tx.stored, e)
      <3>1. PICK i \in DOMAIN stored : stored[i] = e
        BY <2>3 DEF Holds
      <3>2. /\ Len(stored) \in Nat /\ DOMAIN stored = 1 .. Len(stored)
            /\ Len(tx.stored) \in Nat /\ DOMAIN tx.stored = 1 .. Len(tx.stored)
        BY SpoolFacts
      <3>3. i \in DOMAIN tx.stored /\ tx.stored[i] = e
        BY <1>3, <3>1, <3>2 DEF ReadInOrder, IsFront
      <3> QED
        BY <3>3 DEF Holds
    <2> QED
      BY <2>1, <2>2, <2>3 DEF NothingNew, Known
  <1>6. /\ IsFront(tx.stored, written) /\ Distinct(written)
        /\ InOrder(files, from, written, tx.stored) /\ LinesAreLogged(files, written)
        /\ IsFront(stored, tx.stored)
    BY <1>3 DEF LogInv, ReadInOrder
  <1>7. [from EXCEPT ![path] = from[path] + 1] = [offset EXCEPT ![path] = at + 1]
    BY SpoolFacts
  <1> HIDE DEF from
  <1>8. /\ IsFront(db2, written) /\ IsFront(tx.stored, db2)
        /\ InOrder(files, [from EXCEPT ![path] = from[path] + 1], written, db2)
    <2>1. line = files[path].lines[from[path] + 1] /\ from[path] < Len(files[path].lines)
      BY <1>1, <1>4
    <2>2. /\ files \in Files /\ written \in Seq(Event) /\ tx.stored \in Seq(Event)
      BY SpoolFacts
    <2> HIDE DEF line
    <2> QED
      BY <1>4, <1>5, <1>6, <2>1, <2>2, NextIsRead
  <1> HIDE DEF line, db2
  <1>9. IsFront(stored, db2)
    <2>1. Len(stored) \in Nat /\ Len(tx.stored) \in Nat
      BY SpoolFacts
    <2>2. /\ Len(stored) <= Len(tx.stored) /\ Len(tx.stored) <= Len(db2)
          /\ \A i \in 1 .. Len(stored) : stored[i] = tx.stored[i]
          /\ \A i \in 1 .. Len(tx.stored) : tx.stored[i] = db2[i]
      BY <1>6, <1>8 DEF IsFront
    <2>3. Len(db2) \in Nat
      BY <1>2 DEF SpoolInv, TypeOK
    <2> QED
      BY <2>1, <2>2, <2>3 DEF IsFront
  <1>10. ReadInOrder'
    BY <1>1, <1>2, <1>7, <1>8, <1>9 DEF ReadInOrder, database, producer
  <1>11. SpoolIsLast'
    BY <1>1 DEF LogInv, SpoolIsLast, NothingNew, database
  <1> QED
    BY <1>1, <1>10, <1>11, CalmLog DEF database, producer

\* What is in a front part is in the whole.
LEMMA FrontHolds ==
    ASSUME NEW db \in Seq(Event), NEW db2 \in Seq(Event), IsFront(db, db2),
           NEW e, Holds(db, e)
    PROVE  Holds(db2, e)
  <1>1. PICK i \in DOMAIN db : db[i] = e
    BY DEF Holds
  <1>2. /\ Len(db) \in Nat /\ DOMAIN db = 1 .. Len(db)
        /\ Len(db2) \in Nat /\ DOMAIN db2 = 1 .. Len(db2)
    OBVIOUS
  <1>3. i \in DOMAIN db2 /\ db2[i] = e
    BY <1>1, <1>2 DEF IsFront
  <1> QED
    BY <1>3 DEF Holds

\* The commit makes the transaction's rows the rows, and its place the offset.
LEMMA CommitLog ==
    ASSUME SpoolInv, LogInv, CommitIngest
    PROVE  LogInv'
  <1>1. /\ pc = "read" /\ at = Len(files[path].lines) /\ stored' = tx.stored
        /\ offset' = [offset EXCEPT ![path] = at]
        /\ pc' = AfterIngest
        /\ UNCHANGED <<files, written, path, todo>>
    BY DEF CommitIngest, Size, producer
  <1>2. ReadInOrder
    BY <1>1 DEF LogInv
  <1>3. IsFront(stored', written') /\ InOrder(files', offset', written', stored')
    BY <1>1, <1>2 DEF ReadInOrder
  <1>4. pc' \in {"compact", "forget", "loop", "recover"} /\ (pc' = "compact" => path = Spool)
    BY <1>1, SpoolFacts DEF AfterIngest
  <1>5. ASSUME NEW p \in Rotated, p = path \/ NothingNew(p) PROVE NothingNew(p)'
    <2>1. p \in Path
      BY SpoolFacts
    <2>2. CASE p = path
      BY <2>1, <2>2, <1>1, SpoolFacts DEF NothingNew
    <2>3. CASE p # path
      <3>1. offset'[p] = offset[p] /\ NothingNew(p)
        BY <2>1, <2>3, <1>1, <1>5, SpoolFacts
      <3>2. ASSUME NEW e, Holds(stored, e) PROVE Holds(stored', e)
        BY <3>2, <1>1, <1>2, SpoolFacts, FrontHolds DEF ReadInOrder
      <3> QED
        BY <3>1, <3>2, <1>1 DEF NothingNew
    <2> QED
      BY <2>2, <2>3
  <1>6. SpoolIsLast'
    BY <1>1, <1>4, <1>5 DEF LogInv, SpoolIsLast
  <1> QED
    BY <1>1, <1>3, <1>4, <1>6 DEF LogInv

\* An offset is moved over lines that are recorded.
LEMMA OffsetLog ==
    ASSUME SpoolInv, SpoolInv', LogInv, ResetOffset \/ RestoreOffset \/ ForgetOffset
    PROVE  LogInv'
  <1>1. /\ UNCHANGED <<files, stored, written, path, todo>>
        /\ offset \in [Path -> Nat] /\ offset' \in [Path -> Nat]
    BY SpoolFacts DEF ResetOffset, RestoreOffset, ForgetOffset, producer, SpoolInv, TypeOK
  <1>2. ASSUME NEW p \in Path, NEW i \in 1 .. Len(files[p].lines), files[p].lines[i].whole,
               i <= offset[p]
        PROVE  Holds(stored, files[p].lines[i].event)
    <2>1. i \in 1 .. offset[p]
      BY <1>1, <1>2
    <2> QED
      BY <1>2, <2>1 DEF SpoolInv, NothingSkipped, Recorded
  <1>3. ASSUME NEW p \in Path, NEW i \in 1 .. Len(files[p].lines), files[p].lines[i].whole,
               (offset[p] < i) # (offset'[p] < i)
        PROVE  Holds(stored, files[p].lines[i].event)
    <2>1. offset[p] \in Nat /\ offset'[p] \in Nat /\ i \in Nat
      BY <1>1
    <2>2. CASE i <= offset[p]
      BY <2>2, <1>2, <1>3
    <2>3. CASE ~(i <= offset[p])
      <3>1. i <= offset'[p]
        BY <2>1, <2>3, <1>3
      <3>2. RestoreOffset /\ p = Spool /\ offset'[p] = kept
        BY <2>1, <2>3, <3>1, <1>1 DEF ResetOffset, RestoreOffset, ForgetOffset
      <3>3. i \in 1 .. kept
        BY <3>1, <3>2, <2>1
      <3>4. Recorded(Spool, files[Spool].lines, kept, stored, rejected)
        BY <3>2 DEF RestoreOffset, SpoolInv, KeptIsRecorded
      <3> QED
        BY <1>3, <3>2, <3>3, <3>4 DEF Recorded
    <2> QED
      BY <2>2, <2>3
  <1>4. InOrder(files, offset', written, stored)
    BY <1>1, <1>3, SpoolFacts, OverKnownLines DEF LogInv
  <1>5. ASSUME NEW p \in Rotated, NothingNew(p) \/ (pc = "forget" /\ path = p)
        PROVE  NothingNew(p)'
    <2>0. p \in Path /\ p # Spool
      BY SpoolFacts
    <2>1. CASE offset'[p] = offset[p] /\ NothingNew(p)
      BY <2>1, <1>1 DEF NothingNew
    <2>2. CASE ~(offset'[p] = offset[p] /\ NothingNew(p))
      <3>1. pc = "forget" /\ path = p
        BY <2>0, <2>2, <1>1, <1>5 DEF ResetOffset, RestoreOffset, ForgetOffset
      <3>2. Recorded(path, files[path].lines, Size(path), stored, rejected)
        BY <3>1 DEF SpoolInv, DeletedIsRecorded
      <3>3. offset'[p] \in Nat /\ Len(files[p].lines) \in Nat
        BY <1>1, <2>0, SpoolFacts
      <3>4. \A i \in offset'[p] + 1 .. Len(files[p].lines) : i \in 1 .. Size(p)
        BY <3>3 DEF Size
      <3> QED
        BY <3>1, <3>2, <3>4, <1>1 DEF NothingNew, Recorded
    <2> QED
      BY <2>1, <2>2
  <1>6. SpoolIsLast'
    <2>1. CASE ResetOffset
      BY <2>1, <1>1, <1>5 DEF ResetOffset, LogInv, SpoolIsLast
    <2>2. CASE RestoreOffset
      BY <2>2 DEF RestoreOffset, SpoolIsLast
    <2>3. CASE ForgetOffset
      BY <2>3, <1>1, <1>5 DEF ForgetOffset, LogInv, SpoolIsLast
    <2> QED
      BY <2>1, <2>2, <2>3
  <1>7. pc' # "read"
    BY DEF ResetOffset, RestoreOffset, ForgetOffset
  <1> QED
    BY <1>1, <1>4, <1>6, <1>7 DEF LogInv

\* The spool becomes the file that is read next, the only one with anything new.
LEMMA RenameLog ==
    ASSUME SpoolInv, LogInv, Rename
    PROVE  LogInv'
  <1> DEFINE r == spent.rotations + 1
  <1>1. /\ pc = "rename" /\ pc' = "read" /\ path' = r /\ at' = StartOf(r)
        /\ tx'.stored = stored
        /\ files' = [files EXCEPT ![r] = files[Spool], ![Spool] = Empty]
        /\ UNCHANGED <<offset, stored, written, todo>>
    BY DEF Rename, Ingest, database, producer
  <1>2. r \in Rotated /\ r > spent.rotations
    <2>1. spent \in Budget
      BY DEF SpoolInv, TypeOK, Budget
    <2>2. spent["rotations"] \in Nat /\ spent["rotations"] < MaxRotations
      BY <2>1, SpendOne DEF Rename, Budget
    <2>3. MaxRotations \in Nat
      BY BoundsAssumption
    <2> QED
      BY <2>2, <2>3 DEF Rotated
  <1> HIDE DEF r
  <1>3. files[r] = Empty /\ offset[r] = 0 /\ offset[Spool] = 0
    BY <1>1, <1>2 DEF SpoolInv, NamesAreFresh, KeptIsRecorded
  <1>4. ASSUME NEW p \in Rotated PROVE NothingNew(p) /\ Known(files, offset, stored, p)
    BY <1>1 DEF LogInv, SpoolIsLast, NothingNew, Known
  <1>5. InOrder(files', offset, written, stored)
    BY <1>1, <1>2, <1>3, <1>4, SpoolFacts, SpoolMoved DEF LogInv
  <1>6. at' = 0
    <2>1. Len(Empty.lines) = 0
      BY DEF Empty
    <2> QED
      BY <1>1, <1>3, <2>1 DEF StartOf, Size
  <1>7. [offset' EXCEPT ![path'] = at'] = offset
    BY <1>1, <1>3, <1>6, SpoolFacts
  <1>8. ReadInOrder'
    <2>1. IsFront(stored, stored)
      BY SpoolFacts DEF IsFront
    <2> QED
      BY <1>1, <1>5, <1>7, <2>1 DEF LogInv, ReadInOrder
  <1>9. /\ files'[r] = files[Spool] /\ files'[Spool] = Empty
        /\ \A p \in Path : p # r /\ p # Spool => files'[p] = files[p]
    BY <1>1, <1>2, SpoolFacts DEF Files
  <1>10. SpoolIsLast'
    <2>1. ASSUME NEW p \in Rotated, p # r PROVE NothingNew(p)'
      BY <2>1, <1>1, <1>4, <1>9, SpoolFacts DEF NothingNew
    <2> QED
      BY <1>1, <1>2, <2>1, SpoolFacts DEF SpoolIsLast
  <1>11. LinesAreLogged(files', written')
    <2> SUFFICES ASSUME NEW p \in Path, NEW i \in 1 .. Len(files'[p].lines),
                        files'[p].lines[i].whole
                 PROVE  Holds(written, files'[p].lines[i].event)
      BY <1>1 DEF LinesAreLogged
    <2>1. CASE p = Spool
      <3>1. Len(Empty.lines) = 0
        BY DEF Empty
      <3> QED
        BY <2>1, <3>1, <1>9
    <2>2. CASE p = r
      BY <2>2, <1>9, SpoolFacts DEF LogInv, LinesAreLogged
    <2>3. CASE p # r /\ p # Spool
      BY <2>3, <1>9 DEF LogInv, LinesAreLogged
    <2> QED
      BY <2>1, <2>2, <2>3
  <1> QED
    BY <1>1, <1>5, <1>8, <1>10, <1>11 DEF LogInv

\* A file is deleted with nothing new in it.
LEMMA UnlinkLog ==
    ASSUME SpoolInv, LogInv, Unlink
    PROVE  LogInv'
  <1>1. /\ pc = "unlink" /\ files' = [files EXCEPT ![path] = Empty] /\ pc' = home
        /\ UNCHANGED <<offset, stored, written, path, todo>>
    BY DEF Unlink, database, producer
  <1>2. /\ path \in Rotated /\ offset[path] = 0
        /\ Recorded(path, files[path].lines, Size(path), stored, rejected)
    BY <1>1 DEF SpoolInv, DeletedIsRecorded
  <1>3. /\ files'[path] = Empty /\ Len(Empty.lines) = 0
        /\ \A p \in Path : p # path => files'[p] = files[p]
    BY <1>1, SpoolFacts DEF Files, Empty
  <1>4. Known(files, offset, stored, path)
    BY <1>2, SpoolFacts DEF Known, Recorded, Size
  <1>5. ASSUME NEW k \in Len(stored) + 1 .. Len(written)
        PROVE  Places(files', offset, written[k]) = Places(files, offset, written[k])
    <2>1. ~Holds(stored, written[k])
      BY SpoolFacts, BeyondIsMissing DEF LogInv
    <2>2. ASSUME NEW x \in Places(files, offset, written[k]) PROVE x[1] # path
      <3> SUFFICES ASSUME x[1] = path PROVE FALSE
        OBVIOUS
      <3>1. Known(files, offset, stored, x[1])
        BY <1>4
      <3> QED
        BY <2>1, <3>1, SpoolFacts, NotInKnown
    <2>3. ASSUME NEW x \in Places(files', offset, written[k]) PROVE x[1] # path
      <3>1. x[2] \in Nat /\ offset[x[1]] < x[2] /\ x[2] <= Len(files'[x[1]].lines)
        BY DEF Places
      <3> QED
        BY <3>1, <1>2, <1>3
    <2>4. ASSUME NEW x \in Path \X Nat, x[1] # path
          PROVE  x \in Places(files', offset, written[k]) <=> x \in Places(files, offset, written[k])
      <3>1. x[1] \in Path
        OBVIOUS
      <3>2. files'[x[1]] = files[x[1]]
        BY <3>1, <2>4, <1>3
      <3> QED
        BY <3>2 DEF Places
    <2>5. \A x \in Places(files, offset, written[k]) : x \in Path \X Nat
      BY DEF Places
    <2>6. \A x \in Places(files', offset, written[k]) : x \in Path \X Nat
      BY DEF Places
    <2> QED
      BY <2>2, <2>3, <2>4, <2>5, <2>6
  <1>6. InOrder(files', offset, written, stored)
    BY <1>5, SamePlaces DEF LogInv
  <1>7. LinesAreLogged(files', written)
    BY <1>3 DEF LogInv, LinesAreLogged
  <1>8. pc' \in {"loop", "recover"}
    BY <1>1, SpoolFacts
  <1>9. SpoolIsLast'
    <2>1. ASSUME NEW p \in Rotated, NothingNew(p) PROVE NothingNew(p)'
      <3>1. CASE p = path
        BY <3>1, <1>1, <1>2, <1>3 DEF NothingNew
      <3>2. CASE p # path
        BY <2>1, <3>2, <1>1, <1>3, SpoolFacts DEF NothingNew
      <3> QED
        BY <3>1, <3>2
    <2> QED
      BY <1>1, <1>8, <2>1 DEF LogInv, SpoolIsLast
  <1> QED
    BY <1>1, <1>6, <1>7, <1>8, <1>9 DEF LogInv

\* The log's invariant is preserved by every step.
LEMMA LogStep ==
    SpoolInv /\ SpoolInv' /\ LogInv /\ [Next]_vars => LogInv'
  <1> SUFFICES ASSUME SpoolInv, SpoolInv', LogInv, [Next]_vars PROVE LogInv'
    OBVIOUS
  <1>1. CASE Emit \/ EmitCutShort
    BY <1>1, EmitCalmLog, EmitRestLog DEF Emit
  <1>2. CASE BeginLoop \/ SkipCompaction \/ BeginCompaction \/ RenameRefused \/ BridgeCrash
    BY <1>2, IdleLog
  <1>3. CASE (\E p \in Rotated : RecoverFile(p)) \/ IngestSpool
    BY <1>3, BeginLog
  <1>4. CASE ReadLine \/ CommitIngest
    BY <1>4, ReadLog, CommitLog
  <1>5. CASE ResetOffset \/ RestoreOffset \/ ForgetOffset
    BY <1>5, OffsetLog
  <1>6. CASE Rename \/ Unlink
    BY <1>6, RenameLog, UnlinkLog
  <1>7. CASE UNCHANGED vars
    <2> USE <1>7 DEF vars, database, producer, bridge
    <2>1. SpoolIsLast'
      BY DEF LogInv, SpoolIsLast, NothingNew
    <2>2. pc' = "read" => ReadInOrder'
      BY DEF LogInv, ReadInOrder
    <2> QED
      BY <2>1, <2>2, CalmLog
  <1> QED
    BY <1>1, <1>2, <1>3, <1>4, <1>5, <1>6, <1>7 DEF Next, Bridge

\* Only the newline of a new event adds to the log, only a commit adds rows: the
\* next events of the log, in its order.
LEMMA StepOfLog ==
    SpoolInv /\ SpoolInv' /\ LogInv /\ [Next]_vars => [L!Next]_<<written, stored>>
  <1> SUFFICES ASSUME SpoolInv, SpoolInv', LogInv, [Next]_vars
               PROVE  L!Next \/ UNCHANGED <<written, stored>>
    OBVIOUS
  <1>1. CASE EmitRest
    <2>1. UNCHANGED stored /\ written' \in {written, InsertEvent(written, writer.event)}
      BY <1>1 DEF EmitRest, database
    <2>2. writer.event \in Event
      BY <1>1 DEF EmitRest, SpoolInv, TypeOK, HandleOpen
    <2>3. CASE written' = written
      BY <2>1, <2>3
    <2>4. CASE written' # written
      <3>1. ~Holds(written, writer.event) /\ written' = Append(written, writer.event)
        BY <2>1, <2>4 DEF InsertEvent
      <3>2. L!Write(writer.event)
        BY <2>1, <3>1 DEF L!Write, L!Logged, Holds
      <3> QED
        BY <2>2, <3>2 DEF L!Next
    <2> QED
      BY <2>3, <2>4
  <1>2. CASE CommitIngest
    <2>1. UNCHANGED written /\ stored' = tx.stored /\ pc = "read"
      BY <1>2 DEF CommitIngest, producer
    <2>2. IsFront(stored, tx.stored) /\ IsFront(tx.stored, written)
      BY <2>1 DEF LogInv, ReadInOrder
    <2> DEFINE n == Len(tx.stored)
    <2>3. /\ n \in Nat /\ Len(stored) \in Nat /\ Len(written) \in Nat
          /\ Len(stored) <= n /\ n <= Len(written)
      BY <2>2, SpoolFacts DEF IsFront
    <2>4. CASE n = Len(stored)
      <3>1. \A i \in 1 .. Len(stored) : tx.stored[i] = stored[i]
        BY <2>2 DEF IsFront
      <3>2. tx.stored = stored
        BY <3>1, <2>4, SpoolFacts, SeqEqual
      <3> QED
        BY <2>1, <3>2
    <2>5. CASE n # Len(stored)
      <3>1. n \in Len(stored) + 1 .. Len(written)
        BY <2>3, <2>5
      <3>2. /\ SubSeq(written, 1, n) \in Seq(Event) /\ Len(SubSeq(written, 1, n)) = n
            /\ \A i \in 1 .. n : SubSeq(written, 1, n)[i] = written[i]
        BY <2>3, SpoolFacts
      <3>3. \A i \in 1 .. n : tx.stored[i] = written[i]
        BY <2>2 DEF IsFront
      <3>4. tx.stored = SubSeq(written, 1, n)
        BY <3>2, <3>3, SpoolFacts, SeqEqual
      <3>5. L!Store
        BY <2>1, <3>1, <3>4 DEF L!Store
      <3> QED
        BY <3>5 DEF L!Next
    <2> QED
      BY <2>4, <2>5
  <1>3. CASE Emit \/ EmitCutShort
    BY <1>1, <1>3 DEF Emit, EmitOpen, EmitPart, EmitClose, EmitCutShort, database
  <1>4. CASE Bridge \/ BridgeCrash
    BY <1>2, <1>4
       DEF Bridge, BridgeCrash, BeginLoop, RecoverFile, IngestSpool, ReadLine, SkipCompaction,
           BeginCompaction, ResetOffset, Rename, RenameRefused, RestoreOffset, ForgetOffset,
           Unlink, database, producer
  <1>5. CASE UNCHANGED vars
    BY <1>5 DEF vars, database, producer
  <1> QED
    BY <1>3, <1>4, <1>5 DEF Next

-----------------------------------------------------------------------------
(* What a torn line costs.                                                  *)

\* The next line to be ended, or the one being written, carries the remains of
\* another one.
Spoiled == IF HandleOpen THEN ~writer.whole ELSE files[Spool].torn
Owed == IF Spoiled THEN 1 ELSE 0

\* Before Emit answers, its newline is written, and its event if the line is its own.
Answering ==
    writer.step = "all" =>
        /\ ~files[Spool].torn
        /\ writer.whole => Holds(written, writer.event)

LossInv ==
    /\ IsFiniteSet(acked)
    /\ Cardinality(Lost) + Owed <= spent["tears"]
    /\ Answering

\* The short writes and deaths are counted, and nothing else counts as one.
LEMMA TearsCount ==
    ASSUME NEW what \in {"writes", "rotations", "tears", "crashes"},
           spent \in Budget, Spend(what)
    PROVE  /\ spent["tears"] \in Nat
           /\ spent'["tears"] = IF what = "tears" THEN spent["tears"] + 1 ELSE spent["tears"]
  BY DEF Spend, Budget

\* What is lost is part of what was acknowledged.
LEMMA LostIsFinite ==
    IsFiniteSet(acked) => IsFiniteSet(Lost) /\ Cardinality(Lost) \in Nat
  <1> SUFFICES ASSUME IsFiniteSet(acked) PROVE IsFiniteSet(Lost) /\ Cardinality(Lost) \in Nat
    OBVIOUS
  <1>1. Lost \in SUBSET acked
    BY DEF Lost
  <1>2. IsFiniteSet(Lost)
    BY <1>1, FS_Subset
  <1> QED
    BY <1>2, FS_CardinalityType

\* A step that acknowledges nothing loses nothing, and owes no more than before
\* unless it is a short write or a death.
LEMMA NoNewLoss ==
    ASSUME LossInv, SpoolInv, acked' = acked, Covers(written', written),
           spent'["tears"] \in Nat,
           \/ Spoiled' => Spoiled
           \/ spent'["tears"] = spent["tears"] + 1,
           spent["tears"] <= spent'["tears"]
    PROVE  IsFiniteSet(acked') /\ Cardinality(Lost') + Owed' <= spent'["tears"]
  <1>1. IsFiniteSet(Lost) /\ Cardinality(Lost) \in Nat
    BY LostIsFinite DEF LossInv
  <1>2. Lost' \in SUBSET Lost
    BY DEF Lost, Covers, SpoolInv, TypeOK
  <1>3. IsFiniteSet(Lost') /\ Cardinality(Lost') <= Cardinality(Lost)
    BY <1>1, <1>2, FS_Subset
  <1>4. Cardinality(Lost') \in Nat
    BY <1>3, FS_CardinalityType
  <1>5. spent["tears"] \in Nat
    BY DEF SpoolInv, TypeOK
  <1>6. Cardinality(Lost) + Owed <= spent["tears"]
    BY DEF LossInv
  <1>7. Owed \in {0, 1} /\ Owed' \in {0, 1}
    BY DEF Owed
  <1>8. CASE Spoiled' => Spoiled
    <2>1. Owed' <= Owed
      BY <1>8 DEF Owed
    <2> QED
      BY <1>1, <1>3, <1>4, <1>5, <1>6, <1>7, <2>1 DEF LossInv
  <1>9. CASE spent'["tears"] = spent["tears"] + 1
    BY <1>1, <1>3, <1>4, <1>5, <1>6, <1>7, <1>9 DEF LossInv
  <1> QED
    BY <1>8, <1>9

\* Only Emit touches what is spoiled: the spool is moved or left behind whole.
LEMMA BridgeSpoilsNothing ==
    ASSUME SpoolInv, Bridge
    PROVE  /\ UNCHANGED producer
           /\ files'[Spool].torn => files[Spool].torn
           /\ spent'["tears"] = spent["tears"]
  <1>1. spent \in Budget /\ spent["tears"] \in Nat
    BY DEF SpoolInv, TypeOK, Budget
  <1>2. CASE UNCHANGED <<files, producer, spent>>
    BY <1>2
  <1>3. CASE Rename
    <2>1. spent'["tears"] = spent["tears"]
      BY <1>1, <1>3, TearsCount DEF Rename
    <2>2. UNCHANGED producer /\ ~HandleOpen
      BY <1>3 DEF Rename
    <2>3. files'[Spool] = Empty
      <3>1. files' = [files EXCEPT ![spent.rotations + 1] = files[Spool], ![Spool] = Empty]
        BY <1>3 DEF Rename
      <3>2. Spool \in Path /\ DOMAIN files = Path
        BY DEF SpoolInv, TypeOK, Path
      <3> QED
        BY <3>1, <3>2
    <2>4. ~files'[Spool].torn
      BY <2>3 DEF Empty
    <2> QED
      BY <2>1, <2>2, <2>4
  <1>4. CASE Unlink
    <2>1. path \in Rotated /\ UNCHANGED <<producer, spent>>
      BY <1>4 DEF Unlink, SpoolInv, DeletedIsRecorded
    <2>2. files' = [files EXCEPT ![path] = Empty]
      BY <1>4 DEF Unlink
    <2>3. path # Spool /\ Spool \in Path /\ DOMAIN files = Path
      BY <2>1, BoundsAssumption DEF SpoolInv, TypeOK, Path, Rotated, Spool
    <2>4. files'[Spool] = files[Spool]
      BY <2>2, <2>3
    <2> QED
      BY <2>1, <2>4
  <1> QED
    BY <1>2, <1>3, <1>4
       DEF Bridge, BeginLoop, RecoverFile, IngestSpool, ReadLine, CommitIngest, SkipCompaction,
           BeginCompaction, ResetOffset, RenameRefused, RestoreOffset, ForgetOffset, Ingest

\* Nothing is lost or owed at the start.
LEMMA InitLoss == Init => LossInv
  <1> SUFFICES ASSUME Init PROVE LossInv
    OBVIOUS
  <1>1. acked = {} /\ Lost = {} /\ writer.step = "idle" /\ spent["tears"] = 0
    BY DEF Init, Lost, NotWriting
  <1>2. files[Spool] = Empty
    BY DEF Init, Path
  <1>3. Owed = 0
    BY <1>1, <1>2 DEF Owed, Spoiled, HandleOpen, Empty
  <1> QED
    BY <1>1, <1>3, FS_EmptySet DEF LossInv, Answering

\* A loss is paid for by the tear that spoiled the line: the debt passes from the
\* torn file to the Emit that meets it, and is settled when that Emit answers.
LEMMA LossStep == SpoolInv /\ LossInv /\ [Next]_vars => LossInv'
  <1> SUFFICES ASSUME SpoolInv, LossInv, [Next]_vars PROVE LossInv'
    OBVIOUS
  <1>1. spent \in Budget /\ spent["tears"] \in Nat
    BY DEF SpoolInv, TypeOK, Budget
  <1>2. /\ written \in Seq(Event) /\ Spool \in Path
        /\ files \in [Path -> [lines : Seq(Line), torn : BOOLEAN]]
        /\ writer \in [event : Event \cup {Idle}, step : {"idle", "open", "part", "all"},
                       whole : BOOLEAN]
    BY DEF SpoolInv, TypeOK, Path
  <1>3. ASSUME UNCHANGED <<writer, written, acked>>,
               files'[Spool].torn => files[Spool].torn, spent'["tears"] = spent["tears"]
        PROVE  LossInv'
    <2>4. Spoiled' => Spoiled
      BY <1>3 DEF Spoiled, HandleOpen
    <2>1. Covers(written', written)
      BY <1>3 DEF Covers
    <2>2. IsFiniteSet(acked') /\ Cardinality(Lost') + Owed' <= spent'["tears"]
      BY <1>1, <1>3, <2>1, <2>4, NoNewLoss
    <2>3. Answering'
      BY <1>3 DEF LossInv, Answering
    <2> QED
      BY <2>2, <2>3 DEF LossInv
  <1>4. ASSUME NEW e \in Event, EmitOpen(e) PROVE LossInv'
    <2>1. /\ writer.step = "idle" /\ UNCHANGED <<files, acked, written>>
          /\ writer' = [event |-> e, step |-> "open", whole |-> ~files[Spool].torn]
      BY <1>4 DEF EmitOpen
    <2>2. spent'["tears"] = spent["tears"]
      BY <1>1, <1>4, TearsCount DEF EmitOpen
    <2>3. Spoiled' => Spoiled
      BY <2>1 DEF Spoiled, HandleOpen
    <2>4. Covers(written', written) /\ writer'.step = "open"
      BY <2>1 DEF Covers
    <2>5. IsFiniteSet(acked') /\ Cardinality(Lost') + Owed' <= spent'["tears"]
      BY <1>1, <2>1, <2>2, <2>3, <2>4, NoNewLoss
    <2> QED
      BY <2>4, <2>5 DEF LossInv, Answering
  <1>5. CASE EmitPart
    <2>1. /\ writer.step = "open" /\ UNCHANGED <<acked, written, spent>>
          /\ writer' = [writer EXCEPT !.step = "part"]
      BY <1>5 DEF EmitPart
    <2>2. writer'.step = "part" /\ writer'.whole = writer.whole
      BY <1>2, <2>1
    <2>3. Spoiled' => Spoiled
      BY <2>1, <2>2 DEF Spoiled, HandleOpen
    <2>4. Covers(written', written)
      BY <2>1 DEF Covers
    <2>5. IsFiniteSet(acked') /\ Cardinality(Lost') + Owed' <= spent'["tears"]
      BY <1>1, <2>1, <2>3, <2>4, NoNewLoss
    <2> QED
      BY <2>2, <2>5 DEF LossInv, Answering
  <1>6. CASE EmitRest
    <2>1. /\ writer.step = "part" /\ UNCHANGED <<acked, spent>>
          /\ writer' = [writer EXCEPT !.step = "all"]
          /\ written' = IF writer.whole THEN InsertEvent(written, writer.event) ELSE written
      BY <1>6 DEF EmitRest
    <2>7. ~files'[Spool].torn
      <3>1. files' = [files EXCEPT ![Spool] =
              [lines |-> Append(@.lines, [event |-> writer.event, whole |-> writer.whole]),
               torn |-> FALSE]]
        BY <1>6 DEF EmitRest
      <3>2. files'[Spool] =
              [lines |-> Append(files[Spool].lines,
                                [event |-> writer.event, whole |-> writer.whole]),
               torn |-> FALSE]
        BY <1>2, <3>1
      <3> QED
        BY <3>2
    <2>2. /\ writer'.step = "all" /\ writer'.whole = writer.whole
          /\ writer'.event = writer.event
      BY <1>2, <2>1
    <2>3. Spoiled' => Spoiled
      BY <2>1, <2>2 DEF Spoiled, HandleOpen
    <2>4. writer.event \in Event
      BY <2>1 DEF SpoolInv, TypeOK, HandleOpen
    <2>5. Covers(written', written) /\ (writer.whole => Holds(written', writer.event))
      BY <1>2, <2>1, <2>4, InsertEventHolds, Unchanged
    <2>6. IsFiniteSet(acked') /\ Cardinality(Lost') + Owed' <= spent'["tears"]
      BY <1>1, <2>1, <2>3, <2>5, NoNewLoss
    <2> QED
      BY <2>2, <2>5, <2>6, <2>7 DEF LossInv, Answering
  <1>7. CASE EmitClose
    <2>1. /\ writer.step = "all" /\ acked' = acked \cup {writer.event}
          /\ writer' = NotWriting /\ UNCHANGED <<files, written, spent>>
      BY <1>7 DEF EmitClose
    <2>2. writer'.step = "idle"
      BY <2>1 DEF NotWriting
    <2>3. IsFiniteSet(acked')
      BY <2>1, FS_AddElement DEF LossInv
    <2>4. IsFiniteSet(Lost) /\ Cardinality(Lost) \in Nat
      BY LostIsFinite DEF LossInv
    <2>5. IsFiniteSet(Lost') /\ Cardinality(Lost') \in Nat
      BY <2>3, LostIsFinite, FS_Subset, FS_CardinalityType DEF Lost
    <2>6. Owed' = 0 /\ Answering'
      BY <2>1, <2>2 DEF LossInv, Answering, Owed, Spoiled, HandleOpen
    <2>7. spent["tears"] \in Nat /\ Cardinality(Lost) + Owed <= spent["tears"]
      BY <1>1 DEF LossInv
    <2>8. CASE writer.whole
      <3>1. Holds(written, writer.event)
        BY <2>1, <2>8 DEF LossInv, Answering
      <3>2. Lost' = Lost
        BY <2>1, <3>1 DEF Lost
      <3>3. Owed \in {0, 1}
        BY DEF Owed
      <3> QED
        BY <2>1, <2>3, <2>4, <2>6, <2>7, <3>2, <3>3 DEF LossInv
    <2>9. CASE ~writer.whole
      <3>1. Owed = 1
        BY <2>1, <2>9 DEF Owed, Spoiled, HandleOpen
      <3>2. Lost' \in SUBSET (Lost \cup {writer.event})
        BY <2>1 DEF Lost
      <3>3. /\ IsFiniteSet(Lost \cup {writer.event})
            /\ Cardinality(Lost \cup {writer.event}) <= Cardinality(Lost) + 1
            /\ Cardinality(Lost \cup {writer.event}) \in Nat
        BY <2>4, FS_AddElement, FS_CardinalityType
      <3>4. Cardinality(Lost') <= Cardinality(Lost \cup {writer.event})
        BY <3>2, <3>3, FS_Subset
      <3> QED
        BY <2>1, <2>3, <2>4, <2>5, <2>6, <2>7, <3>1, <3>3, <3>4 DEF LossInv
    <2> QED
      BY <2>8, <2>9
  <1>8. CASE EmitCutShort
    <2>1. writer' = NotWriting /\ UNCHANGED <<files, acked, written>>
      BY <1>8 DEF EmitCutShort
    <2>2. spent'["tears"] = spent["tears"] + 1
      BY <1>1, <1>8, TearsCount DEF EmitCutShort
    <2>3. Covers(written', written) /\ writer'.step = "idle"
      BY <2>1 DEF Covers, NotWriting
    <2>4. IsFiniteSet(acked') /\ Cardinality(Lost') + Owed' <= spent'["tears"]
      BY <1>1, <2>1, <2>2, <2>3, NoNewLoss
    <2> QED
      BY <2>3, <2>4 DEF LossInv, Answering
  <1>9. CASE Bridge
    BY <1>3, <1>9, BridgeSpoilsNothing DEF producer
  <1>10. CASE BridgeCrash
    <2>1. UNCHANGED <<writer, written, acked, files>>
      BY <1>10 DEF BridgeCrash, producer
    <2>2. spent'["tears"] = spent["tears"]
      BY <1>1, <1>10, TearsCount DEF BridgeCrash
    <2> QED
      BY <1>3, <2>1, <2>2
  <1>11. CASE UNCHANGED vars
    BY <1>3, <1>11 DEF vars, producer
  <1> QED
    BY <1>4, <1>5, <1>6, <1>7, <1>8, <1>9, <1>10, <1>11 DEF Next, Emit

-----------------------------------------------------------------------------
\* What the bridge relies on at each step of ingesting and rotating is recorded,
\* whenever the producer writes, either process dies, or a rename is refused.
THEOREM SpoolInvariant == Spec => []SpoolInv
  BY InitSpool, SpoolStep, PTL DEF Spec

\* compact_ingested_spool and recover_rotated_spools never make the next ingest
\* skip a line the database does not hold.
THEOREM NoLineIsSkipped == Spec => []NothingSkipped
  <1>1. SpoolInv => NothingSkipped
    BY DEF SpoolInv
  <1> QED
    BY <1>1, SpoolInvariant, PTL

\* No event that Emit acknowledged is lost with a deleted file.
THEOREM AcknowledgedNeverVanishes == Spec => []NeverVanishes
  <1>1. SpoolInv => NeverVanishes
    BY DEF SpoolInv
  <1> QED
    BY <1>1, SpoolInvariant, PTL

\* The spool, its rotation and the database implement one append-only log: what
\* ingest_spool makes rows of engine_events is at all times a front part of what
\* the expert wrote, in the order in which it wrote it, through every rotation,
\* refused rename, recovery of a remnant, crash and short write.
THEOREM SpoolImplementsLog == Spec => ImplementsEventLog
  <1>1. Init => SpoolInv /\ LogInv
    BY InitSpool, InitLog
  <1>2. SpoolInv /\ LogInv /\ [Next]_vars => (SpoolInv /\ LogInv)'
    BY SpoolStep, LogStep
  <1>3. Init => L!Init
    BY DEF Init, L!Init
  <1>4. SpoolInv /\ SpoolInv' /\ LogInv /\ [Next]_vars => [L!Next]_<<written, stored>>
    BY StepOfLog
  <1> QED
    BY <1>1, <1>2, <1>3, <1>4, PTL DEF Spec, ImplementsEventLog, L!Spec, L!vars

\* A short write or a death inside Emit keeps at most one event out of the log
\* whose Emit answered true; every other acknowledged event is in it.
THEOREM TearCostsOneEvent == Spec => []LossIsExplained
  <1>1. Init => SpoolInv /\ LossInv
    BY InitSpool, InitLoss
  <1>2. SpoolInv /\ LossInv /\ [Next]_vars => (SpoolInv /\ LossInv)'
    BY SpoolStep, LossStep
  <1>3. SpoolInv /\ LossInv => LossIsExplained
    <2> SUFFICES ASSUME SpoolInv, LossInv PROVE LossIsExplained
      OBVIOUS
    <2>1. Cardinality(Lost) \in Nat /\ spent["tears"] \in Nat /\ Owed \in {0, 1}
      BY LostIsFinite DEF LossInv, SpoolInv, TypeOK, Owed
    <2> QED
      BY <2>1 DEF LossInv, LossIsExplained
  <1> QED
    BY <1>1, <1>2, <1>3, PTL DEF Spec

=============================================================================
