-------------------------- MODULE GoldEngine_proofs --------------------------
(***************************************************************************)
(* Theorems about the execution lifecycle of one expert, for any number of *)
(* signals, faults and interventions of the account's other users.         *)
(***************************************************************************)
EXTENDS GoldEngine, FiniteSetTheorems, TLAPS

(* A stored state is neither of the two answers that say there is none. *)
LEMMA StateIsReadable ==
    ASSUME NEW r \in State
    PROVE  r # Missing /\ r # Invalid
<1>1. DOMAIN r = {"active", "identifier", "signal", "volume", "geometry", "ticket"}
  BY DEF State
<1>2. DOMAIN Missing = {"unreadable"} /\ DOMAIN Invalid = {"unreadable"}
  BY DEF Missing, Invalid
<1>3. QED BY <1>1, <1>2

(* The state that says no position is managed is a state. *)
LEMMA InactiveType == Inactive \in State /\ 0 \in 0 .. MaxSignals
BY EngineAssumption DEF Inactive, State

(* What memory gets from the disk is a state. *)
LEMMA LoadedType ==
    ASSUME TypeOK
    PROVE  Loaded \in State
BY StateIsReadable, EngineAssumption DEF TypeOK, Loaded, Inactive, State

(* Copying the broker's values into a state gives a state that matches. *)
LEMMA MirrorFacts ==
    ASSUME TypeOK, NEW p \in Signals, NEW e \in State
    PROVE  Mirror(p, e) \in State /\ Matches(p, Mirror(p, e))
<1>1. position[p] \in Position
  BY DEF TypeOK
<1>2. p \in 0 .. MaxSignals
  BY EngineAssumption DEF Signals
<1>3. Mirror(p, e) \in State
  BY <1>1, <1>2 DEF Mirror, State, Position
<1>4. Matches(p, Mirror(p, e))
  BY <1>1 DEF Mirror, State, Position, Matches
<1>5. QED BY <1>3, <1>4

(* One event more for one position. *)
LEMMA TellType ==
    ASSUME TypeOK, NEW p, NEW k \in Kinds, Tell(p, k)
    PROVE  told' \in [Signals -> [Kinds -> Nat]]
<1>1. CASE p \in Signals
  <2>1. [told[p] EXCEPT ![k] = @ + 1] \in [Kinds -> Nat]
    BY <1>1 DEF TypeOK
  <2>2. QED BY <1>1, <2>1 DEF TypeOK, Tell
<1>2. CASE p \notin Signals
  BY <1>2 DEF TypeOK, Tell
<1>3. QED BY <1>1, <1>2

(* Notify and Fill keep the broker's side well typed. *)
LEMMA NotifyType ==
    ASSUME TypeOK, NEW t \in Transaction, Notify(t)
    PROVE  txns' \in SUBSET Transaction
BY DEF TypeOK, Notify

\* A filled order leaves typed positions and transactions.
LEMMA FillType ==
    ASSUME TypeOK, NEW s \in Signals, Fill(s)
    PROVE  txns' \in SUBSET Transaction /\ position' \in [Signals -> Position]
<1>1. [kind |-> "IN", id |-> s, left |-> 0] \in Transaction
  BY EngineAssumption DEF Transaction, Signals
<1>2. QED BY <1>1, NotifyType, EngineAssumption DEF Fill, TypeOK, NewPosition, Position

(***************************************************************************)
(* What a Save leaves behind: whoever still has the authority after it has *)
(* the state it saved on disk.                                             *)
(***************************************************************************)
LEMMA SaveFacts ==
    ASSUME TypeOK, NEW v \in State, NEW granted \in BOOLEAN, NEW ok \in BOOLEAN,
           Save(v, granted, ok)
    PROVE  /\ store' \in State \cup {Missing, Invalid}
           /\ authority' \in BOOLEAN /\ authority' = (granted /\ ok)
           /\ conflict' = FALSE /\ blind' = FALSE
           /\ faults' \in 0 .. MaxFaults
           /\ ok => store' = v /\ Loaded' = v
           /\ ok \/ store' \in {store, v, Invalid}
<1>1. store' \in Disk!AfterSave(store, v, ok)
  BY DEF Save
<1>2. ok => store' = v
  BY <1>1 DEF Disk!AfterSave
<1>3. ok \/ store' \in {store, v, Invalid}
  BY <1>1 DEF Disk!AfterSave
<1>4. ok => Loaded' = v
  BY <1>2, StateIsReadable DEF Loaded
<1>5. store' \in State \cup {Missing, Invalid}
  BY <1>2, <1>3 DEF TypeOK
<1>6. faults' \in 0 .. MaxFaults
  BY EngineAssumption DEF Save, TypeOK
<1>7. QED BY <1>2, <1>3, <1>4, <1>5, <1>6 DEF Save

(***************************************************************************)
(* RecoverOwnedPositions, from what every caller needs of it: it never     *)
(* raises the authority, and an authority that survives a discovery means  *)
(* that memory, disk and broker agree.                                     *)
(***************************************************************************)
LEMMA RecoverFacts ==
    ASSUME TypeOK, UNCHANGED <<position, foreign>>,
           NEW granted \in BOOLEAN, NEW announce \in BOOLEAN, NEW ret \in BOOLEAN,
           Recover(granted, announce, ret)
    PROVE  /\ expected' \in State
           /\ store' \in State \cup {Missing, Invalid}
           /\ authority' \in BOOLEAN /\ conflict' \in BOOLEAN /\ blind' \in BOOLEAN
           /\ faults' \in 0 .. MaxFaults
           /\ told' \in [Signals -> [Kinds -> Nat]]
           /\ \/ blind' /\ ~ret /\ UNCHANGED <<expected, store, authority>>
              \/ ~authority'
              \/ /\ granted /\ ret /\ ~foreign /\ ~conflict'
                 /\ expected' = Loaded'
                 /\ Accounted'
<1> DEFINE Typed ==
        /\ expected' \in State
        /\ store' \in State \cup {Missing, Invalid}
        /\ authority' \in BOOLEAN /\ conflict' \in BOOLEAN /\ blind' \in BOOLEAN
        /\ faults' \in 0 .. MaxFaults
        /\ told' \in [Signals -> [Kinds -> Nat]]
    Outcome ==
        \/ blind' /\ ~ret /\ UNCHANGED <<expected, store, authority>>
        \/ ~authority'
        \/ /\ granted /\ ret /\ ~foreign /\ ~conflict'
           /\ expected' = Loaded'
           /\ Accounted'
<1>1. Open' = Open /\ Loaded \in State /\ Inactive \in State /\ Cleared = Inactive
  BY LoadedType, EngineAssumption DEF Open, Inactive, State, Cleared
<1>2. UNCHANGED told => told' \in [Signals -> [Kinds -> Nat]]
  BY DEF TypeOK
<1>3. ASSUME NEW p \in Signals, Tell(p, "RECOVERED")
      PROVE  told' \in [Signals -> [Kinds -> Nat]]
  BY <1>3, TellType DEF Kinds
<1>4. CASE DiscoveryFails /\ ret = FALSE /\ UNCHANGED told
  <2>1. faults' \in 0 .. MaxFaults
    BY <1>4, EngineAssumption DEF DiscoveryFails, TypeOK
  <2>2. UNCHANGED <<expected, store, authority>> /\ conflict' \in BOOLEAN /\ blind' = TRUE
    BY <1>4 DEF DiscoveryFails, TypeOK
  <2>3. Typed
    BY <1>2, <1>4, <2>1, <2>2 DEF TypeOK
  <2>4. QED BY <1>4, <2>2, <2>3
<1>5. ASSUME NEW c \in BOOLEAN, FailClosed(c), UNCHANGED told, expected' \in State
      PROVE  Typed /\ Outcome
  BY <1>2, <1>5 DEF FailClosed, TypeOK
<1>6. CASE foreign /\ FailClosed(TRUE) /\ UNCHANGED <<expected, told>>
  BY <1>5, <1>6 DEF TypeOK
<1>7. CASE FailClosed(TRUE) /\ expected' = Loaded /\ UNCHANGED told
  BY <1>1, <1>5, <1>7
<1>8. ASSUME NEW p \in Open, ~foreign, Open = {p}, Matches(p, Loaded),
             expected' = Loaded, authority' = granted, conflict' = FALSE,
             blind' = FALSE, ret = TRUE,
             IF announce THEN Tell(p, "RECOVERED") ELSE UNCHANGED told,
             UNCHANGED <<store, faults>>
      PROVE  Typed /\ Outcome
  <2>1. Typed
    BY <1>1, <1>2, <1>3, <1>8 DEF TypeOK, Open
  <2>2. expected' = Loaded' /\ Matches(p, expected)'
    BY <1>8 DEF Loaded, Matches
  <2>3. Accounted'
    BY <1>1, <1>8, <2>2 DEF Accounted
  <2>4. QED BY <1>8, <2>1, <2>2, <2>3
<1>9. ASSUME NEW p \in Open, ~foreign, Open = {p},
             expected' = Mirror(p, Loaded), Save(expected', granted, ret),
             IF announce /\ ret THEN Tell(p, "RECOVERED") ELSE UNCHANGED told
      PROVE  Typed /\ Outcome
  <2>1. p \in Signals
    BY DEF Open
  <2>2. expected' \in State /\ Matches(p, expected')
    BY <1>1, <1>9, <2>1, MirrorFacts
  <2>3. Matches(p, expected)'
    BY <2>2 DEF Matches
  <2>4. /\ store' \in State \cup {Missing, Invalid}
        /\ authority' \in BOOLEAN /\ authority' = (granted /\ ret)
        /\ conflict' = FALSE /\ blind' = FALSE
        /\ faults' \in 0 .. MaxFaults
        /\ ret => Loaded' = expected'
    BY <1>9, <2>2, SaveFacts
  <2>5. Typed
    BY <1>2, <1>3, <1>9, <2>1, <2>2, <2>4
  <2>6. Accounted'
    BY <1>1, <1>9, <2>3 DEF Accounted
  <2>7. QED BY <1>9, <2>4, <2>5, <2>6
<1>10. ASSUME ~foreign, Open = {}, expected' = Cleared, Save(Cleared, granted, ret),
              UNCHANGED told
       PROVE  Typed /\ Outcome
  <2>1. /\ store' \in State \cup {Missing, Invalid}
        /\ authority' \in BOOLEAN /\ authority' = (granted /\ ret)
        /\ conflict' = FALSE /\ blind' = FALSE
        /\ faults' \in 0 .. MaxFaults
        /\ ret => Loaded' = Cleared
    BY <1>1, <1>10, SaveFacts
  <2>2. Accounted'
    BY <1>1, <1>10 DEF Accounted, Inactive
  <2>3. QED BY <1>1, <1>2, <1>10, <2>1, <2>2
<1>11. ASSUME ~foreign, Open = {}, ~Loaded.active, expected' = Loaded,
              authority' = granted, conflict' = FALSE, blind' = FALSE, ret = TRUE,
              UNCHANGED <<store, faults, told>>
       PROVE  Typed /\ Outcome
  <2>1. Loaded' = Loaded
    BY <1>11 DEF Loaded
  <2>2. Accounted'
    BY <1>1, <1>11 DEF Accounted
  <2>3. QED BY <1>1, <1>2, <1>11, <2>1, <2>2 DEF TypeOK
<1>12. QED BY <1>4, <1>6, <1>7, <1>8, <1>9, <1>10, <1>11 DEF Recover

-----------------------------------------------------------------------------
(* The authority invariant, step by step *)

(* The broker and the account's other users: whatever they do to a running *)
(* expert's account, they leave a transaction for it to handle.            *)
LEMMA BrokerStep ==
    ASSUME AuthorityInv, UNCHANGED expertVars,
           order' \in [Signals -> {"new", "dropped", "checked", "working", "filled", "dead"}],
           position' \in [Signals -> Position], foreign' \in BOOLEAN,
           txns' \in SUBSET Transaction, meddling' \in 0 .. MaxMeddling,
           partials' \in [Signals -> Nat],
           (Running => txns' # {}) \/ UNCHANGED <<position, foreign, txns>>,
           Running /\ PositionsAnnounced => PositionsAnnounced',
           Running /\ ForeignAnnounced => ForeignAnnounced'
    PROVE  AuthorityInv'
<1>1. TypeOK'
  BY DEF AuthorityInv, TypeOK, expertVars, switches
<1>2. MemoryIsDurable' /\ FlatBeforeSend'
  BY DEF AuthorityInv, MemoryIsDurable, FlatBeforeSend, Running, Loaded, expertVars, switches
<1>3. AuthorityMeansAccounted'
  BY DEF AuthorityInv, AuthorityMeansAccounted, Accounted, Matches, Open, Running,
         expertVars, switches
<1>4. QED BY <1>1, <1>2, <1>3 DEF AuthorityInv

(* A step of the expert that leaves its memory and the broker as they are. *)
LEMMA QuietStep ==
    ASSUME AuthorityInv, TypeOK',
           UNCHANGED <<position, foreign, txns, expected, authority, conflict,
                       blind, store>>,
           Running, Running',
           pc' \in {"preflight", "send"} =>
               pc \in {"preflight", "send"} /\ UNCHANGED gate,
           pc' = "send" => authority
    PROVE  AuthorityInv'
<1>1. MemoryIsDurable'
  BY DEF AuthorityInv, MemoryIsDurable, Loaded
<1>2. AuthorityMeansAccounted'
  BY DEF AuthorityInv, AuthorityMeansAccounted, Accounted, Matches, Open
<1>3. FlatBeforeSend'
  BY DEF AuthorityInv, FlatBeforeSend, Loaded, PositionsAnnounced, ForeignAnnounced, Open
<1>4. QED BY <1>1, <1>2, <1>3 DEF AuthorityInv

(* A step in which the expert looks at the account and draws conclusions. *)
LEMMA LookStep ==
    ASSUME AuthorityInv, TypeOK', Running, UNCHANGED <<position, foreign>>,
           \/ blind' /\ UNCHANGED <<expected, store, authority>>
           \/ ~authority'
           \/ ~foreign /\ expected' = Loaded' /\ Accounted',
           pc' \in {"preflight", "send"} =>
               /\ pc' = "preflight" /\ gate' /\ PositionsAnnounced'
               /\ authority' => /\ ~conflict' /\ ~expected'.active /\ ~Loaded'.active
                                /\ ForeignAnnounced'
    PROVE  AuthorityInv'
<1>1. MemoryIsDurable'
  BY DEF AuthorityInv, MemoryIsDurable, Loaded
<1>2. AuthorityMeansAccounted'
  BY DEF AuthorityMeansAccounted
<1>3. FlatBeforeSend'
  BY DEF FlatBeforeSend
<1>4. QED BY <1>1, <1>2, <1>3 DEF AuthorityInv

\* The stopped expert satisfies the invariant.
LEMMA InitAuthorityInv == Init => AuthorityInv
<1> SUFFICES ASSUME Init PROVE AuthorityInv
  OBVIOUS
<1>1. TypeOK
  <2>1. position \in [Signals -> Position]
    BY EngineAssumption DEF Init, NoPosition, Position
  <2>2. told \in [Signals -> [Kinds -> Nat]]
    BY DEF Init
  <2>3. faults \in 0 .. MaxFaults /\ meddling \in 0 .. MaxMeddling
    BY EngineAssumption DEF Init
  <2>4. QED BY <2>1, <2>2, <2>3, InactiveType DEF Init, TypeOK
<1>2. QED
  BY <1>1 DEF Init, AuthorityInv, MemoryIsDurable, AuthorityMeansAccounted,
              FlatBeforeSend, Running

\* Initialize grants the authority to what recovery could account for.
LEMMA StartStep ==
    ASSUME AuthorityInv, Start
    PROVE  AuthorityInv'
<1>1. PICK ret \in BOOLEAN : /\ Recover(TRUE, TRUE, ret)
                             /\ pc' = IF ret THEN "idle" ELSE "failed"
  BY DEF Start
<1>2. /\ expected' \in State
      /\ store' \in State \cup {Missing, Invalid}
      /\ authority' \in BOOLEAN /\ conflict' \in BOOLEAN /\ blind' \in BOOLEAN
      /\ faults' \in 0 .. MaxFaults
      /\ told' \in [Signals -> [Kinds -> Nat]]
      /\ \/ ~ret
         \/ ~authority'
         \/ ~foreign /\ expected' = Loaded' /\ Accounted'
  BY <1>1, RecoverFacts DEF Start, brokerVars, AuthorityInv
<1>3. TypeOK'
  BY <1>1, <1>2 DEF Start, AuthorityInv, TypeOK, brokerVars
<1>4. ret \/ ~Running'
  BY <1>1 DEF Running
<1>5. MemoryIsDurable' /\ AuthorityMeansAccounted' /\ FlatBeforeSend'
  BY <1>1, <1>2, <1>4
     DEF Start, brokerVars, MemoryIsDurable, AuthorityMeansAccounted, FlatBeforeSend
<1>6. QED BY <1>3, <1>5 DEF AuthorityInv

\* An expert that ends has no authority, whatever it leaves behind.
LEMMA EndStep ==
    ASSUME AuthorityInv, Unload \/ Crash
    PROVE  AuthorityInv'
<1>1. Reset /\ faults' \in 0 .. MaxFaults
  BY EngineAssumption DEF Unload, Crash, AuthorityInv, TypeOK
<1>2. TypeOK'
  BY <1>1, InactiveType DEF Reset, AuthorityInv, TypeOK
<1>3. ~Running' /\ pc' = "down"
  BY <1>1 DEF Reset, Running
<1>4. QED
  BY <1>2, <1>3 DEF AuthorityInv, MemoryIsDurable, AuthorityMeansAccounted, FlatBeforeSend

\* The panel and the data faults do not touch position, memory or authority.
LEMMA SwitchStep ==
    ASSUME AuthorityInv, RefreshEntryGate \/ DataFault \/ EndTick
    PROVE  AuthorityInv'
<1>1. TypeOK'
  BY DEF RefreshEntryGate, DataFault, EndTick, AuthorityInv, TypeOK, brokerVars, switches
<1>2. QED
  BY <1>1, QuietStep DEF RefreshEntryGate, DataFault, EndTick, brokerVars, Running

\* A plan goes on to its order only from an account that recovery found flat.
LEMMA SubmitStep ==
    ASSUME AuthorityInv, NEW s \in Signals, SubmitSignalPlan(s)
    PROVE  AuthorityInv'
<1>1. PICK ret \in BOOLEAN :
        /\ Recover(authority, FALSE, ret)
        /\ order' = [order EXCEPT ![s] = IF Proceed(ret) THEN "checked" ELSE "dropped"]
        /\ pc' = IF Proceed(ret) THEN "preflight" ELSE "tick"
        /\ cur' = IF Proceed(ret) THEN s ELSE 0
  BY DEF SubmitSignalPlan
<1>2. /\ UNCHANGED <<position, foreign, txns, partials, gate, healthy, meddling>>
      /\ pc \in {"idle", "tick"}
  BY DEF SubmitSignalPlan, switches
<1>3. /\ expected' \in State
      /\ store' \in State \cup {Missing, Invalid}
      /\ authority' \in BOOLEAN /\ conflict' \in BOOLEAN /\ blind' \in BOOLEAN
      /\ faults' \in 0 .. MaxFaults
      /\ told' \in [Signals -> [Kinds -> Nat]]
      /\ \/ blind' /\ ~ret /\ UNCHANGED <<expected, store, authority>>
         \/ ~authority'
         \/ /\ ~foreign /\ ~conflict'
            /\ expected' = Loaded'
            /\ Accounted'
  BY <1>1, <1>2, RecoverFacts DEF AuthorityInv, TypeOK
<1>4. s \in 0 .. MaxSignals /\ 0 \in 0 .. MaxSignals
  BY EngineAssumption DEF Signals
<1>5. TypeOK'
  BY <1>1, <1>2, <1>3, <1>4 DEF AuthorityInv, TypeOK
<1>6. Proceed(ret) => ret /\ gate /\ Open' = {}
  BY <1>2 DEF Proceed, Open
<1>7. Accounted' /\ Open' = {} => ~expected'.active
  BY DEF Accounted
<1>8. /\ Open' = {} => PositionsAnnounced'
      /\ ~foreign => ForeignAnnounced'
  BY <1>2 DEF PositionsAnnounced, ForeignAnnounced
<1>9. QED
  BY <1>1, <1>2, <1>3, <1>5, <1>6, <1>7, <1>8, LookStep DEF Running

\* The guards may drop the plan; they change nothing it relies on.
LEMMA PreflightStep ==
    ASSUME AuthorityInv, Preflight
    PROVE  AuthorityInv'
<1>1. told' \in [Signals -> [Kinds -> Nat]]
  BY TellType DEF Preflight, AuthorityInv, TypeOK, Kinds
<1>2. order' \in [Signals -> {"new", "dropped", "checked", "working", "filled", "dead"}]
  BY DEF Preflight, AuthorityInv, TypeOK
<1>3. TypeOK'
  BY <1>1, <1>2, InactiveType DEF Preflight, Finish, NextBar, AuthorityInv, TypeOK, switches
<1>4. QED
  BY <1>3, QuietStep DEF Preflight, Finish, NextBar, Running, switches

\* Looking for the position of an ambiguous order changes nothing.
LEMMA ReconcileSignalStep ==
    ASSUME AuthorityInv, ReconcileSignalPosition
    PROVE  AuthorityInv'
<1>1. told' \in [Signals -> [Kinds -> Nat]]
  BY TellType DEF ReconcileSignalPosition, AuthorityInv, TypeOK, Kinds
<1>2. TypeOK'
  BY <1>1, InactiveType
     DEF ReconcileSignalPosition, Finish, NextBar, AuthorityInv, TypeOK, switches, brokerVars
<1>3. QED
  BY <1>2, QuietStep DEF ReconcileSignalPosition, Finish, NextBar, Running, switches, brokerVars

\* Emitting an event is all an ended handler still does.
LEMMA EmitStep ==
    ASSUME AuthorityInv, EmitTransition
    PROVE  AuthorityInv'
<1>1. told' \in [Signals -> [Kinds -> Nat]]
  BY TellType DEF EmitTransition, AuthorityInv, TypeOK, Kinds
<1>2. TypeOK'
  BY <1>1, InactiveType
     DEF EmitTransition, Finish, NextBar, AuthorityInv, TypeOK, switches, brokerVars
<1>3. QED
  BY <1>2, QuietStep DEF EmitTransition, Finish, NextBar, Running, switches, brokerVars

\* The order either leaves the account flat or queues the transaction of its fill.
LEMMA SendStep ==
    ASSUME AuthorityInv, NEW answer \in {"success", "ambiguous", "refused"},
           NEW outcome \in {"filled", "working", "dead"}, SendOrder(answer, outcome)
    PROVE  AuthorityInv'
<1>1. cur \in Signals
  BY DEF SendOrder, AuthorityInv, TypeOK
<1>2. /\ txns' \in SUBSET Transaction /\ position' \in [Signals -> Position]
      /\ txns' # {} \/ UNCHANGED <<position, txns>>
  <2>1. CASE outcome = "filled"
    <3>1. Fill(cur)
      BY <2>1 DEF SendOrder
    <3>2. txns' # {}
      BY <3>1 DEF SendOrder, Fill, Notify, Running
    <3>3. QED BY <1>1, <3>1, <3>2, FillType DEF AuthorityInv
  <2>2. CASE outcome # "filled"
    BY <2>2 DEF SendOrder, AuthorityInv, TypeOK
  <2>3. QED BY <2>1, <2>2
<1>3. told' \in [Signals -> [Kinds -> Nat]]
  BY TellType DEF SendOrder, AuthorityInv, TypeOK, Kinds
<1>4. order' \in [Signals -> {"new", "dropped", "checked", "working", "filled", "dead"}]
  BY DEF SendOrder, AuthorityInv, TypeOK
<1>5. TypeOK'
  BY <1>1, <1>2, <1>3, <1>4, InactiveType
     DEF SendOrder, Finish, NextBar, AuthorityInv, TypeOK, switches
<1>6. Running /\ Running' /\ pc' \notin {"preflight", "send"}
  BY DEF SendOrder, Finish, NextBar, Running
<1>7. UNCHANGED <<foreign, expected, authority, conflict, blind, store>>
  BY DEF SendOrder
<1>8. MemoryIsDurable' /\ FlatBeforeSend'
  BY <1>6, <1>7 DEF AuthorityInv, MemoryIsDurable, FlatBeforeSend, Loaded
<1>9. AuthorityMeansAccounted'
  BY <1>2, <1>6, <1>7
     DEF AuthorityInv, AuthorityMeansAccounted, Accounted, Matches, Open
<1>10. QED BY <1>5, <1>8, <1>9 DEF AuthorityInv

(* What a discovery that failed, or found what it cannot own, leaves. *)
LEMMA RefusalFacts ==
    ASSUME TypeOK, \/ DiscoveryFails
                   \/ \E c \in BOOLEAN : FailClosed(c) /\ UNCHANGED expected
    PROVE  /\ expected' = expected /\ store' = store
           /\ authority' \in BOOLEAN /\ conflict' \in BOOLEAN /\ blind' \in BOOLEAN
           /\ faults' \in 0 .. MaxFaults
           /\ (blind' /\ authority' = authority) \/ ~authority'
<1>1. CASE DiscoveryFails
  <2>1. faults' \in 0 .. MaxFaults
    BY <1>1, EngineAssumption DEF DiscoveryFails, TypeOK
  <2>2. UNCHANGED <<expected, store, authority>> /\ conflict' \in BOOLEAN /\ blind' = TRUE
    BY <1>1 DEF DiscoveryFails, TypeOK
  <2>3. QED BY <2>1, <2>2 DEF TypeOK
<1>2. ASSUME NEW c \in BOOLEAN, FailClosed(c), UNCHANGED expected
      PROVE  /\ store' = store /\ faults' \in 0 .. MaxFaults
             /\ authority' = FALSE /\ conflict' = c /\ blind' = FALSE
  BY <1>2 DEF FailClosed, TypeOK
<1>3. QED BY <1>1, <1>2

\* The position adopted is the one the broker has, or the authority goes.
LEMMA PersistStep ==
    ASSUME AuthorityInv, PersistSubmittedPosition
    PROVE  AuthorityInv'
<1>1. /\ UNCHANGED <<order, position, foreign, txns, partials, gate, healthy, told, meddling>>
      /\ pc = "persist" /\ cur \in Signals /\ TypeOK
  BY DEF PersistSubmittedPosition, brokerVars, switches, AuthorityInv, TypeOK
<1>2. ASSUME DiscoveryFails \/ (\E c \in BOOLEAN : FailClosed(c) /\ UNCHANGED expected),
             NextBar
      PROVE  AuthorityInv'
  <2>1. /\ expected' = expected /\ store' = store
        /\ authority' \in BOOLEAN /\ conflict' \in BOOLEAN /\ blind' \in BOOLEAN
        /\ faults' \in 0 .. MaxFaults
        /\ (blind' /\ authority' = authority) \/ ~authority'
    BY <1>1, <1>2, RefusalFacts
  <2>2. TypeOK'
    BY <1>1, <1>2, <2>1, InactiveType DEF NextBar, TypeOK
  <2>3. QED BY <1>1, <1>2, <2>1, <2>2, LookStep DEF NextBar, Running
<1>3. ASSUME NEW p \in Open, NEW ok \in BOOLEAN, ~foreign, Open = {p},
             expected' = Mirror(p, [Inactive EXCEPT !.signal = cur]),
             Save(expected', authority, ok),
             IF ok THEN pc' = "OPENED" /\ cur' = p ELSE NextBar
      PROVE  AuthorityInv'
  <2>1. p \in Signals /\ p \in 0 .. MaxSignals /\ cur \in 0 .. MaxSignals
    BY <1>1, EngineAssumption DEF Open, Signals
  <2>2. [Inactive EXCEPT !.signal = cur] \in State
    BY <2>1, InactiveType DEF State
  <2>3. expected' \in State /\ Matches(p, expected')
    BY <1>1, <1>3, <2>1, <2>2, MirrorFacts
  <2>4. Matches(p, expected)' /\ Open' = Open
    BY <1>1, <2>3 DEF Matches, Open
  <2>5. /\ store' \in State \cup {Missing, Invalid}
        /\ authority' \in BOOLEAN /\ authority' = (authority /\ ok)
        /\ conflict' = FALSE /\ blind' = FALSE
        /\ faults' \in 0 .. MaxFaults
        /\ ok => Loaded' = expected'
    BY <1>1, <1>3, <2>3, SaveFacts DEF TypeOK
  <2>6. Accounted'
    BY <1>3, <2>4 DEF Accounted
  <2>7. pc' \in {"OPENED", "tick"} /\ cur' \in 0 .. MaxSignals
    BY <1>3, <2>1, InactiveType DEF NextBar
  <2>8. TypeOK'
    BY <1>1, <2>3, <2>5, <2>7 DEF TypeOK
  <2>9. QED BY <1>1, <1>3, <2>5, <2>6, <2>7, <2>8, LookStep DEF Running
<1>4. QED BY <1>1, <1>2, <1>3 DEF PersistSubmittedPosition, TypeOK

(* ReconcileClosingDeal, for the deal that closed (part of) our position. *)
LEMMA ReconcileClosingStep ==
    ASSUME AuthorityInv, Running, ReconcileClosingDeal, txns' \in SUBSET Transaction,
           UNCHANGED <<order, position, foreign, partials, gate, healthy, told, meddling>>
    PROVE  AuthorityInv'
<1>1. TypeOK
  BY DEF AuthorityInv
<1>2. ASSUME DiscoveryFails \/ (\E c \in BOOLEAN : FailClosed(c) /\ UNCHANGED expected),
             Finish
      PROVE  AuthorityInv'
  <2>1. /\ expected' = expected /\ store' = store
        /\ authority' \in BOOLEAN /\ conflict' \in BOOLEAN /\ blind' \in BOOLEAN
        /\ faults' \in 0 .. MaxFaults
        /\ (blind' /\ authority' = authority) \/ ~authority'
    BY <1>1, <1>2, RefusalFacts
  <2>2. TypeOK'
    BY <1>1, <1>2, <2>1, InactiveType DEF Finish, TypeOK
  <2>3. QED BY <1>2, <2>1, <2>2, LookStep DEF Finish, Running
<1>3. ASSUME NEW v \in State, NEW ok \in BOOLEAN, NEW next \in {"PARTIAL", "CLOSED"},
             ~foreign, expected' = v, Save(v, authority, ok),
             Accounted',
             IF ok THEN pc' = next /\ cur' = expected.identifier ELSE Finish
      PROVE  AuthorityInv'
  <2>1. /\ store' \in State \cup {Missing, Invalid}
        /\ authority' \in BOOLEAN /\ authority' = (authority /\ ok)
        /\ conflict' = FALSE /\ blind' = FALSE
        /\ faults' \in 0 .. MaxFaults
        /\ ok => Loaded' = v
    BY <1>1, <1>3, SaveFacts DEF TypeOK
  <2>2. pc' \in {"PARTIAL", "CLOSED", "idle"} /\ cur' \in 0 .. MaxSignals
    BY <1>1, <1>3, InactiveType DEF Finish, TypeOK, State
  <2>3. TypeOK'
    BY <1>1, <1>3, <2>1, <2>2 DEF TypeOK
  <2>4. QED BY <1>3, <2>1, <2>2, <2>3, LookStep DEF Running
<1>4. ASSUME NEW ok \in BOOLEAN, ~foreign, Open = {expected.identifier},
             expected' = Mirror(expected.identifier, expected),
             Save(expected', authority, ok),
             IF ok THEN pc' = "PARTIAL" /\ cur' = expected.identifier ELSE Finish
      PROVE  AuthorityInv'
  <2>1. expected.identifier \in Signals
    BY <1>4 DEF Open
  <2>2. expected' \in State /\ Matches(expected.identifier, expected')
    BY <1>1, <1>4, <2>1, MirrorFacts DEF TypeOK
  <2>3. \E p \in Open' : Open' = {p} /\ Matches(p, expected)'
    BY <1>4, <2>2 DEF Matches, Open
  <2>4. Accounted'
    BY <2>3 DEF Accounted
  <2>5. QED BY <1>3, <1>4, <2>2, <2>4
<1>5. ASSUME NEW ok \in BOOLEAN, ~foreign, Open = {},
             expected' = Cleared, Save(Cleared, authority, ok),
             IF ok THEN pc' = "CLOSED" /\ cur' = expected.identifier ELSE Finish
      PROVE  AuthorityInv'
  <2>1. Cleared \in State /\ ~Cleared.active /\ Open' = {}
    BY <1>5, InactiveType DEF Cleared, Inactive, Open
  <2>2. Accounted'
    BY <1>5, <2>1 DEF Accounted
  <2>3. QED BY <1>3, <1>5, <2>1, <2>2
<1>6. QED BY <1>2, <1>4, <1>5 DEF ReconcileClosingDeal

\* Each transaction is reconciled or disables the authority.
LEMMA TransactionStep ==
    ASSUME AuthorityInv, NEW t \in Transaction, OnTradeTransaction(t)
    PROVE  AuthorityInv'
<1>1. /\ UNCHANGED <<order, position, foreign, partials, gate, healthy>>
      /\ pc = "idle" /\ txns' \in SUBSET Transaction /\ TypeOK /\ Running
  BY DEF OnTradeTransaction, switches, AuthorityInv, TypeOK, Running
<1>2. CASE ReconcileClosingDeal /\ UNCHANGED <<told, meddling>>
  BY <1>1, <1>2, ReconcileClosingStep
<1>3. ASSUME NEW ret \in BOOLEAN, Recover(authority, FALSE, ret), UNCHANGED <<pc, cur>>,
             Meddle \/ UNCHANGED meddling
      PROVE  AuthorityInv'
  <2>1. /\ expected' \in State
        /\ store' \in State \cup {Missing, Invalid}
        /\ authority' \in BOOLEAN /\ conflict' \in BOOLEAN /\ blind' \in BOOLEAN
        /\ faults' \in 0 .. MaxFaults
        /\ told' \in [Signals -> [Kinds -> Nat]]
        /\ \/ blind' /\ UNCHANGED <<expected, store, authority>>
           \/ ~authority'
           \/ ~foreign /\ expected' = Loaded' /\ Accounted'
    BY <1>1, <1>3, RecoverFacts DEF TypeOK
  <2>2. meddling' \in 0 .. MaxMeddling
    BY <1>1, <1>3, EngineAssumption DEF Meddle, TypeOK
  <2>3. TypeOK'
    BY <1>1, <1>3, <2>1, <2>2 DEF TypeOK
  <2>4. QED BY <1>1, <1>3, <2>1, <2>3, LookStep
<1>4. QED BY <1>2, <1>3 DEF OnTradeTransaction

(* What is announced stays announced when the queue only grows, and what comes *)
(* is announced as it comes.                                                   *)
LEMMA AnnouncedStep ==
    ASSUME Running => txns \subseteq txns',
           Running => \A p \in Open' : p \in Open \/ [kind |-> "IN", id |-> p, left |-> 0] \in txns',
           Running => (foreign' => foreign \/ [kind |-> "FOREIGN", id |-> 0, left |-> 0] \in txns')
    PROVE  /\ Running /\ PositionsAnnounced => PositionsAnnounced'
           /\ Running /\ ForeignAnnounced => ForeignAnnounced'
BY DEF PositionsAnnounced, ForeignAnnounced

\* What the broker and others do always queues a transaction.
LEMMA MarketStep ==
    ASSUME AuthorityInv, Broker
    PROVE  AuthorityInv'
<1> DEFINE Statuses == {"new", "dropped", "checked", "working", "filled", "dead"}
<1>1. /\ TypeOK /\ meddling \in 0 .. MaxMeddling
      /\ Signals \subseteq 0 .. MaxSignals /\ 0 \in 0 .. Lots
  BY EngineAssumption DEF AuthorityInv, TypeOK, Signals
<1>2. Meddle => meddling' \in 0 .. MaxMeddling
  BY <1>1, EngineAssumption DEF Meddle
<1>3. ASSUME NEW t \in Transaction, Notify(t)
      PROVE  /\ txns' \in SUBSET Transaction
             /\ Running => txns' # {} /\ txns \subseteq txns' /\ t \in txns'
  BY <1>1, <1>3 DEF TypeOK, Notify
<1>4. ASSUME NEW s \in Signals, FillLate(s) PROVE AuthorityInv'
  <2>1. txns' \in SUBSET Transaction /\ position' \in [Signals -> Position]
    BY <1>1, <1>4, FillType DEF FillLate
  <2>2. [kind |-> "IN", id |-> s, left |-> 0] \in Transaction
    BY <1>1 DEF Transaction
  <2>3. /\ Running => txns' # {} /\ txns \subseteq txns'
        /\ Running => [kind |-> "IN", id |-> s, left |-> 0] \in txns'
    BY <1>3, <1>4, <2>2 DEF FillLate, Fill
  <2>4. order' \in [Signals -> Statuses]
    BY <1>1, <1>4 DEF FillLate, TypeOK
  <2>5. \A p \in Open' : p \in Open \/ p = s
    BY <1>1, <1>4 DEF FillLate, Fill, Open, TypeOK
  <2>6. /\ Running /\ PositionsAnnounced => PositionsAnnounced'
        /\ Running /\ ForeignAnnounced => ForeignAnnounced'
    BY <1>4, <2>3, <2>5, AnnouncedStep DEF FillLate
  <2>7. QED BY <1>1, <1>4, <2>1, <2>3, <2>4, <2>6, BrokerStep DEF FillLate, TypeOK
<1>5. ASSUME NEW s \in Signals, CancelLate(s) PROVE AuthorityInv'
  <2>1. order' \in [Signals -> Statuses]
    BY <1>1, <1>5 DEF CancelLate, TypeOK
  <2>2. /\ Running /\ PositionsAnnounced => PositionsAnnounced'
        /\ Running /\ ForeignAnnounced => ForeignAnnounced'
    BY <1>5, AnnouncedStep DEF CancelLate, Open
  <2>3. QED BY <1>1, <1>5, <2>1, <2>2, BrokerStep DEF CancelLate, TypeOK
<1>6. ASSUME NEW s \in Signals, NEW q \in Position, NEW t \in Transaction, Notify(t),
             position' = [position EXCEPT ![s] = q], q.volume > 0 => s \in Open,
             UNCHANGED <<order, foreign, expertVars>>,
             partials' \in [Signals -> Nat], Meddle \/ UNCHANGED meddling
      PROVE  AuthorityInv'
  <2>1. position' \in [Signals -> Position] /\ Open' \subseteq Open
    BY <1>1, <1>6 DEF TypeOK, Open
  <2>2. /\ txns' \in SUBSET Transaction
        /\ Running => txns' # {} /\ txns \subseteq txns'
    BY <1>3, <1>6
  <2>3. /\ Running /\ PositionsAnnounced => PositionsAnnounced'
        /\ Running /\ ForeignAnnounced => ForeignAnnounced'
    BY <1>6, <2>1, <2>2, AnnouncedStep
  <2>4. QED BY <1>1, <1>2, <1>6, <2>1, <2>2, <2>3, BrokerStep DEF TypeOK
<1>7. ASSUME NEW s \in Signals, ClosePosition(s) PROVE AuthorityInv'
  <2>1. [kind |-> "OUT", id |-> s, left |-> 0] \in Transaction
    BY <1>1 DEF Transaction
  <2>2. NoPosition \in Position /\ ~(NoPosition.volume > 0)
    BY <1>1 DEF NoPosition, Position
  <2>3. QED BY <1>1, <1>6, <1>7, <2>1, <2>2 DEF ClosePosition, TypeOK
<1>8. ASSUME NEW s \in Signals, NEW v \in 1 .. Lots, PartialClose(s, v) PROVE AuthorityInv'
  <2>1. [kind |-> "OUT", id |-> s, left |-> v] \in Transaction
    BY <1>1, EngineAssumption DEF Transaction
  <2>2. position[s] \in Position /\ v \in 0 .. Lots /\ v \in 1 .. position[s].volume - 1
    BY <1>1, <1>8, EngineAssumption DEF TypeOK, PartialClose
  <2>3. [position[s] EXCEPT !.volume = v] \in Position
    BY <2>2 DEF Position
  <2>4. s \in Open
    BY <2>2 DEF Open, Position
  <2>5. partials' \in [Signals -> Nat]
    BY <1>1, <1>8 DEF PartialClose, TypeOK
  <2>6. Meddle \/ UNCHANGED meddling
    BY <1>8 DEF PartialClose
  <2>7. position' = [position EXCEPT ![s] = [position[s] EXCEPT !.volume = v]]
    BY <1>1, <1>8 DEF PartialClose, TypeOK
  <2>8. QED BY <1>6, <1>8, <2>1, <2>3, <2>4, <2>5, <2>6, <2>7 DEF PartialClose
<1>9. ASSUME NEW s \in Signals, ModifyPosition(s) \/ Reticket(s) PROVE AuthorityInv'
  <2>1. [kind |-> "UPDATE", id |-> s, left |-> 0] \in Transaction
    BY <1>1 DEF Transaction
  <2>2. position[s] \in Position /\ s \in Open /\ position \in [Signals -> Position]
    BY <1>1, <1>9 DEF TypeOK, ModifyPosition, Reticket
  <2>3. PICK q \in Position : position' = [position EXCEPT ![s] = q]
    <3>1. /\ [position[s] EXCEPT !.geometry = 1 - @] \in Position
          /\ [position[s] EXCEPT !.ticket = 1 - @] \in Position
      BY <2>2 DEF Position
    <3>2. \/ position' = [position EXCEPT ![s] = [position[s] EXCEPT !.geometry = 1 - @]]
          \/ position' = [position EXCEPT ![s] = [position[s] EXCEPT !.ticket = 1 - @]]
      BY <1>9, <2>2 DEF ModifyPosition, Reticket
    <3>3. QED BY <3>1, <3>2
  <2>4. Notify([kind |-> "UPDATE", id |-> s, left |-> 0])
    BY <1>9 DEF ModifyPosition, Reticket
  <2>5. UNCHANGED <<order, foreign, partials, expertVars>> /\ Meddle
    BY <1>9 DEF ModifyPosition, Reticket
  <2>6. QED BY <1>1, <1>6, <2>1, <2>2, <2>3, <2>4, <2>5 DEF TypeOK
<1>10. ASSUME ForeignPosition PROVE AuthorityInv'
  <2>1. [kind |-> "FOREIGN", id |-> 0, left |-> 0] \in Transaction
    BY <1>1, EngineAssumption DEF Transaction
  <2>2. /\ txns' \in SUBSET Transaction
        /\ Running => txns' # {} /\ txns \subseteq txns'
        /\ Running => [kind |-> "FOREIGN", id |-> 0, left |-> 0] \in txns'
    BY <1>3, <1>10, <2>1 DEF ForeignPosition
  <2>3. meddling' \in 0 .. MaxMeddling
    BY <1>1, <1>10, EngineAssumption DEF ForeignPosition
  <2>4. /\ Running /\ PositionsAnnounced => PositionsAnnounced'
        /\ Running /\ ForeignAnnounced => ForeignAnnounced'
    BY <1>10, <2>2, AnnouncedStep DEF ForeignPosition, Open
  <2>5. QED BY <1>1, <1>10, <2>2, <2>3, <2>4, BrokerStep DEF ForeignPosition, TypeOK
<1>11. QED BY <1>4, <1>5, <1>7, <1>8, <1>9, <1>10 DEF Broker

(***************************************************************************)
(* The inductive invariant behind the theorems about authority.            *)
(***************************************************************************)
THEOREM AuthorityInvariant == Spec => []AuthorityInv
<1>1. AuthorityInv /\ [Next]_vars => AuthorityInv'
  <2> SUFFICES ASSUME AuthorityInv, [Next]_vars PROVE AuthorityInv'
    OBVIOUS
  <2>1. ASSUME UNCHANGED vars PROVE AuthorityInv'
    BY <2>1, BrokerStep
       DEF AuthorityInv, TypeOK, vars, expertVars, switches, PositionsAnnounced,
           ForeignAnnounced, Open
  <2>2. ASSUME Handlers PROVE AuthorityInv'
    BY <2>2, SwitchStep, PreflightStep, SendStep, ReconcileSignalStep, PersistStep, EmitStep,
       TransactionStep DEF Handlers, AuthorityInv, TypeOK
  <2>3. QED
    BY <2>1, <2>2, StartStep, EndStep, SwitchStep, SubmitStep, MarketStep DEF Next
<1>2. QED BY InitAuthorityInv, <1>1, PTL DEF Spec

(***************************************************************************)
(* The expert loses its authority before it forgets how to account for the *)
(* account: with the queue of transactions empty and discovery working,    *)
(* authority means that broker and memory agree.                           *)
(***************************************************************************)
THEOREM AuthorityIsAccountedFor == Spec => []AuthorityMeansAccounted
<1>1. AuthorityInv => AuthorityMeansAccounted
  BY DEF AuthorityInv
<1>2. QED BY AuthorityInvariant, <1>1, PTL

(* An expert with authority has its memory on disk, at every step. *)
THEOREM MemorySurvivesCrash == Spec => []MemoryIsDurable
<1>1. AuthorityInv => MemoryIsDurable
  BY DEF AuthorityInv
<1>2. QED BY AuthorityInvariant, <1>1, PTL

(***************************************************************************)
(* PositionOpen is only reached with authority, with the panel's           *)
(* permission, with neither memory nor disk knowing a position, and with   *)
(* whatever came to the account since the last look still in the queue.    *)
(***************************************************************************)
THEOREM OrdersAreSentFlat == Spec => []SendsOnlyWhenFlat
<1>1. AuthorityInv => SendsOnlyWhenFlat
  BY DEF AuthorityInv, FlatBeforeSend, SendsOnlyWhenFlat
<1>2. QED BY AuthorityInvariant, <1>1, PTL

-----------------------------------------------------------------------------
(* What the expert reports: a position reported closed is never managed or  *)
(* reported on again.                                                       *)

(* The step reports nothing on positions reported closed. *)
Silent == \A s \in Signals : told[s]["CLOSED"] > 0 => told'[s] = told[s]

(* What a restart would load after a Save: the new state, the old one or none. *)
LEMMA SaveLoads ==
    ASSUME TypeOK, NEW v \in State, NEW granted \in BOOLEAN, NEW ok \in BOOLEAN,
           Save(v, granted, ok)
    PROVE  /\ Loaded' \in {Loaded, v, Inactive}
           /\ ok => Loaded' = v
<1>1. ok => Loaded' = v
  BY SaveFacts
<1>2. ok \/ store' \in {store, v, Invalid}
  BY SaveFacts
<1>3. store' = v => Loaded' = v
  BY StateIsReadable DEF Loaded
<1>4. QED BY <1>1, <1>2, <1>3 DEF Loaded

(* Memory and disk that name only known positions leave nothing new to know. *)
LEMMA KnownFrom ==
    ASSUME Open' = Open,
           expected'.active => expected'.identifier \in Known,
           Loaded'.active => Loaded'.identifier \in Known
    PROVE  /\ Known' \subseteq Known
           /\ expected'.active => expected'.identifier \in Signals
           /\ Loaded'.active => Loaded'.identifier \in Signals
BY DEF Known, Open

(* A memory that mirrors an open position names a known position. *)
LEMMA MirrorKnown ==
    ASSUME TypeOK, NEW p \in Open, NEW e \in State
    PROVE  /\ Mirror(p, e) \in State
           /\ Mirror(p, e).identifier \in Known
<1>1. p \in Signals /\ p \in Known
  BY DEF Open, Known
<1>2. Mirror(p, e) \in State /\ Matches(p, Mirror(p, e))
  BY <1>1, MirrorFacts
<1>3. QED BY <1>1, <1>2 DEF Matches

(* What a recovery knows was known before, and it reports on open positions. *)
LEMMA RecoverKnows ==
    ASSUME TypeOK, OwnershipInv, UNCHANGED <<position, foreign>>,
           NEW granted \in BOOLEAN, NEW announce \in BOOLEAN, NEW ret \in BOOLEAN,
           Recover(granted, announce, ret)
    PROVE  /\ Known' \subseteq Known
           /\ expected'.active => expected'.identifier \in Signals
           /\ Loaded'.active => Loaded'.identifier \in Signals
           /\ \A s \in Signals : s \in Open \/ told'[s] = told[s]
           /\ \A s \in Signals : told'[s]["CLOSED"] = told[s]["CLOSED"]
<1>1. /\ Open' = Open /\ Loaded \in State /\ ~Inactive.active
      /\ Cleared = Inactive /\ Inactive \in State
  BY LoadedType, InactiveType DEF Open, Inactive, Cleared
<1>2. /\ expected.active => expected.identifier \in Known
      /\ Loaded.active => Loaded.identifier \in Known
  BY DEF OwnershipInv, Known
<1>3. ASSUME NEW p \in Open, Tell(p, "RECOVERED")
      PROVE  /\ \A s \in Signals : s \in Open \/ told'[s] = told[s]
             /\ \A s \in Signals : told'[s]["CLOSED"] = told[s]["CLOSED"]
  BY <1>3 DEF Tell, TypeOK, Kinds, Open
<1>4. store' = store => Loaded' = Loaded
  BY DEF Loaded
<1> DEFINE Remembers ==
        /\ expected'.active => expected'.identifier \in Known
        /\ Loaded'.active => Loaded'.identifier \in Known
<1>5. CASE UNCHANGED <<store, told>> /\ expected' \in {expected, Loaded}
  BY <1>1, <1>2, <1>4, <1>5, KnownFrom
<1>6. ASSUME NEW p \in Open, expected' = Loaded, UNCHANGED store,
             IF announce THEN Tell(p, "RECOVERED") ELSE UNCHANGED told
      PROVE  /\ Remembers
             /\ \A s \in Signals : s \in Open \/ told'[s] = told[s]
             /\ \A s \in Signals : told'[s]["CLOSED"] = told[s]["CLOSED"]
  BY <1>2, <1>3, <1>4, <1>6
<1>7. ASSUME NEW p \in Open, expected' = Mirror(p, Loaded), Save(expected', granted, ret),
             IF announce /\ ret THEN Tell(p, "RECOVERED") ELSE UNCHANGED told
      PROVE  /\ Remembers
             /\ \A s \in Signals : s \in Open \/ told'[s] = told[s]
             /\ \A s \in Signals : told'[s]["CLOSED"] = told[s]["CLOSED"]
  <2>1. expected' \in State /\ expected'.identifier \in Known
    BY <1>1, <1>7, MirrorKnown
  <2>2. Loaded' \in {Loaded, expected', Inactive}
    BY <1>7, <2>1, SaveLoads
  <2>3. QED BY <1>1, <1>2, <1>3, <1>7, <2>1, <2>2
<1>8. ASSUME expected' = Cleared, Save(Cleared, granted, ret), UNCHANGED told
      PROVE  Remembers
  <2>1. Loaded' \in {Loaded, Inactive}
    BY <1>1, <1>8, SaveLoads
  <2>2. QED BY <1>1, <1>2, <1>8, <2>1
<1>9. QED
  BY <1>1, <1>5, <1>6, <1>7, <1>8, KnownFrom DEF Recover, DiscoveryFails, FailClosed

-----------------------------------------------------------------------------
(* The ownership invariant, step by step *)

\* Nothing is known and nothing was reported.
LEMMA InitOwnershipInv == Init => OwnershipInv
<1> SUFFICES ASSUME Init PROVE OwnershipInv
  OBVIOUS
<1>1. Open = {} /\ Loaded = Inactive /\ expected = Inactive /\ ~Inactive.active
  BY DEF Init, Open, NoPosition, Loaded, Inactive
<1>2. Known = {}
  BY <1>1 DEF Known
<1>3. \A s \in Signals : told[s]["CLOSED"] = 0
  BY DEF Init, Kinds
<1>4. QED BY <1>1, <1>2, <1>3 DEF Init, OwnershipInv

\* A restart adopts only what broker and disk agree on.
LEMMA StartOwns ==
    ASSUME TypeOK, OwnershipInv, Start
    PROVE  OwnershipInv' /\ Silent
<1>1. PICK ret \in BOOLEAN : /\ Recover(TRUE, TRUE, ret)
                             /\ pc' = IF ret THEN "idle" ELSE "failed"
  BY DEF Start
<1>2. UNCHANGED <<order, position, foreign>>
  BY DEF Start, brokerVars
<1>3. /\ Known' \subseteq Known
      /\ expected'.active => expected'.identifier \in Signals
      /\ Loaded'.active => Loaded'.identifier \in Signals
      /\ \A s \in Signals : s \in Open \/ told'[s] = told[s]
      /\ \A s \in Signals : told'[s]["CLOSED"] = told[s]["CLOSED"]
  BY <1>1, <1>2, RecoverKnows
<1>4. OwnershipInv'
  BY <1>1, <1>2, <1>3 DEF OwnershipInv
<1>5. Silent
  BY <1>3 DEF Silent, OwnershipInv, Known
<1>6. QED BY <1>4, <1>5

\* An expert that ends forgets its memory, not the disk.
LEMMA EndOwns ==
    ASSUME TypeOK, OwnershipInv, Unload \/ Crash
    PROVE  OwnershipInv' /\ Silent
<1>1. /\ UNCHANGED <<order, position, store, told>>
      /\ pc' = "down" /\ expected' = Inactive
  BY DEF Unload, Crash, Reset
<1>2. Known' \subseteq Known /\ Loaded' = Loaded /\ ~expected'.active
  BY <1>1 DEF Known, Open, Loaded, Inactive
<1>3. QED BY <1>1, <1>2 DEF OwnershipInv, Silent

(* Steps of the expert that neither learn of a position nor send an order. *)
LEMMA QuietOwns ==
    ASSUME TypeOK, OwnershipInv, RefreshEntryGate \/ DataFault \/ EndTick \/ UNCHANGED vars
    PROVE  OwnershipInv' /\ Silent
<1>1. /\ UNCHANGED <<order, position, cur, expected, store, told>>
      /\ UNCHANGED pc \/ pc' \in {"idle", "tick"}
  BY DEF RefreshEntryGate, DataFault, EndTick, vars, brokerVars
<1>2. Known' = Known /\ Loaded' = Loaded
  BY <1>1 DEF Known, Open, Loaded
<1>3. QED BY <1>1, <1>2 DEF OwnershipInv, Silent

\* The recovery before an order adopts nothing that was closed.
LEMMA SubmitOwns ==
    ASSUME TypeOK, OwnershipInv, NEW s \in Signals, SubmitSignalPlan(s)
    PROVE  OwnershipInv' /\ Silent
<1>1. PICK ret \in BOOLEAN :
        /\ Recover(authority, FALSE, ret)
        /\ order' = [order EXCEPT ![s] = IF Proceed(ret) THEN "checked" ELSE "dropped"]
        /\ pc' = IF Proceed(ret) THEN "preflight" ELSE "tick"
        /\ cur' = IF Proceed(ret) THEN s ELSE 0
  BY DEF SubmitSignalPlan
<1>2. UNCHANGED <<position, foreign>> /\ order[s] = "new" /\ authority \in BOOLEAN
  BY DEF SubmitSignalPlan, TypeOK
<1>3. /\ Known' \subseteq Known
      /\ expected'.active => expected'.identifier \in Signals
      /\ Loaded'.active => Loaded'.identifier \in Signals
      /\ \A t \in Signals : t \in Open \/ told'[t] = told[t]
      /\ \A t \in Signals : told'[t]["CLOSED"] = told[t]["CLOSED"]
  BY <1>1, <1>2, RecoverKnows
<1>4. \A t \in Signals : order[t] = "filled" => order'[t] = "filled"
  BY <1>1, <1>2 DEF TypeOK
<1>5. pc' = "preflight" => order'[cur'] = "checked"
  BY <1>1 DEF TypeOK
<1>6. Known \subseteq Signals
  BY DEF Known, Open
<1>7. OwnershipInv'
  BY <1>1, <1>3, <1>4, <1>5, <1>6 DEF OwnershipInv
<1>8. Silent
  BY <1>3 DEF Silent, OwnershipInv, Known
<1>9. QED BY <1>7, <1>8

(* What the steps between the checks and the answer have in common: the order *)
(* they are about is not that of a position reported closed.                  *)
LEMMA TellsOnCurrent ==
    ASSUME TypeOK, NEW k \in Kinds \ {"CLOSED"}, Tell(cur, k),
           cur \in Signals => told[cur]["CLOSED"] = 0
    PROVE  /\ \A s \in Signals : told'[s]["CLOSED"] = told[s]["CLOSED"]
           /\ Silent
BY DEF TypeOK, Tell, Silent, Kinds

\* The order under way is one that was never filled.
LEMMA PreflightOwns ==
    ASSUME TypeOK, OwnershipInv, Preflight
    PROVE  OwnershipInv' /\ Silent
<1>1. /\ pc = "preflight" /\ cur \in Signals /\ order[cur] = "checked"
      /\ told[cur]["CLOSED"] = 0
  BY DEF Preflight, TypeOK, OwnershipInv, Kinds
<1>2. /\ \A s \in Signals : told'[s]["CLOSED"] = told[s]["CLOSED"]
      /\ Silent
  <2>1. CASE Tell(cur, "REJECTED")
    BY <1>1, <2>1, TellsOnCurrent DEF Kinds
  <2>2. CASE UNCHANGED told
    BY <2>2 DEF Silent
  <2>3. QED BY <2>1, <2>2 DEF Preflight
<1>3. Known' = Known /\ Loaded' = Loaded
  BY DEF Preflight, Known, Open, Loaded
<1>4. \A s \in Signals : order[s] = "filled" => order'[s] = "filled"
  BY <1>1 DEF Preflight, TypeOK
<1>5. /\ pc' \in {"tick", "send"} /\ UNCHANGED expected
      /\ pc' = "send" => UNCHANGED <<order, cur>>
  BY DEF Preflight, NextBar
<1>6. Known \subseteq Signals
  BY DEF Known, Open
<1>7. OwnershipInv'
  BY <1>1, <1>2, <1>3, <1>4, <1>5, <1>6 DEF OwnershipInv
<1>8. QED BY <1>2, <1>7

\* The order reconciled is one that was never reported closed.
LEMMA ReconcileSignalOwns ==
    ASSUME TypeOK, OwnershipInv, ReconcileSignalPosition
    PROVE  OwnershipInv' /\ Silent
<1>1. pc = "reconcile" /\ cur \in Signals /\ told[cur]["CLOSED"] = 0
  BY DEF ReconcileSignalPosition, OwnershipInv
<1>2. /\ \A s \in Signals : told'[s]["CLOSED"] = told[s]["CLOSED"]
      /\ Silent
  <2>1. CASE Tell(cur, "REJECTED")
    BY <1>1, <2>1, TellsOnCurrent DEF Kinds
  <2>2. CASE UNCHANGED told
    BY <2>2 DEF Silent
  <2>3. QED BY <2>1, <2>2 DEF ReconcileSignalPosition
<1>3. Known' = Known /\ Loaded' = Loaded /\ UNCHANGED <<order, expected>>
  BY DEF ReconcileSignalPosition, Known, Open, Loaded, brokerVars
<1>4. pc' = "tick" \/ (pc' = "persist" /\ UNCHANGED <<cur, told>>)
  BY DEF ReconcileSignalPosition, NextBar
<1>5. OwnershipInv'
  BY <1>1, <1>2, <1>3, <1>4 DEF OwnershipInv
<1>6. QED BY <1>2, <1>5

(* The order sent is filled for the first time. *)
LEMMA SendOwns ==
    ASSUME TypeOK, OwnershipInv, NEW answer \in {"success", "ambiguous", "refused"},
           NEW outcome \in {"filled", "working", "dead"}, SendOrder(answer, outcome)
    PROVE  OwnershipInv' /\ Silent
<1>1. /\ pc = "send" /\ cur \in Signals /\ order[cur] = "checked"
      /\ told[cur]["CLOSED"] = 0 /\ cur \notin Known
  BY DEF SendOrder, TypeOK, OwnershipInv, Kinds
<1>2. /\ \A s \in Signals : told'[s]["CLOSED"] = told[s]["CLOSED"]
      /\ Silent
  <2>1. CASE Tell(cur, "REJECTED")
    BY <1>1, <2>1, TellsOnCurrent DEF Kinds
  <2>2. CASE UNCHANGED told
    BY <2>2 DEF Silent
  <2>3. QED BY <2>1, <2>2 DEF SendOrder
<1>3. UNCHANGED <<expected, store>> /\ Loaded' = Loaded
  BY DEF SendOrder, Loaded
<1>4. /\ \A s \in Signals : order'[s] = IF s = cur THEN outcome ELSE order[s]
      /\ \A s \in Open' : s \in Open \/ (s = cur /\ outcome = "filled")
  <2>1. CASE outcome = "filled"
    BY <2>1 DEF SendOrder, Fill, Open, TypeOK
  <2>2. CASE outcome # "filled"
    BY <2>2 DEF SendOrder, Open, TypeOK
  <2>3. QED BY <2>1, <2>2
<1>5. \A s \in Known' : s \in Known \/ (s = cur /\ outcome = "filled")
  BY <1>3, <1>4 DEF Known
<1>6. /\ pc' \in {"persist", "reconcile", "tick"}
      /\ pc' # "tick" => UNCHANGED cur
  BY DEF SendOrder, NextBar
<1>7. Known' \subseteq Signals
  BY DEF Known, Open
<1>8. OwnershipInv'
  BY <1>1, <1>2, <1>3, <1>4, <1>5, <1>6, <1>7 DEF OwnershipInv
<1>9. QED BY <1>2, <1>8

(* The position adopted is open, so it was never reported closed. *)
LEMMA PersistOwns ==
    ASSUME TypeOK, OwnershipInv, PersistSubmittedPosition
    PROVE  OwnershipInv' /\ Silent
<1>1. /\ UNCHANGED <<order, position, foreign, told>> /\ Open' = Open /\ Silent
      /\ cur \in 0 .. MaxSignals /\ pc = "persist"
  BY DEF PersistSubmittedPosition, brokerVars, Open, Silent, TypeOK
<1>2. CASE UNCHANGED <<expected, store>> /\ NextBar
  <2>1. Known' = Known /\ Loaded' = Loaded
    BY <1>1, <1>2 DEF Known, Loaded
  <2>2. QED BY <1>1, <1>2, <2>1 DEF OwnershipInv, NextBar
<1>3. ASSUME NEW p \in Open, NEW ok \in BOOLEAN,
             expected' = Mirror(p, [Inactive EXCEPT !.signal = cur]),
             Save(expected', authority, ok),
             IF ok THEN pc' = "OPENED" /\ cur' = p ELSE NextBar
      PROVE  OwnershipInv'
  <2>1. [Inactive EXCEPT !.signal = cur] \in State /\ ~Inactive.active
    BY <1>1, InactiveType DEF State, Inactive
  <2>2. expected' \in State /\ expected'.identifier \in Known
    BY <1>3, <2>1, MirrorKnown
  <2>3. Loaded' \in {Loaded, expected', Inactive}
    BY <1>3, <2>2, SaveLoads DEF TypeOK
  <2>4. Loaded.active => Loaded.identifier \in Known
    BY DEF OwnershipInv, Known
  <2>5. /\ Known' \subseteq Known
        /\ expected'.active => expected'.identifier \in Signals
        /\ Loaded'.active => Loaded'.identifier \in Signals
    BY <1>1, <2>1, <2>2, <2>3, <2>4, KnownFrom
  <2>6. p \in Signals /\ told[p]["CLOSED"] = 0
    BY DEF OwnershipInv, Known, Open, TypeOK, Kinds
  <2>7. QED BY <1>1, <1>3, <2>5, <2>6 DEF OwnershipInv, NextBar
<1>4. QED
  BY <1>1, <1>2, <1>3 DEF PersistSubmittedPosition, DiscoveryFails, FailClosed

(* The position whose closing deal is reconciled is the one in memory. *)
LEMMA ReconcileClosingOwns ==
    ASSUME TypeOK, OwnershipInv, ReconcileClosingDeal, expected.active,
           UNCHANGED <<order, position, foreign, told>>
    PROVE  OwnershipInv'
<1>1. /\ Open' = Open
      /\ expected.identifier \in Signals /\ expected.identifier \in Known
      /\ order[expected.identifier] = "filled"
      /\ told[expected.identifier]["CLOSED"] = 0
      /\ Loaded.active => Loaded.identifier \in Known
      /\ ~Inactive.active /\ Inactive \in State /\ Cleared = Inactive
      /\ expected \in State /\ authority \in BOOLEAN
  BY InactiveType DEF Open, OwnershipInv, Known, TypeOK, Kinds, Inactive, Cleared
<1>2. CASE UNCHANGED <<expected, store>> /\ Finish
  <2>1. Known' = Known /\ Loaded' = Loaded
    BY <1>1, <1>2 DEF Known, Loaded
  <2>2. QED BY <1>1, <1>2, <2>1 DEF OwnershipInv, Finish
<1>3. ASSUME NEW ok \in BOOLEAN, Open = {expected.identifier},
             expected' = Mirror(expected.identifier, expected),
             Save(expected', authority, ok),
             IF ok THEN pc' = "PARTIAL" /\ cur' = expected.identifier ELSE Finish
      PROVE  OwnershipInv'
  <2>1. expected' \in State /\ expected'.identifier \in Known
    BY <1>1, <1>3, MirrorKnown
  <2>2. Loaded' \in {Loaded, expected', Inactive}
    BY <1>1, <1>3, <2>1, SaveLoads
  <2>3. /\ Known' \subseteq Known
        /\ expected'.active => expected'.identifier \in Signals
        /\ Loaded'.active => Loaded'.identifier \in Signals
    BY <1>1, <2>1, <2>2, KnownFrom
  <2>4. QED BY <1>1, <1>3, <2>3 DEF OwnershipInv, Finish
<1>4. ASSUME NEW ok \in BOOLEAN, Open = {}, expected' = Cleared,
             Save(Cleared, authority, ok),
             IF ok THEN pc' = "CLOSED" /\ cur' = expected.identifier ELSE Finish
      PROVE  OwnershipInv'
  <2>1. Loaded' \in {Loaded, Inactive} /\ (ok => Loaded' = Inactive)
    BY <1>1, <1>4, SaveLoads
  <2>2. /\ Known' \subseteq Known
        /\ expected'.active => expected'.identifier \in Signals
        /\ Loaded'.active => Loaded'.identifier \in Signals
    BY <1>1, <1>4, <2>1, KnownFrom
  <2>3. ok => Known' = {}
    BY <1>1, <1>4, <2>1 DEF Known
  <2>4. QED BY <1>1, <1>4, <2>2, <2>3 DEF OwnershipInv, Finish
<1>5. QED
  BY <1>2, <1>3, <1>4 DEF ReconcileClosingDeal, DiscoveryFails, FailClosed

\* A closing deal is reported only for the position in memory, which it clears.
LEMMA TransactionOwns ==
    ASSUME TypeOK, OwnershipInv, NEW t \in Transaction, OnTradeTransaction(t)
    PROVE  OwnershipInv' /\ Silent
<1>1. UNCHANGED <<order, position, foreign>> /\ pc = "idle" /\ authority \in BOOLEAN
  BY DEF OnTradeTransaction, TypeOK
<1>2. CASE ClosingDeal(t) /\ ReconcileClosingDeal /\ UNCHANGED told
  BY <1>1, <1>2, ReconcileClosingOwns DEF ClosingDeal, Silent
<1>3. ASSUME NEW ret \in BOOLEAN, Recover(authority, FALSE, ret), UNCHANGED <<pc, cur>>
      PROVE  OwnershipInv' /\ Silent
  <2>1. /\ Known' \subseteq Known
        /\ expected'.active => expected'.identifier \in Signals
        /\ Loaded'.active => Loaded'.identifier \in Signals
        /\ \A s \in Signals : s \in Open \/ told'[s] = told[s]
        /\ \A s \in Signals : told'[s]["CLOSED"] = told[s]["CLOSED"]
    BY <1>1, <1>3, RecoverKnows
  <2>2. OwnershipInv'
    BY <1>1, <1>3, <2>1 DEF OwnershipInv
  <2>3. Silent
    BY <2>1 DEF Silent, OwnershipInv, Known
  <2>4. QED BY <2>2, <2>3
<1>4. QED BY <1>2, <1>3 DEF OnTradeTransaction

(* The one step that reports a position closed. *)
LEMMA EmitOwns ==
    ASSUME TypeOK, OwnershipInv, EmitTransition
    PROVE  OwnershipInv' /\ Silent
<1>1. /\ pc \in {"OPENED", "PARTIAL", "CLOSED"} /\ cur \in Signals
      /\ told[cur]["CLOSED"] = 0 /\ Tell(cur, pc)
      /\ pc' \in {"idle", "tick"} /\ UNCHANGED <<order, position, expected, store>>
  BY DEF EmitTransition, Finish, NextBar, OwnershipInv, brokerVars
<1>2. Known' = Known /\ Loaded' = Loaded
  BY <1>1 DEF Known, Open, Loaded
<1>3. \A s \in Signals : told'[s]["CLOSED"] =
          IF s = cur /\ pc = "CLOSED" THEN 1 ELSE told[s]["CLOSED"]
  BY <1>1 DEF Tell, TypeOK, Kinds
<1>4. OwnershipInv'
  BY <1>1, <1>2, <1>3 DEF OwnershipInv
<1>5. Silent
  BY <1>1 DEF Tell, TypeOK, Kinds, Silent
<1>6. QED BY <1>4, <1>5

(* The broker opens a position only for an order that was not filled before. *)
LEMMA MarketOwns ==
    ASSUME TypeOK, OwnershipInv, Broker
    PROVE  OwnershipInv' /\ Silent
<1>1. UNCHANGED <<pc, cur, expected, store, told>> /\ Loaded' = Loaded
  BY DEF Broker, FillLate, CancelLate, ClosePosition, PartialClose, ModifyPosition,
         Reticket, ForeignPosition, expertVars, Loaded
<1>2. ASSUME NEW s \in Signals, FillLate(s)
      PROVE  OwnershipInv'
  <2>1. /\ order[s] = "working"
        /\ \A t \in Signals : order'[t] = IF t = s THEN "filled" ELSE order[t]
        /\ \A t \in Open' : t \in Open \/ t = s
    BY <1>2 DEF FillLate, Fill, Open, TypeOK
  <2>2. \A t \in Known' : t \in Known \/ t = s
    BY <1>1, <2>1 DEF Known
  <2>3. Known \subseteq Signals /\ Known' \subseteq Signals
    BY DEF Known, Open
  <2>4. pc \in {"preflight", "send"} => cur \in Signals
    BY DEF TypeOK
  <2>5. pc = "CLOSED" => cur \in Signals
    BY DEF OwnershipInv
  <2>6. QED BY <1>1, <2>1, <2>2, <2>3, <2>4, <2>5 DEF OwnershipInv
<1>3. ASSUME NEW s \in Signals, CancelLate(s)
      PROVE  OwnershipInv'
  <2>1. /\ order[s] = "working"
        /\ \A t \in Signals : order'[t] = IF t = s THEN "dead" ELSE order[t]
        /\ Open' = Open
    BY <1>3 DEF CancelLate, Open, TypeOK
  <2>2. Known' = Known /\ Known \subseteq Signals
    BY <1>1, <2>1 DEF Known, Open
  <2>3. pc \in {"preflight", "send"} => cur \in Signals
    BY DEF TypeOK
  <2>4. QED BY <1>1, <2>1, <2>2, <2>3 DEF OwnershipInv
<1>4. ASSUME UNCHANGED order, Open' \subseteq Open
      PROVE  OwnershipInv'
  <2>1. Known' \subseteq Known
    BY <1>1, <1>4 DEF Known
  <2>2. QED BY <1>1, <1>4, <2>1 DEF OwnershipInv
<1>5. ASSUME NEW s \in Signals, ClosePosition(s)
      PROVE  UNCHANGED order /\ Open' \subseteq Open
  BY <1>5 DEF ClosePosition, NoPosition, Open, TypeOK
<1>6. ASSUME NEW s \in Signals, ModifyPosition(s) \/ Reticket(s)
      PROVE  UNCHANGED order /\ Open' \subseteq Open
  BY <1>6 DEF ModifyPosition, Reticket, Open, TypeOK, Position
<1>7. ASSUME NEW s \in Signals, NEW v \in 1 .. Lots, PartialClose(s, v)
      PROVE  UNCHANGED order /\ Open' \subseteq Open
  <2>1. position[s] \in Position /\ v \in 1 .. position[s].volume - 1
        /\ position' = [position EXCEPT ![s].volume = v] /\ UNCHANGED order
    BY <1>7 DEF PartialClose, TypeOK
  <2>2. position[s].volume > 0
    BY <2>1, EngineAssumption DEF Position
  <2>3. QED BY <2>1, <2>2 DEF Open, TypeOK, Position
<1>8. ForeignPosition => UNCHANGED order /\ Open' \subseteq Open
  BY DEF ForeignPosition, Open
<1>9. QED
  BY <1>1, <1>2, <1>3, <1>4, <1>5, <1>6, <1>7, <1>8 DEF Broker, Silent

-----------------------------------------------------------------------------
(* Every step keeps the ownership invariant and is silent on closed positions. *)
LEMMA NextOwns ==
    ASSUME TypeOK, OwnershipInv, [Next]_vars
    PROVE  OwnershipInv' /\ Silent
<1>1. ASSUME Handlers PROVE OwnershipInv' /\ Silent
  BY <1>1, QuietOwns, PreflightOwns, SendOwns, ReconcileSignalOwns, PersistOwns, EmitOwns,
     TransactionOwns DEF Handlers, TypeOK
<1>2. QED
  BY <1>1, StartOwns, EndOwns, QuietOwns, SubmitOwns, MarketOwns DEF Next

(* The inductive invariant behind the theorems about reports. *)
THEOREM OwnershipInvariant == Spec => []OwnershipInv
<1>1. AuthorityInv => TypeOK
  BY DEF AuthorityInv
<1>2. TypeOK /\ OwnershipInv /\ [Next]_vars => OwnershipInv'
  BY NextOwns
<1>3. QED BY InitOwnershipInv, AuthorityInvariant, <1>1, <1>2, PTL DEF Spec

(***************************************************************************)
(* A position reported closed is gone at the broker, and neither memory    *)
(* nor disk will ever manage it again.                                     *)
(***************************************************************************)
THEOREM ClosedPositionsAreFinal == Spec => []ClosedIsFinal
<1>1. OwnershipInv => ClosedIsFinal
  BY DEF OwnershipInv, ClosedIsFinal, Known
<1>2. QED BY OwnershipInvariant, <1>1, PTL

(***************************************************************************)
(* No step of the expert, of its restarts or of the broker makes it report *)
(* on a position it has reported closed.                                   *)
(***************************************************************************)
THEOREM NothingFollowsClosed == Spec => NothingAfterClosed
<1>1. AuthorityInv => TypeOK
  BY DEF AuthorityInv
<1>2. TypeOK /\ OwnershipInv /\ [Next]_vars
          => [\A s \in Signals : told[s]["CLOSED"] > 0 => told'[s] = told[s]]_vars
  BY NextOwns DEF Silent
<1>3. QED
  BY AuthorityInvariant, OwnershipInvariant, <1>1, <1>2, PTL DEF Spec, NothingAfterClosed

-----------------------------------------------------------------------------
(* How often the expert reports each thing *)

\* The events a position or an order may cause once.
Reports == Kinds \ {"RECOVERED"}

\* The transaction of a deal out of position s that leaves l lots.
Exit(s, l) == [kind |-> "OUT", id |-> s, left |-> l]

\* OPENED is told of filled orders only, and not of what a signal under way meets.
OpenedInv ==
    /\ \A s \in Signals : told[s]["OPENED"] > 0 => order[s] = "filled"
    /\ pc \in {"preflight", "send", "reconcile", "persist"} =>
          \A s \in Open : told[s]["OPENED"] = 0
    /\ pc = "OPENED" => told[cur]["OPENED"] = 0 /\ order[cur] = "filled"

\* The partial closes of position s that the expert has not been given yet, and
\* the one it is about to tell.
Exits(s) == {t \in txns : t.kind = "OUT" /\ t.id = s /\ t.left > 0}
UnderWay(s) == IF pc = "PARTIAL" /\ cur = s THEN 1 ELSE 0

\* Each partial close is in the queue, under way, told or lost; those in the queue
\* left more than each later one, so no two are alike.
PartialInv ==
    /\ IsFiniteSet(txns)
    /\ \A s \in Signals :
        /\ told[s]["PARTIAL"] + Cardinality(Exits(s)) + UnderWay(s) <= partials[s]
        /\ \A t \in Exits(s) : position[s].volume <= t.left
        /\ partials[s] > 0 \/ Exits(s) # {} => order[s] = "filled"
        /\ Exit(s, 0) \in txns => order[s] = "filled" /\ s \notin Open

\* An order is rejected at the end of the handler that sends it.
RejectedInv ==
    /\ \A s \in Signals : order[s] = "new" => told[s]["REJECTED"] = 0
    /\ pc \in {"preflight", "send", "reconcile"} =>
          told[cur]["REJECTED"] = 0 /\ order[cur] # "new"

ReportInv == ReportedOnce /\ OpenedInv /\ PartialInv /\ RejectedInv

\* The counts are numbers.
LEMMA Counts ==
    ASSUME TypeOK
    PROVE  /\ \A s \in Signals, k \in Kinds : told[s][k] \in Nat
           /\ \A s \in Signals : partials[s] \in Nat
BY DEF TypeOK

\* The partial closes in the queue can be counted.
LEMMA ExitsCount ==
    ASSUME PartialInv, NEW s \in Signals
    PROVE  /\ IsFiniteSet(Exits(s)) /\ Cardinality(Exits(s)) \in Nat
           /\ UnderWay(s) \in {0, 1}
<1>1. IsFiniteSet(txns) /\ Exits(s) \in SUBSET txns
  BY DEF PartialInv, Exits
<1>2. IsFiniteSet(Exits(s))
  BY <1>1, FS_Subset, Zenon
<1>3. QED BY <1>2, FS_CardinalityType DEF UnderWay

\* A queue that only shrinks keeps its sizes and members in bounds.
LEMMA ExitsShrink ==
    ASSUME PartialInv, txns' \subseteq txns
    PROVE  /\ IsFiniteSet(txns')
           /\ \A s \in Signals : /\ Exits(s)' \subseteq Exits(s)
                                 /\ Exit(s, 0)' \in txns' => Exit(s, 0) \in txns
<1>1. IsFiniteSet(txns) /\ txns' \in SUBSET txns
  BY DEF PartialInv
<1>2. IsFiniteSet(txns')
  BY <1>1, FS_Subset, Zenon
<1>3. QED BY <1>1, <1>2 DEF Exits, Exit

\* A step that adds no partial close and tells of none.
LEMMA PartialKept ==
    ASSUME TypeOK, PartialInv, IsFiniteSet(txns'), UNCHANGED partials,
           \A s \in Signals :
               /\ Exits(s)' \subseteq Exits(s)
               /\ told'[s]["PARTIAL"] = told[s]["PARTIAL"]
               /\ UnderWay(s)' \in {0, UnderWay(s)}
               /\ position'[s].volume \in {0, position[s].volume} \/ Exits(s) = {}
               /\ order[s] = "filled" => order'[s] = "filled"
               /\ Exit(s, 0)' \in txns' => order'[s] = "filled" /\ s \notin Open'
    PROVE  PartialInv'
<1> SUFFICES ASSUME NEW s \in Signals
    PROVE  /\ told'[s]["PARTIAL"] + Cardinality(Exits(s)') + UnderWay(s)' <= partials'[s]
           /\ \A t \in Exits(s)' : position'[s].volume <= t.left
           /\ partials'[s] > 0 \/ Exits(s)' # {} => order'[s] = "filled"
           /\ Exit(s, 0)' \in txns' => order'[s] = "filled" /\ s \notin Open'
  BY DEF PartialInv
<1>1. /\ IsFiniteSet(Exits(s)) /\ Cardinality(Exits(s)) \in Nat /\ UnderWay(s) \in {0, 1}
      /\ Exits(s)' \in SUBSET Exits(s)
  BY ExitsCount
<1>2. IsFiniteSet(Exits(s)') /\ Cardinality(Exits(s)') <= Cardinality(Exits(s))
  BY <1>1, FS_Subset, Zenon
<1>3. Cardinality(Exits(s)') \in Nat
  BY <1>2, FS_CardinalityType
<1>4. told[s]["PARTIAL"] \in Nat /\ partials[s] \in Nat
  BY Counts DEF Kinds
<1>5. told[s]["PARTIAL"] + Cardinality(Exits(s)) + UnderWay(s) <= partials[s]
  BY DEF PartialInv
<1>6. told'[s]["PARTIAL"] + Cardinality(Exits(s)') + UnderWay(s)' <= partials'[s]
  BY <1>1, <1>2, <1>3, <1>4, <1>5
<1>7. \A t \in Exits(s)' : position'[s].volume <= t.left
  <2>1. ASSUME NEW t \in Exits(s)' PROVE position'[s].volume <= t.left
    <3>1. t \in Exits(s) /\ t.left \in Nat /\ t \in txns
      BY <1>1 DEF Exits, TypeOK, Transaction
    <3>2. position[s].volume <= t.left
      BY <3>1 DEF PartialInv
    <3>3. QED BY <3>1, <3>2
  <2>2. QED BY <2>1
<1>8. partials'[s] > 0 \/ Exits(s)' # {} => order'[s] = "filled"
  BY <1>1 DEF PartialInv
<1>9. QED BY <1>6, <1>7, <1>8

\* An event raises one count by one.
LEMMA TellCounts ==
    ASSUME TypeOK, NEW p \in Signals, NEW k \in Kinds, Tell(p, k)
    PROVE  \A s \in Signals, j \in Kinds :
              told'[s][j] = IF s = p /\ j = k THEN told[s][j] + 1 ELSE told[s][j]
<1>1. [told[p] EXCEPT ![k] = @ + 1] \in [Kinds -> Nat]
  BY DEF TypeOK
<1>2. QED BY <1>1 DEF TypeOK, Tell

(* A recovery announces recoveries only, and whatever fails in it is a fault. *)
LEMMA RecoverReports ==
    ASSUME TypeOK, NEW granted \in BOOLEAN, NEW announce \in BOOLEAN,
           NEW ret \in BOOLEAN, Recover(granted, announce, ret)
    PROVE  \A s \in Signals, k \in Reports : told'[s][k] = told[s][k]
<1>1. ASSUME NEW p \in Open, Tell(p, "RECOVERED")
      PROVE  \A s \in Signals, k \in Reports : told'[s][k] = told[s][k]
  <2>1. p \in Signals /\ "RECOVERED" \in Kinds
    BY DEF Open, Kinds
  <2>2. QED BY <1>1, <2>1, TellCounts DEF Reports
<1>2. QED BY <1>1 DEF Recover

(* A step that moves neither orders nor positions, and reports nothing. *)
LEMMA CalmStep ==
    ASSUME TypeOK, ReportInv, UNCHANGED <<order, position, partials>>, txns' \subseteq txns,
           \A s \in Signals, k \in Reports : told'[s][k] = told[s][k],
           pc' \in {"down", "failed", "idle", "tick", "CLOSED"} \/ UNCHANGED <<pc, cur, told>>
    PROVE  ReportInv'
<1>1. Open' = Open
  BY DEF Open
<1>2. {"OPENED", "PARTIAL", "CLOSED", "REJECTED"} \subseteq Reports
  BY DEF Reports, Kinds
<1>3. ReportedOnce'
  BY <1>2 DEF ReportInv, ReportedOnce
<1>4. OpenedInv' /\ RejectedInv'
  BY <1>1, <1>2 DEF ReportInv, OpenedInv, RejectedInv
<1>5. PartialInv'
  <2>1. \A s \in Signals : UnderWay(s)' \in {0, UnderWay(s)}
    BY DEF UnderWay
  <2>2. /\ IsFiniteSet(txns')
        /\ \A s \in Signals : /\ Exits(s)' \subseteq Exits(s)
                              /\ Exit(s, 0)' \in txns' => Exit(s, 0) \in txns
    BY ExitsShrink DEF ReportInv
  <2>3. \A s \in Signals : Exit(s, 0)' \in txns' => order'[s] = "filled" /\ s \notin Open'
    BY <1>1, <2>2 DEF ReportInv, PartialInv
  <2>4. QED BY <1>2, <2>1, <2>2, <2>3, PartialKept DEF ReportInv
<1>6. QED BY <1>3, <1>4, <1>5 DEF ReportInv

\* Nothing was ever reported.
LEMMA InitReportInv == Init => ReportInv
<1> SUFFICES ASSUME Init PROVE ReportInv
  OBVIOUS
<1>1. \A s \in Signals, k \in Kinds : told[s][k] = 0
  BY DEF Init
<1>2. \A s \in Signals : Exits(s) = {} /\ UnderWay(s) = 0 /\ partials[s] = 0
  BY DEF Init, Exits, UnderWay
<1>3. PartialInv
  BY <1>1, <1>2, FS_EmptySet DEF Init, PartialInv, Kinds
<1>4. QED
  BY <1>1, <1>2, <1>3 DEF Init, ReportInv, ReportedOnce, OpenedInv, RejectedInv, Kinds

\* Starting, ending, and what the panel and the data do.
LEMMA ProcessReports ==
    ASSUME TypeOK, ReportInv,
           Start \/ Unload \/ Crash \/ RefreshEntryGate \/ DataFault \/ EndTick \/ UNCHANGED vars
    PROVE  ReportInv'
<1>1. CASE Start
  <2>1. PICK ret \in BOOLEAN : /\ Recover(TRUE, TRUE, ret)
                               /\ pc' = IF ret THEN "idle" ELSE "failed"
    BY <1>1 DEF Start
  <2>2. \A s \in Signals, k \in Reports : told'[s][k] = told[s][k]
    BY <2>1, RecoverReports
  <2>3. QED BY <1>1, <2>1, <2>2, CalmStep DEF Start, brokerVars
<1>2. CASE Unload \/ Crash
  BY <1>2, CalmStep DEF Unload, Crash, Reset
<1>3. CASE RefreshEntryGate \/ DataFault \/ EndTick \/ UNCHANGED vars
  BY <1>3, CalmStep DEF RefreshEntryGate, DataFault, EndTick, vars, brokerVars
<1>4. QED BY <1>1, <1>2, <1>3

\* A step that leaves the queue and the positions alone and tells of no partial close.
LEMMA StillPartial ==
    ASSUME TypeOK, PartialInv, UNCHANGED <<position, txns, partials>>,
           \A s \in Signals : order[s] = "filled" => order'[s] = "filled",
           \A s \in Signals : told'[s]["PARTIAL"] = told[s]["PARTIAL"],
           pc' # "PARTIAL"
    PROVE  PartialInv'
<1>1. \A s \in Signals : Exits(s)' = Exits(s) /\ UnderWay(s)' = 0 /\ Exit(s, 0)' = Exit(s, 0)
  BY DEF Exits, UnderWay, Exit
<1>2. Open' = Open
  BY DEF Open
<1>3. \A s \in Signals : Exit(s, 0)' \in txns' => order'[s] = "filled" /\ s \notin Open'
  BY <1>1, <1>2 DEF PartialInv
<1>4. IsFiniteSet(txns')
  BY DEF PartialInv
<1>5. QED BY <1>1, <1>3, <1>4, PartialKept

\* A signal is taken up once, from an account without a position.
LEMMA SubmitReports ==
    ASSUME TypeOK, ReportInv, NEW s \in Signals, SubmitSignalPlan(s)
    PROVE  ReportInv'
<1>1. PICK ret \in BOOLEAN :
        /\ Recover(authority, FALSE, ret)
        /\ order' = [order EXCEPT ![s] = IF Proceed(ret) THEN "checked" ELSE "dropped"]
        /\ pc' = IF Proceed(ret) THEN "preflight" ELSE "tick"
        /\ cur' = IF Proceed(ret) THEN s ELSE 0
  BY DEF SubmitSignalPlan
<1>2. \A t \in Signals, k \in Reports : told'[t][k] = told[t][k]
  BY <1>1, RecoverReports DEF TypeOK
<1>3. /\ order[s] = "new" /\ UNCHANGED <<position, txns, partials>> /\ Open' = Open
      /\ pc \in {"idle", "tick"}
      /\ \A t \in Signals : order'[t] = "filled" <=> order[t] = "filled"
      /\ \A t \in Signals : order'[t] = "new" => order[t] = "new"
      /\ order'[s] # "new"
  BY <1>1 DEF SubmitSignalPlan, Open, TypeOK
<1>4. {"OPENED", "PARTIAL", "CLOSED", "REJECTED"} \subseteq Reports
  BY DEF Reports, Kinds
<1>5. pc' = "tick" \/ (pc' = "preflight" /\ cur' = s /\ Open = {})
  BY <1>1 DEF Proceed
<1>6. ReportedOnce'
  BY <1>2, <1>3, <1>4 DEF ReportInv, ReportedOnce
<1>7. OpenedInv' /\ RejectedInv'
  BY <1>2, <1>3, <1>4, <1>5 DEF ReportInv, OpenedInv, RejectedInv
<1>8. PartialInv'
  BY <1>2, <1>3, <1>4, <1>5, StillPartial DEF ReportInv
<1>9. QED BY <1>6, <1>7, <1>8 DEF ReportInv

\* A rejection ends the handler of an order that was not rejected before.
LEMMA PreflightReports ==
    ASSUME TypeOK, OwnershipInv, ReportInv, Preflight
    PROVE  ReportInv'
<1>1. /\ pc = "preflight" /\ cur \in Signals /\ order[cur] = "checked"
      /\ UNCHANGED <<position, txns, partials>> /\ Open' = Open
  BY DEF Preflight, TypeOK, OwnershipInv, Open
<1>2. /\ \A t \in Signals : order'[t] = "filled" <=> order[t] = "filled"
      /\ \A t \in Signals : order'[t] = "new" <=> order[t] = "new"
  BY <1>1 DEF Preflight, TypeOK
<1>3. \/ pc' = "tick" /\ Tell(cur, "REJECTED")
      \/ pc' = "tick" /\ UNCHANGED told
      \/ pc' = "send" /\ UNCHANGED <<cur, told>>
  BY DEF Preflight, NextBar
<1>4. CASE UNCHANGED told
  BY <1>1, <1>2, <1>3, <1>4, StillPartial
     DEF ReportInv, ReportedOnce, OpenedInv, RejectedInv
<1>5. CASE pc' = "tick" /\ Tell(cur, "REJECTED")
  <2>1. \A t \in Signals, k \in Kinds :
            told'[t][k] = IF t = cur /\ k = "REJECTED" THEN told[t][k] + 1 ELSE told[t][k]
    BY <1>1, <1>5, TellCounts DEF Kinds
  <2>2. told[cur]["REJECTED"] = 0
    BY <1>1 DEF ReportInv, RejectedInv
  <2>3. ReportedOnce'
    BY <1>1, <2>1, <2>2 DEF ReportInv, ReportedOnce, Kinds
  <2>4. OpenedInv' /\ RejectedInv'
    BY <1>1, <1>2, <1>5, <2>1 DEF ReportInv, OpenedInv, RejectedInv, Kinds
  <2>5. PartialInv'
    BY <1>1, <1>2, <1>5, <2>1, StillPartial DEF ReportInv, Kinds
  <2>6. QED BY <2>3, <2>4, <2>5 DEF ReportInv
<1>6. QED BY <1>3, <1>4, <1>5

\* So does the one after an ambiguous answer.
LEMMA ReconcileSignalReports ==
    ASSUME TypeOK, OwnershipInv, ReportInv, ReconcileSignalPosition
    PROVE  ReportInv'
<1>1. /\ pc = "reconcile" /\ cur \in Signals
      /\ UNCHANGED <<order, position, txns, partials>> /\ Open' = Open
  BY DEF ReconcileSignalPosition, OwnershipInv, Open, brokerVars
<1>2. \/ pc' = "tick" /\ Tell(cur, "REJECTED")
      \/ pc' = "persist" /\ UNCHANGED <<cur, told>>
  BY DEF ReconcileSignalPosition, NextBar
<1>3. CASE pc' = "persist" /\ UNCHANGED <<cur, told>>
  BY <1>1, <1>3, StillPartial
     DEF ReportInv, ReportedOnce, OpenedInv, RejectedInv
<1>4. CASE pc' = "tick" /\ Tell(cur, "REJECTED")
  <2>1. \A t \in Signals, k \in Kinds :
            told'[t][k] = IF t = cur /\ k = "REJECTED" THEN told[t][k] + 1 ELSE told[t][k]
    BY <1>1, <1>4, TellCounts DEF Kinds
  <2>2. told[cur]["REJECTED"] = 0 /\ order[cur] # "new"
    BY <1>1 DEF ReportInv, RejectedInv
  <2>3. ReportedOnce'
    BY <1>1, <2>1, <2>2 DEF ReportInv, ReportedOnce, Kinds
  <2>4. OpenedInv' /\ RejectedInv'
    BY <1>1, <1>4, <2>1, <2>2 DEF ReportInv, OpenedInv, RejectedInv, Kinds
  <2>5. PartialInv'
    BY <1>1, <1>4, <2>1, StillPartial DEF ReportInv, Kinds
  <2>6. QED BY <2>3, <2>4, <2>5 DEF ReportInv
<1>5. QED BY <1>2, <1>3, <1>4

\* The order sent has not been filled, so nothing was told of its position.
LEMMA SendReports ==
    ASSUME TypeOK, OwnershipInv, ReportInv,
           NEW answer \in {"success", "ambiguous", "refused"},
           NEW outcome \in {"filled", "working", "dead"}, SendOrder(answer, outcome)
    PROVE  ReportInv'
<1>1. /\ pc = "send" /\ cur \in Signals /\ order[cur] = "checked"
      /\ told[cur]["REJECTED"] = 0
  BY DEF SendOrder, TypeOK, OwnershipInv, ReportInv, RejectedInv
<1>2. \A s \in Signals : order'[s] = IF s = cur THEN outcome ELSE order[s]
  BY <1>1 DEF SendOrder, TypeOK
<1>3. /\ \A s \in Signals : s # cur => position'[s] = position[s]
      /\ \A s \in Signals : Exits(s)' = Exits(s)
      /\ \A s \in Signals : Exit(s, 0)' \in txns' => Exit(s, 0) \in txns
      /\ IsFiniteSet(txns') /\ UNCHANGED partials
  <2>1. IsFiniteSet(txns)
    BY DEF ReportInv, PartialInv
  <2>2. CASE outcome = "filled"
    <3>1. position' = [position EXCEPT ![cur] = NewPosition]
      BY <2>2 DEF SendOrder, Fill
    <3>2. txns' = txns \cup {[kind |-> "IN", id |-> cur, left |-> 0]}
      BY <1>1, <2>2 DEF SendOrder, Fill, Notify, Running
    <3>3. IsFiniteSet(txns')
      BY <2>1, <3>2, FS_AddElement
    <3>4. QED BY <3>1, <3>2, <3>3 DEF Exits, Exit, TypeOK, SendOrder
  <2>3. CASE outcome # "filled"
    BY <2>1, <2>3 DEF SendOrder, Exits, Exit
  <2>4. QED BY <2>2, <2>3
<1>4. \/ pc' = "tick" /\ Tell(cur, "REJECTED")
      \/ pc' \in {"persist", "reconcile"} /\ UNCHANGED <<cur, told>>
  BY DEF SendOrder, NextBar
<1>5. \A s \in Signals, k \in Kinds :
          told'[s][k] = IF s = cur /\ k = "REJECTED" /\ pc' = "tick"
                        THEN told[s][k] + 1 ELSE told[s][k]
  <2>1. CASE pc' = "tick" /\ Tell(cur, "REJECTED")
    BY <1>1, <2>1, TellCounts DEF Kinds
  <2>2. CASE pc' \in {"persist", "reconcile"} /\ UNCHANGED <<cur, told>>
    BY <2>2
  <2>3. QED BY <1>4, <2>1, <2>2
<1>6. ReportedOnce'
  BY <1>1, <1>3, <1>5 DEF ReportInv, ReportedOnce, Kinds
<1>7. told[cur]["OPENED"] = 0
  BY <1>1, Counts DEF ReportInv, OpenedInv, Kinds
<1>8. \A s \in Open' : s \in Open \/ s = cur
  BY <1>3 DEF Open
<1>9. OpenedInv'
  BY <1>1, <1>2, <1>4, <1>5, <1>7, <1>8, Counts DEF ReportInv, OpenedInv, Kinds
<1>10. RejectedInv'
  BY <1>1, <1>2, <1>4, <1>5 DEF ReportInv, RejectedInv, Kinds
<1>11. PartialInv'
  <2>1. \A s \in Signals : told'[s]["PARTIAL"] = told[s]["PARTIAL"] /\ UnderWay(s)' = 0
    BY <1>4, <1>5 DEF Kinds, UnderWay
  <2>2. Exits(cur) = {} /\ Exit(cur, 0) \notin txns
    BY <1>1 DEF ReportInv, PartialInv
  <2>3. ASSUME NEW s \in Signals
        PROVE  /\ Exits(s)' \subseteq Exits(s)
               /\ position'[s].volume \in {0, position[s].volume} \/ Exits(s) = {}
               /\ order[s] = "filled" => order'[s] = "filled"
               /\ Exit(s, 0)' \in txns' => order'[s] = "filled" /\ s \notin Open'
    <3>1. CASE s = cur
      BY <1>1, <1>3, <2>2, <3>1
    <3>2. CASE s # cur
      BY <1>2, <1>3, <3>2 DEF ReportInv, PartialInv, Open
    <3>3. QED BY <3>1, <3>2
  <2>4. QED BY <1>3, <2>1, <2>3, PartialKept DEF ReportInv
<1>12. QED BY <1>6, <1>9, <1>10, <1>11 DEF ReportInv

\* The position adopted is open, and was not there when the signal was taken up.
LEMMA PersistReports ==
    ASSUME TypeOK, OwnershipInv, ReportInv, PersistSubmittedPosition
    PROVE  ReportInv'
<1>1. UNCHANGED <<order, position, txns, partials, told>> /\ pc = "persist"
  BY DEF PersistSubmittedPosition, brokerVars
<1>2. CASE NextBar
  BY <1>1, <1>2, CalmStep DEF NextBar
<1>3. ASSUME NEW p \in Open, pc' = "OPENED", cur' = p
      PROVE  ReportInv'
  <2>1. told[p]["OPENED"] = 0 /\ order[p] = "filled" /\ p \in Signals /\ Open' = Open
    BY <1>1 DEF ReportInv, OpenedInv, OwnershipInv, Known, Open
  <2>2. QED
    BY <1>1, <1>3, <2>1, StillPartial
       DEF ReportInv, ReportedOnce, OpenedInv, RejectedInv
<1>4. QED BY <1>2, <1>3 DEF PersistSubmittedPosition

\* The deal that closed a part leaves the queue before its event is told.
LEMMA TransactionReports ==
    ASSUME TypeOK, OwnershipInv, ReportInv, NEW t \in Transaction, OnTradeTransaction(t)
    PROVE  ReportInv'
<1>1. /\ UNCHANGED <<order, position, partials>> /\ pc = "idle" /\ txns' = txns \ {t}
      /\ t \in txns /\ Open' = Open
  BY DEF OnTradeTransaction, Open
<1>2. CASE \E ret \in BOOLEAN : Recover(authority, FALSE, ret) /\ UNCHANGED <<pc, cur>>
  <2>1. \A s \in Signals, k \in Reports : told'[s][k] = told[s][k]
    BY <1>2, RecoverReports DEF TypeOK
  <2>2. QED BY <1>1, <1>2, <2>1, CalmStep
<1>3. CASE UNCHANGED told /\ pc' \in {"idle", "CLOSED"}
  BY <1>1, <1>3, CalmStep
<1>4. ASSUME UNCHANGED told, ClosingDeal(t), Open = {expected.identifier},
             pc' = "PARTIAL", cur' = expected.identifier
      PROVE  ReportInv'
  <2> DEFINE p == expected.identifier
  <2>1. p \in Open /\ p \in Signals
    BY <1>4 DEF Open
  <2>2. t \in Exits(p)
    <3>1. t.kind = "OUT" /\ t.id = p /\ t.left \in Nat /\ (t.left = 0 => t = Exit(p, 0))
      BY <1>4 DEF ClosingDeal, Exit, Transaction
    <3>2. Exit(p, 0) \notin txns
      BY <2>1 DEF ReportInv, PartialInv
    <3>3. t # Exit(p, 0)
      BY <1>1, <3>2
    <3>4. QED BY <1>1, <3>1, <3>3 DEF Exits
  <2>3. ReportedOnce' /\ OpenedInv' /\ RejectedInv'
    BY <1>1, <1>4 DEF ReportInv, ReportedOnce, OpenedInv, RejectedInv
  <2>4. PartialInv'
    <3>1. IsFiniteSet(txns') /\ \A s \in Signals : Exits(s)' = Exits(s) \ {t}
      <4>1. IsFiniteSet(txns)
        BY DEF ReportInv, PartialInv
      <4>2. QED BY <1>1, <4>1, FS_RemoveElement DEF Exits
    <3>2. ASSUME NEW s \in Signals
          PROVE  told'[s]["PARTIAL"] + Cardinality(Exits(s)') + UnderWay(s)' <= partials'[s]
      <4>1. IsFiniteSet(Exits(s)) /\ Cardinality(Exits(s)) \in Nat /\ UnderWay(s) = 0
        BY <1>1, ExitsCount DEF ReportInv, UnderWay
      <4>2. Cardinality(Exits(s) \ {t}) =
                IF t \in Exits(s) THEN Cardinality(Exits(s)) - 1 ELSE Cardinality(Exits(s))
        BY <4>1, FS_RemoveElement
      <4>3. UnderWay(s)' = IF s = p THEN 1 ELSE 0
        BY <1>4 DEF UnderWay
      <4>4. told[s]["PARTIAL"] + Cardinality(Exits(s)) + UnderWay(s) <= partials[s]
        BY DEF ReportInv, PartialInv
      <4>5. told[s]["PARTIAL"] \in Nat /\ partials[s] \in Nat
        BY Counts DEF Kinds
      <4>6. s # p => t \notin Exits(s)
        BY <2>2 DEF Exits
      <4>7. CASE s = p
        <5>1. Cardinality(Exits(s)') = Cardinality(Exits(s)) - 1 /\ UnderWay(s)' = 1
          BY <2>2, <3>1, <4>2, <4>3, <4>7
        <5>2. told'[s]["PARTIAL"] = told[s]["PARTIAL"] /\ partials'[s] = partials[s]
          BY <1>1, <1>4
        <5>3. QED BY <4>1, <4>4, <4>5, <5>1, <5>2
      <4>8. CASE s # p
        <5>1. Cardinality(Exits(s)') = Cardinality(Exits(s)) /\ UnderWay(s)' = 0
          BY <3>1, <4>2, <4>3, <4>6, <4>8
        <5>2. told'[s]["PARTIAL"] = told[s]["PARTIAL"] /\ partials'[s] = partials[s]
          BY <1>1, <1>4
        <5>3. QED BY <4>1, <4>4, <4>5, <5>1, <5>2
      <4>9. QED BY <4>7, <4>8
    <3>3. ASSUME NEW s \in Signals
          PROVE  /\ \A u \in Exits(s)' : position'[s].volume <= u.left
                 /\ partials'[s] > 0 \/ Exits(s)' # {} => order'[s] = "filled"
                 /\ Exit(s, 0)' \in txns' => order'[s] = "filled" /\ s \notin Open'
      BY <1>1, <3>1 DEF ReportInv, PartialInv, Exit
    <3>4. QED BY <3>1, <3>2, <3>3 DEF PartialInv
  <2>5. QED BY <2>3, <2>4 DEF ReportInv
<1>5. \/ \E ret \in BOOLEAN : Recover(authority, FALSE, ret) /\ UNCHANGED <<pc, cur>>
      \/ UNCHANGED told /\ pc' \in {"idle", "CLOSED"}
      \/ /\ UNCHANGED told /\ ClosingDeal(t) /\ Open = {expected.identifier}
         /\ pc' = "PARTIAL" /\ cur' = expected.identifier
  BY DEF OnTradeTransaction, ReconcileClosingDeal, Finish
<1>6. QED BY <1>2, <1>3, <1>4, <1>5

\* Each of the three handlers tells what it has not told before.
LEMMA EmitReports ==
    ASSUME TypeOK, OwnershipInv, ReportInv, EmitTransition
    PROVE  ReportInv'
<1>1. /\ pc \in {"OPENED", "PARTIAL", "CLOSED"} /\ cur \in Signals /\ pc' \in {"idle", "tick"}
      /\ UNCHANGED <<order, position, txns, partials>> /\ Open' = Open
  BY DEF EmitTransition, Finish, NextBar, OwnershipInv, brokerVars, Open
<1>2. \A s \in Signals, k \in Kinds :
          told'[s][k] = IF s = cur /\ k = pc THEN told[s][k] + 1 ELSE told[s][k]
  BY <1>1, TellCounts DEF EmitTransition, Kinds
<1>3. pc \in {"OPENED", "CLOSED"} => told[cur][pc] = 0
  BY <1>1 DEF ReportInv, OpenedInv, OwnershipInv
<1>4. ASSUME NEW s \in Signals
      PROVE  /\ told'[s]["PARTIAL"] + UnderWay(s)' = told[s]["PARTIAL"] + UnderWay(s)
             /\ told'[s]["PARTIAL"] <= partials[s]
             /\ Cardinality(Exits(s)) \in Nat
             /\ told'[s]["PARTIAL"] + Cardinality(Exits(s)) + UnderWay(s)' <= partials[s]
  <2>1. /\ told[s]["PARTIAL"] \in Nat /\ partials[s] \in Nat
        /\ Cardinality(Exits(s)) \in Nat /\ UnderWay(s) \in {0, 1} /\ UnderWay(s)' = 0
    BY <1>1, ExitsCount, Counts DEF ReportInv, Kinds, UnderWay
  <2>2. told'[s]["PARTIAL"] = told[s]["PARTIAL"] + UnderWay(s)
    BY <1>2, <2>1 DEF UnderWay, Kinds
  <2>3. told[s]["PARTIAL"] + Cardinality(Exits(s)) + UnderWay(s) <= partials[s]
    BY DEF ReportInv, PartialInv
  <2>4. QED BY <2>1, <2>2, <2>3
<1>5. ReportedOnce'
  BY <1>1, <1>2, <1>3, <1>4 DEF ReportInv, ReportedOnce, Kinds
<1>6. OpenedInv' /\ RejectedInv'
  BY <1>1, <1>2 DEF ReportInv, OpenedInv, RejectedInv, Kinds
<1>7. PartialInv'
  <2>1. \A s \in Signals : Exits(s)' = Exits(s) /\ Exit(s, 0)' = Exit(s, 0)
    BY <1>1 DEF Exits, Exit
  <2>2. QED BY <1>1, <1>4, <2>1 DEF ReportInv, PartialInv
<1>8. QED BY <1>5, <1>6, <1>7 DEF ReportInv

\* The broker closes less than a part closed before, and all of it in the end.
LEMMA MarketReports ==
    ASSUME TypeOK, OwnershipInv, ReportInv, Broker
    PROVE  ReportInv'
<1>1. UNCHANGED <<pc, cur, told>> /\ \A s \in Signals : UnderWay(s)' = UnderWay(s)
  BY DEF Broker, FillLate, CancelLate, ClosePosition, PartialClose, ModifyPosition,
         Reticket, ForeignPosition, expertVars, UnderWay
<1>2. /\ \A s \in Signals, k \in {"OPENED", "PARTIAL"} : told[s][k] \in Nat
      /\ \A s \in Signals : partials[s] \in Nat
      /\ IsFiniteSet(txns) /\ PartialInv
  BY Counts DEF Kinds, ReportInv, PartialInv
<1>3. UNCHANGED partials => ReportedOnce'
  BY <1>1 DEF ReportInv, ReportedOnce
<1>4. \A s \in Open : order[s] = "filled"
  BY DEF OwnershipInv, Known
<1>5. ASSUME NEW t, Notify(t) PROVE IsFiniteSet(txns') /\ txns' \subseteq txns \cup {t}
  BY <1>2, <1>5, FS_AddElement DEF Notify
<1>6. ASSUME NEW s \in Signals, FillLate(s) PROVE ReportInv'
  <2>1. /\ order[s] = "working" /\ UNCHANGED partials
        /\ \A t \in Signals : order'[t] = IF t = s THEN "filled" ELSE order[t]
        /\ \A t \in Signals : t # s => position'[t] = position[t]
        /\ \A t \in Signals : t # s /\ t \in Open' => t \in Open
    BY <1>6 DEF FillLate, Fill, Open, TypeOK
  <2>2. \A t \in Open' : t \in Open \/ t = s
    BY <2>1 DEF Open
  <2>3. told[s]["OPENED"] = 0
    BY <1>2, <2>1 DEF ReportInv, OpenedInv
  <2>4. OpenedInv' /\ RejectedInv'
    <3>1. pc = "OPENED" => cur \in Signals
      BY DEF OwnershipInv
    <3>2. pc \in {"preflight", "send", "reconcile"} => cur \in Signals
      BY DEF TypeOK, OwnershipInv
    <3>3. QED
      BY <1>1, <2>1, <2>2, <2>3, <3>1, <3>2 DEF ReportInv, OpenedInv, RejectedInv
  <2>5. Exits(s) = {} /\ Exit(s, 0) \notin txns
    BY <1>2, <2>1 DEF PartialInv
  <2>6. /\ IsFiniteSet(txns')
        /\ \A t \in Signals : /\ Exits(t)' \subseteq Exits(t)
                              /\ Exit(t, 0)' \in txns' => Exit(t, 0) \in txns
    <3>1. Notify([kind |-> "IN", id |-> s, left |-> 0])
      BY <1>6 DEF FillLate, Fill
    <3>2. IsFiniteSet(txns') /\ txns' \subseteq txns \cup {[kind |-> "IN", id |-> s, left |-> 0]}
      BY <1>5, <3>1
    <3>3. QED BY <3>2 DEF Exits, Exit
  <2>7. PartialInv'
    <3>1. ASSUME NEW t \in Signals
          PROVE  /\ told'[t]["PARTIAL"] = told[t]["PARTIAL"]
                 /\ UnderWay(t)' \in {0, UnderWay(t)}
                 /\ position'[t].volume \in {0, position[t].volume} \/ Exits(t) = {}
                 /\ order[t] = "filled" => order'[t] = "filled"
                 /\ Exit(t, 0)' \in txns' => order'[t] = "filled" /\ t \notin Open'
      BY <1>1, <1>2, <2>1, <2>5, <2>6 DEF PartialInv
    <3>2. QED BY <1>2, <2>1, <2>6, <3>1, PartialKept
  <2>8. QED BY <1>3, <2>1, <2>4, <2>7 DEF ReportInv
<1>7. ASSUME NEW s \in Signals, CancelLate(s) PROVE ReportInv'
  <2>1. /\ UNCHANGED <<position, txns, partials>> /\ Open' = Open
        /\ \A t \in Signals : order[t] = "filled" => order'[t] = "filled"
        /\ \A t \in Signals : order'[t] = "new" <=> order[t] = "new"
    BY <1>7 DEF CancelLate, Open, TypeOK
  <2>2. OpenedInv' /\ RejectedInv'
    <3>1. pc = "OPENED" => cur \in Signals
      BY DEF OwnershipInv
    <3>2. pc \in {"preflight", "send", "reconcile"} => cur \in Signals
      BY DEF TypeOK, OwnershipInv
    <3>3. QED BY <1>1, <2>1, <3>1, <3>2 DEF ReportInv, OpenedInv, RejectedInv
  <2>3. PartialInv'
    <3>1. \A t \in Signals : Exits(t)' = Exits(t) /\ Exit(t, 0)' = Exit(t, 0)
      BY <2>1 DEF Exits, Exit
    <3>2. \A t \in Signals : Exit(t, 0)' \in txns' => order'[t] = "filled" /\ t \notin Open'
      BY <1>2, <2>1, <3>1 DEF PartialInv
    <3>3. QED BY <1>1, <1>2, <2>1, <3>1, <3>2, PartialKept
  <2>4. QED BY <1>3, <2>1, <2>2, <2>3 DEF ReportInv
<1>8. ASSUME UNCHANGED order, Open' \subseteq Open PROVE OpenedInv' /\ RejectedInv'
  BY <1>1, <1>8 DEF ReportInv, OpenedInv, RejectedInv
<1>9. ASSUME UNCHANGED <<order, partials>>, NEW t, Notify(t),
             \A s \in Signals : ~(t.kind = "OUT" /\ t.id = s /\ t.left > 0),
             \A s \in Signals : t = Exit(s, 0) => order[s] = "filled" /\ s \notin Open',
             \A s \in Signals : position'[s].volume \in {0, position[s].volume}
      PROVE  ReportInv'
  <2>1. Open' \subseteq Open
    BY <1>9 DEF Open
  <2>2. /\ IsFiniteSet(txns')
        /\ \A s \in Signals : /\ Exits(s)' \subseteq Exits(s)
                              /\ Exit(s, 0)' \in txns' => Exit(s, 0) \in txns \/ t = Exit(s, 0)
    <3>1. IsFiniteSet(txns') /\ txns' \subseteq txns \cup {t}
      BY <1>5, <1>9
    <3>2. QED BY <1>9, <3>1 DEF Exits, Exit
  <2>3. \A s \in Signals : Exit(s, 0)' \in txns' => order'[s] = "filled" /\ s \notin Open'
    BY <1>2, <1>9, <2>1, <2>2 DEF PartialInv
  <2>4. PartialInv'
    BY <1>1, <1>2, <1>9, <2>2, <2>3, PartialKept
  <2>5. QED BY <1>3, <1>8, <1>9, <2>1, <2>4 DEF ReportInv
<1>10. ASSUME NEW s \in Signals, ClosePosition(s) PROVE ReportInv'
  <2>1. /\ UNCHANGED <<order, partials>> /\ order[s] = "filled"
        /\ Notify(Exit(s, 0)) /\ Exit(s, 0).left = 0
        /\ \A t \in Signals : position'[t] = IF t = s THEN NoPosition ELSE position[t]
    BY <1>4, <1>10 DEF ClosePosition, TypeOK, Exit
  <2>2. s \notin Open' /\ \A t \in Signals : position'[t].volume \in {0, position[t].volume}
    BY <2>1 DEF Open, NoPosition
  <2>3. \A t \in Signals : Exit(s, 0) = Exit(t, 0) => t = s
    BY DEF Exit
  <2>4. QED BY <1>9, <2>1, <2>2, <2>3
<1>11. ASSUME NEW s \in Signals, NEW v \in 1 .. Lots, PartialClose(s, v) PROVE ReportInv'
  <2>1. /\ UNCHANGED order /\ position[s].volume \in Nat /\ v \in Nat
        /\ v > 0 /\ v < position[s].volume
        /\ \A t \in Signals : t # s => position'[t] = position[t]
        /\ position'[s].volume = v /\ s \in Open /\ order[s] = "filled"
    <3>1. /\ position[s] \in Position /\ v \in 1 .. position[s].volume - 1
          /\ position' = [position EXCEPT ![s].volume = v] /\ UNCHANGED order
      BY <1>11 DEF PartialClose, TypeOK
    <3>2. position[s].volume \in Nat /\ v \in Nat /\ v > 0 /\ v < position[s].volume
      BY <3>1, EngineAssumption DEF Position
    <3>3. s \in Open
      BY <3>2 DEF Open
    <3>4. position'[s].volume = v /\ \A t \in Signals : t # s => position'[t] = position[t]
      BY <3>1 DEF TypeOK, Position
    <3>5. QED BY <1>4, <3>1, <3>2, <3>3, <3>4
  <2>2. \A t \in Signals : partials'[t] = IF t = s THEN partials[t] + 1 ELSE partials[t]
    BY <1>11 DEF PartialClose, TypeOK
  <2>3. Open' \subseteq Open
    BY <2>1 DEF Open
  <2>4. ReportedOnce'
    BY <1>1, <1>2, <2>2 DEF ReportInv, ReportedOnce, Kinds
  <2>5. Notify(Exit(s, v)) /\ IsFiniteSet(txns') /\ txns' \subseteq txns \cup {Exit(s, v)}
    BY <1>5, <1>11 DEF PartialClose, Exit
  <2>6. \A t \in Signals : t # s => Exits(t)' \subseteq Exits(t)
    BY <2>5 DEF Exits, Exit
  <2>7. Exits(s)' \subseteq Exits(s) \cup {Exit(s, v)} /\ Exit(s, v).left = v
    BY <2>5 DEF Exits, Exit
  <2>8. \A t \in Signals : Exit(t, 0)' \in txns' => Exit(t, 0) \in txns
    BY <2>1, <2>5 DEF Exit
  <2>9. ASSUME NEW t \in Signals
        PROVE  told'[t]["PARTIAL"] + Cardinality(Exits(t)') + UnderWay(t)' <= partials'[t]
    <3>1. /\ IsFiniteSet(Exits(t)) /\ Cardinality(Exits(t)) \in Nat /\ UnderWay(t) \in {0, 1}
          /\ told[t]["PARTIAL"] + Cardinality(Exits(t)) + UnderWay(t) <= partials[t]
      BY <1>2, ExitsCount DEF PartialInv
    <3>2. CASE t = s
      <4>1. IsFiniteSet(Exits(s) \cup {Exit(s, v)})
            /\ Cardinality(Exits(s) \cup {Exit(s, v)}) \in
                  {Cardinality(Exits(s)), Cardinality(Exits(s)) + 1}
        BY <3>1, <3>2, FS_AddElement
      <4>2. Exits(s)' \in SUBSET (Exits(s) \cup {Exit(s, v)})
        BY <2>7
      <4>3. /\ IsFiniteSet(Exits(s)')
            /\ Cardinality(Exits(s)') <= Cardinality(Exits(s) \cup {Exit(s, v)})
        BY <4>1, <4>2, FS_Subset, Zenon
      <4>4. Cardinality(Exits(s)') \in Nat
        BY <4>3, FS_CardinalityType
      <4>5. Cardinality(Exits(s)') <= Cardinality(Exits(s)) + 1
        BY <3>1, <3>2, <4>1, <4>3, <4>4
      <4>6. partials'[t] = partials[t] + 1 /\ told'[t]["PARTIAL"] = told[t]["PARTIAL"]
            /\ UnderWay(t)' = UnderWay(t)
        BY <1>1, <2>2, <3>2
      <4>7. QED BY <1>2, <3>1, <3>2, <4>4, <4>5, <4>6
    <3>3. CASE t # s
      <4>1. Exits(t)' \in SUBSET Exits(t)
        BY <2>6, <3>3
      <4>2. IsFiniteSet(Exits(t)') /\ Cardinality(Exits(t)') <= Cardinality(Exits(t))
        BY <3>1, <4>1, FS_Subset, Zenon
      <4>3. Cardinality(Exits(t)') \in Nat
        BY <4>2, FS_CardinalityType
      <4>4. partials'[t] = partials[t] /\ told'[t]["PARTIAL"] = told[t]["PARTIAL"]
            /\ UnderWay(t)' = UnderWay(t)
        BY <1>1, <2>2, <3>3
      <4>5. QED BY <1>2, <3>1, <4>2, <4>3, <4>4
    <3>4. QED BY <3>2, <3>3
  <2>10. ASSUME NEW t \in Signals
         PROVE  /\ \A u \in Exits(t)' : position'[t].volume <= u.left
                /\ partials'[t] > 0 \/ Exits(t)' # {} => order'[t] = "filled"
                /\ Exit(t, 0)' \in txns' => order'[t] = "filled" /\ t \notin Open'
    <3>1. CASE t = s
      <4>1. ASSUME NEW u \in Exits(s) PROVE v <= u.left
        <5>1. position[s].volume <= u.left
          BY <1>2, <4>1 DEF PartialInv
        <5>2. u \in Transaction
          BY <4>1 DEF Exits, TypeOK
        <5>3. u.left \in Nat
          BY <5>2, EngineAssumption DEF Transaction
        <5>4. QED BY <2>1, <5>1, <5>3
      <4>2. QED BY <1>2, <2>1, <2>3, <2>7, <2>8, <3>1, <4>1 DEF PartialInv
    <3>2. CASE t # s
      <4>1. Exits(t)' \subseteq Exits(t) /\ partials'[t] = partials[t]
            /\ position'[t] = position[t] /\ order' = order
        BY <2>1, <2>2, <2>6, <3>2
      <4>2. QED BY <1>2, <2>3, <2>8, <4>1 DEF PartialInv
    <3>3. QED BY <3>1, <3>2
  <2>11. PartialInv'
    BY <2>5, <2>9, <2>10 DEF PartialInv
  <2>12. QED BY <1>8, <2>1, <2>3, <2>4, <2>11 DEF ReportInv
<1>12. ASSUME NEW s \in Signals, ModifyPosition(s) \/ Reticket(s) PROVE ReportInv'
  <2>1. \A t \in Signals : position'[t].volume = position[t].volume
    <3>1. position[s] \in Position /\ DOMAIN position = Signals
      BY DEF TypeOK
    <3>2. CASE ModifyPosition(s)
      BY <3>1, <3>2 DEF ModifyPosition, Position
    <3>3. CASE Reticket(s)
      BY <3>1, <3>3 DEF Reticket, Position
    <3>4. QED BY <1>12, <3>2, <3>3
  <2> DEFINE note == [kind |-> "UPDATE", id |-> s, left |-> 0]
  <2>2. Notify(note) /\ note.kind = "UPDATE" /\ UNCHANGED <<order, partials>>
    BY <1>12 DEF ModifyPosition, Reticket
  <2>3. \A t \in Signals : note # Exit(t, 0)
    BY DEF Exit
  <2> HIDE DEF note
  <2>4. QED BY <1>9, <2>1, <2>2, <2>3
<1>13. ASSUME ForeignPosition PROVE ReportInv'
  <2> DEFINE note == [kind |-> "FOREIGN", id |-> 0, left |-> 0]
  <2>1. Notify(note) /\ note.kind = "FOREIGN" /\ UNCHANGED <<order, position, partials>>
    BY <1>13 DEF ForeignPosition
  <2>2. \A t \in Signals : note # Exit(t, 0)
    BY DEF Exit
  <2> HIDE DEF note
  <2>3. QED BY <1>9, <2>1, <2>2
<1>14. QED BY <1>6, <1>7, <1>10, <1>11, <1>12, <1>13 DEF Broker

(* The inductive invariant about what is reported. *)
THEOREM ReportInvariant == Spec => []ReportInv
<1>1. AuthorityInv => TypeOK
  BY DEF AuthorityInv
<1>2. ASSUME TypeOK, OwnershipInv, ReportInv, [Next]_vars PROVE ReportInv'
  <2>1. ASSUME Handlers PROVE ReportInv'
    BY <1>2, <2>1, ProcessReports, PreflightReports, SendReports, ReconcileSignalReports,
       PersistReports, EmitReports, TransactionReports DEF Handlers, TypeOK
  <2>2. QED BY <1>2, <2>1, ProcessReports, SubmitReports, MarketReports DEF Next
<1>3. QED
  BY InitReportInv, AuthorityInvariant, OwnershipInvariant, <1>1, <1>2, PTL DEF Spec

(***************************************************************************)
(* Each order and position is reported opened, closed and rejected at most *)
(* once, and each partial close at most once, for any number of partial    *)
(* closes, crashes and restarts and any order of the transactions.         *)
(***************************************************************************)
THEOREM EachIsReportedOnce == Spec => []ReportedOnce
<1>1. ReportInv => ReportedOnce
  BY DEF ReportInv
<1>2. QED BY ReportInvariant, <1>1, PTL

-----------------------------------------------------------------------------
(* Under which signal a position is kept *)

\* No call failed, nothing crashed, and no order was filled after its rejection.
Plain == faults = 0 /\ ~LateFill

\* An order that may still fill or has a position, although no handler is on it
\* and nobody was told that it failed.
Loose(p) ==
    /\ order[p] = "working" \/ p \in Open
    /\ told[p]["REJECTED"] = 0
    /\ ~(pc \in {"reconcile", "persist"} /\ cur = p)

\* No other order is sent or adopted beside it: it has its position already, or
\* took the authority with it.
LooseInv ==
    \A p \in Signals : Loose(p) =>
        /\ pc \notin {"send", "reconcile", "persist"}
        /\ order[p] = "working" \/ pc = "preflight" => ~authority

\* Without a crash the expert starts before there is any order.
UnstartedInv == pc \in {"down", "failed"} => \A s \in Signals : order[s] = "new"

Right(e) == e.active => e.signal = e.identifier

Attributed == LooseInv /\ UnstartedInv /\ Right(expected) /\ Right(Loaded)

AttributionInv == Plain => Attributed

\* Inactive states are attributed to nobody.
LEMMA InactiveIsRight == Right(Inactive) /\ Right(Cleared)
BY DEF Right, Inactive, Cleared

\* A plain recovery answers, grants nothing and keeps what is right.
LEMMA RecoverIsRight ==
    ASSUME TypeOK, NEW granted \in BOOLEAN, NEW announce \in BOOLEAN,
           NEW ret \in BOOLEAN, Recover(granted, announce, ret)
    PROVE  /\ faults' = 0 => faults = 0 /\ ret
           /\ faults' = 0 => (authority' => granted)
           /\ faults' = 0 /\ Right(expected) /\ Right(Loaded)
                 => Right(expected') /\ Right(Loaded')
<1> SUFFICES ASSUME faults' = 0
    PROVE  /\ faults = 0 /\ ret /\ (authority' => granted)
           /\ Right(expected) /\ Right(Loaded) => Right(expected') /\ Right(Loaded')
  OBVIOUS
<1>1. faults \in Nat /\ Loaded \in State
  BY LoadedType DEF TypeOK
<1>2. ~DiscoveryFails
  <2>1. DiscoveryFails => faults' = faults + 1
    BY Zenon DEF DiscoveryFails
  <2>2. QED BY <1>1, <2>1
<1>3. store' = store => Loaded' = Loaded
  BY DEF Loaded
<1>4. CASE UNCHANGED <<store, faults>> /\ ret = TRUE /\ expected' \in {expected, Loaded}
           /\ (~authority' \/ authority' = granted)
  <2>1. faults = 0 /\ ret
    BY <1>4
  <2>2. authority' => granted
    BY <1>4, Zenon
  <2>3. Right(expected) /\ Right(Loaded) => Right(expected') /\ Right(Loaded')
    BY <1>3, <1>4, Zenon
  <2>4. QED BY <2>1, <2>2, <2>3
<1>5. ASSUME NEW v \in State, Right(Loaded) => Right(v), expected' = v,
             Save(v, granted, ret)
      PROVE  /\ faults = 0 /\ ret /\ (authority' => granted)
             /\ Right(expected) /\ Right(Loaded) => Right(expected') /\ Right(Loaded')
  <2>1. faults = 0 /\ ret
    BY <1>1, <1>5 DEF Save
  <2>2. (authority' => granted) /\ Loaded' = v
    BY <1>5, <2>1, SaveFacts
  <2>3. QED BY <1>5, <2>1, <2>2
<1>6. ASSUME NEW p \in Open, Matches(p, Loaded), expected' = Mirror(p, Loaded),
             Save(expected', granted, ret)
      PROVE  /\ faults = 0 /\ ret /\ (authority' => granted)
             /\ Right(expected) /\ Right(Loaded) => Right(expected') /\ Right(Loaded')
  <2>1. Mirror(p, Loaded) \in State
    BY <1>1, MirrorFacts DEF Open
  <2>2. Right(Loaded) => Right(Mirror(p, Loaded))
    BY <1>1, <1>6 DEF Right, Mirror, Matches, State
  <2>3. QED BY <1>5, <1>6, <2>1, <2>2
<1>7. CASE expected' = Cleared /\ Save(Cleared, granted, ret)
  BY <1>5, <1>7, InactiveIsRight, InactiveType DEF Cleared
<1>8. QED BY <1>2, <1>4, <1>6, <1>7 DEF Recover, FailClosed

\* What makes a run no longer plain is never undone.
LEMMA PlainBefore ==
    ASSUME TypeOK, TypeOK', Plain', faults <= faults',
           \A s \in Signals : order[s] = "filled" => order'[s] = "filled",
           \A s \in Signals : told[s]["REJECTED"] <= told'[s]["REJECTED"]
    PROVE  /\ Plain
           /\ \A s \in Signals : order[s] = "filled" => told[s]["REJECTED"] = 0
<1>1. \A s \in Signals : told[s]["REJECTED"] \in Nat /\ told'[s]["REJECTED"] \in Nat
  BY DEF TypeOK, Kinds
<1>2. faults \in Nat
  BY DEF TypeOK
<1>3. QED BY <1>1, <1>2 DEF Plain, LateFill

\* Faults are counted, fills are final, and rejections are not taken back.
LEMMA OnlyForward ==
    ASSUME TypeOK, OwnershipInv, [Next]_vars
    PROVE  /\ faults <= faults'
           /\ \A s \in Signals : order[s] = "filled" => order'[s] = "filled"
           /\ \A s \in Signals : told[s]["REJECTED"] <= told'[s]["REJECTED"]
<1> DEFINE Goal ==
        /\ faults <= faults'
        /\ \A s \in Signals : order[s] = "filled" => order'[s] = "filled"
        /\ \A s \in Signals : told[s]["REJECTED"] <= told'[s]["REJECTED"]
<1>1. /\ faults \in Nat /\ cur \in 0 .. MaxSignals
      /\ \A s \in Signals : told[s]["REJECTED"] \in Nat
  BY Counts DEF TypeOK, Kinds
<1>2. ASSUME NEW granted \in BOOLEAN, NEW announce \in BOOLEAN, NEW ret \in BOOLEAN,
             Recover(granted, announce, ret)
      PROVE  /\ faults <= faults'
             /\ \A s \in Signals : told[s]["REJECTED"] <= told'[s]["REJECTED"]
  <2>1. \A s \in Signals : told'[s]["REJECTED"] = told[s]["REJECTED"]
    BY <1>2, RecoverReports DEF Reports, Kinds
  <2>2. faults' = faults \/ faults' = faults + 1
    BY <1>2, Zenon DEF Recover, DiscoveryFails, FailClosed, Save
  <2>3. QED BY <1>1, <2>1, <2>2
<1>3. ASSUME NEW k \in Kinds, cur \in Signals, Tell(cur, k)
      PROVE  \A s \in Signals : told[s]["REJECTED"] <= told'[s]["REJECTED"]
  <2>1. \A s \in Signals : told'[s]["REJECTED"] = told[s]["REJECTED"]
                           \/ told'[s]["REJECTED"] = told[s]["REJECTED"] + 1
    BY <1>3, TellCounts DEF Kinds
  <2>2. QED BY <1>1, <2>1
<1>4. UNCHANGED told => \A s \in Signals : told[s]["REJECTED"] <= told'[s]["REJECTED"]
  BY <1>1
<1>5. ASSUME Start PROVE Goal
  BY <1>2, <1>5 DEF Start, brokerVars
<1>6. ASSUME Unload \/ Crash \/ RefreshEntryGate \/ DataFault \/ EndTick \/ UNCHANGED vars PROVE Goal
  BY <1>1, <1>4, <1>6 DEF Unload, Crash, Reset, RefreshEntryGate, DataFault, EndTick, vars, brokerVars
<1>7. ASSUME NEW s \in Signals, SubmitSignalPlan(s) PROVE Goal
  <2>1. \A t \in Signals : order[t] = "filled" => order'[t] = "filled"
    BY <1>7 DEF SubmitSignalPlan, TypeOK
  <2>2. authority \in BOOLEAN
    BY DEF TypeOK
  <2>3. QED BY <1>2, <1>7, <2>1, <2>2 DEF SubmitSignalPlan
<1>8. ASSUME Preflight PROVE Goal
  <2>1. /\ UNCHANGED faults /\ cur \in Signals /\ order[cur] = "checked"
        /\ UNCHANGED told \/ Tell(cur, "REJECTED")
    BY <1>8 DEF Preflight, OwnershipInv, TypeOK
  <2>2. \A s \in Signals : order[s] = "filled" => order'[s] = "filled"
    BY <1>8, <2>1 DEF Preflight, TypeOK
  <2>3. QED BY <1>1, <1>3, <1>4, <2>1, <2>2 DEF Kinds
<1>9. ASSUME NEW answer \in {"success", "ambiguous", "refused"},
             NEW outcome \in {"filled", "working", "dead"}, SendOrder(answer, outcome)
      PROVE  Goal
  <2>1. /\ UNCHANGED faults /\ cur \in Signals /\ order[cur] = "checked"
        /\ UNCHANGED told \/ Tell(cur, "REJECTED")
    BY <1>9 DEF SendOrder, OwnershipInv, TypeOK
  <2>2. \A s \in Signals : order[s] = "filled" => order'[s] = "filled"
    BY <1>9, <2>1 DEF SendOrder, TypeOK
  <2>3. QED BY <1>1, <1>3, <1>4, <2>1, <2>2 DEF Kinds
<1>10. ASSUME ReconcileSignalPosition PROVE Goal
  <2>1. /\ UNCHANGED <<faults, order>> /\ cur \in Signals
        /\ UNCHANGED told \/ Tell(cur, "REJECTED")
    BY <1>10 DEF ReconcileSignalPosition, OwnershipInv, brokerVars
  <2>2. \A s \in Signals : told[s]["REJECTED"] <= told'[s]["REJECTED"]
    BY <1>3, <1>4, <2>1 DEF Kinds
  <2>3. QED BY <1>1, <2>1, <2>2
<1>11. ASSUME PersistSubmittedPosition PROVE Goal
  <2>1. UNCHANGED <<order, told>>
    BY <1>11 DEF PersistSubmittedPosition, brokerVars
  <2>2. faults' = faults \/ faults' = faults + 1
    BY <1>11, Zenon DEF PersistSubmittedPosition, DiscoveryFails, FailClosed, Save
  <2>3. QED BY <1>1, <1>4, <2>1, <2>2
<1>12. ASSUME EmitTransition PROVE Goal
  <2>1. /\ UNCHANGED <<faults, order>> /\ cur \in Signals
        /\ pc \in Kinds /\ Tell(cur, pc)
    BY <1>12 DEF EmitTransition, OwnershipInv, brokerVars, Kinds
  <2>2. QED BY <1>1, <1>3, <2>1
<1>13. ASSUME NEW t \in Transaction, OnTradeTransaction(t) PROVE Goal
  <2>1. UNCHANGED order /\ authority \in BOOLEAN
    BY <1>13 DEF OnTradeTransaction, TypeOK
  <2>2. CASE ReconcileClosingDeal /\ UNCHANGED <<told, meddling>>
    <3>1. faults' = faults \/ faults' = faults + 1
      BY <2>2, Zenon DEF ReconcileClosingDeal, DiscoveryFails, FailClosed, Save
    <3>2. QED BY <1>1, <1>4, <2>1, <2>2, <3>1
  <2>3. CASE \E ret \in BOOLEAN : Recover(authority, FALSE, ret)
    BY <1>2, <2>1, <2>3
  <2>4. QED BY <1>13, <2>2, <2>3 DEF OnTradeTransaction
<1>14. ASSUME Broker PROVE Goal
  <2>1. UNCHANGED <<faults, told>>
    BY <1>14 DEF Broker, FillLate, CancelLate, ClosePosition, PartialClose,
         ModifyPosition, Reticket, ForeignPosition, expertVars
  <2>2. \A s \in Signals : order[s] = "filled" => order'[s] = "filled"
    BY <1>14 DEF Broker, FillLate, CancelLate, ClosePosition, PartialClose,
         ModifyPosition, Reticket, ForeignPosition, TypeOK
  <2>3. QED BY <1>1, <1>4, <2>1, <2>2
<1>15. Handlers => Goal
  BY <1>6, <1>8, <1>9, <1>10, <1>11, <1>12, <1>13 DEF Handlers, TypeOK
<1>16. QED BY <1>5, <1>6, <1>7, <1>14, <1>15 DEF Next

(* A step that neither sends, fills nor starts anything: it keeps the order of *)
(* things as long as it gives no authority back and remembers what is right.   *)
LEMMA SlackStep ==
    ASSUME Attributed, Right(expected'), Right(Loaded'),
           pc' \notin {"down", "failed", "preflight", "send", "reconcile", "persist"},
           \A p \in Signals : Loose(p)' => Loose(p),
           \A p \in Signals : order'[p] = "working" => order[p] = "working",
           authority' => authority
    PROVE  Attributed'
BY DEF Attributed, LooseInv, UnstartedInv

\* Before the first order there is nothing to attribute.
LEMMA ProcessAttributes ==
    ASSUME TypeOK, OwnershipInv, Attributed, Plain',
           Start \/ Unload \/ Crash \/ RefreshEntryGate \/ DataFault \/ EndTick \/ UNCHANGED vars
    PROVE  Attributed'
<1>1. ASSUME pc \in {"down", "failed"}, UNCHANGED <<order, position>>
      PROVE  LooseInv' /\ \A s \in Signals : order'[s] = "new"
  <2>1. \A s \in Signals : order[s] = "new" /\ s \notin Open
    BY <1>1 DEF Attributed, UnstartedInv, OwnershipInv, Known
  <2>2. QED BY <1>1, <2>1 DEF LooseInv, Loose, Open
<1>2. CASE Start
  <2>1. PICK ret \in BOOLEAN : /\ Recover(TRUE, TRUE, ret)
                               /\ pc' = IF ret THEN "idle" ELSE "failed"
    BY <1>2 DEF Start
  <2>2. ret /\ Right(expected') /\ Right(Loaded')
    BY <2>1, RecoverIsRight DEF Plain, Attributed
  <2>3. QED BY <1>1, <1>2, <2>1, <2>2 DEF Start, brokerVars, Attributed, UnstartedInv
<1>3. CASE Unload
  <2>1. expected' = Inactive /\ Loaded' = Loaded /\ pc = "failed"
        /\ UNCHANGED <<order, position>>
    BY <1>3 DEF Unload, Reset, Loaded
  <2>2. QED BY <1>1, <2>1, InactiveIsRight DEF Attributed, UnstartedInv
<1>4. CASE Crash
  <2>1. faults \in Nat /\ faults' = faults + 1
    BY <1>4 DEF Crash, TypeOK
  <2>2. QED BY <2>1 DEF Plain
<1>5. CASE RefreshEntryGate \/ DataFault \/ EndTick \/ UNCHANGED vars
  <2>1. /\ UNCHANGED <<order, position, told, cur, expected, authority, store>>
        /\ pc' = pc \/ (pc \in {"idle", "tick"} /\ pc' \in {"idle", "tick"})
    BY <1>5 DEF RefreshEntryGate, DataFault, EndTick, vars, brokerVars
  <2>2. /\ Right(expected') /\ Right(Loaded') /\ Open' = Open
    BY <2>1 DEF Attributed, Loaded, Open, Right
  <2>3. CASE pc' = pc
    BY <2>1, <2>2, <2>3 DEF Attributed, LooseInv, Loose, UnstartedInv
  <2>4. CASE pc \in {"idle", "tick"} /\ pc' \in {"idle", "tick"}
    BY <2>1, <2>2, <2>4, SlackStep DEF Loose
  <2>5. QED BY <2>1, <2>3, <2>4
<1>6. QED BY <1>2, <1>3, <1>4, <1>5

\* A signal goes on from an empty account: what may still fill took the authority.
LEMMA SubmitAttributes ==
    ASSUME TypeOK, OwnershipInv, Attributed, Plain', NEW s \in Signals, SubmitSignalPlan(s)
    PROVE  Attributed'
<1>1. PICK ret \in BOOLEAN :
        /\ Recover(authority, FALSE, ret)
        /\ order' = [order EXCEPT ![s] = IF Proceed(ret) THEN "checked" ELSE "dropped"]
        /\ pc' = IF Proceed(ret) THEN "preflight" ELSE "tick"
        /\ cur' = IF Proceed(ret) THEN s ELSE 0
  BY DEF SubmitSignalPlan
<1>2. authority \in BOOLEAN /\ pc \in {"idle", "tick"} /\ UNCHANGED position /\ Open' = Open
  BY DEF SubmitSignalPlan, TypeOK, Open
<1>3. Right(expected') /\ Right(Loaded') /\ (authority' => authority)
  BY <1>1, <1>2, RecoverIsRight DEF Plain, Attributed
<1>4. \A p \in Signals : told'[p]["REJECTED"] = told[p]["REJECTED"]
  BY <1>1, <1>2, RecoverReports DEF Reports, Kinds
<1>5. \A p \in Signals : order'[p] = "working" => order[p] = "working"
  BY <1>1 DEF TypeOK
<1>6. pc' \in {"tick", "preflight"} /\ (pc' = "preflight" => Open = {})
  BY <1>1 DEF Proceed
<1>7. \A p \in Signals : Loose(p)' => Loose(p)
  BY <1>2, <1>4, <1>5 DEF Loose
<1>8. LooseInv'
  BY <1>2, <1>3, <1>5, <1>6, <1>7 DEF Attributed, LooseInv, Loose
<1>9. QED BY <1>3, <1>6, <1>8 DEF Attributed, UnstartedInv

\* An order is sent with authority, so nothing else may still fill.
LEMMA PreflightAttributes ==
    ASSUME TypeOK, OwnershipInv, Attributed, Preflight
    PROVE  Attributed'
<1>1. /\ pc = "preflight" /\ cur \in Signals /\ Open' = Open /\ Loaded' = Loaded
      /\ UNCHANGED <<expected, authority>>
      /\ pc' = "tick" \/ (pc' = "send" /\ authority)
  BY DEF Preflight, TypeOK, Open, Loaded, NextBar
<1>2. \A p \in Signals : order'[p] = "working" => order[p] = "working"
  BY DEF Preflight, TypeOK
<1>3. \A p \in Signals : told'[p]["REJECTED"] = 0 => told[p]["REJECTED"] = 0
  <2>1. CASE Tell(cur, "REJECTED")
    <3>1. \A p \in Signals : told[p]["REJECTED"] \in Nat
                /\ told'[p]["REJECTED"] = IF p = cur THEN told[p]["REJECTED"] + 1
                                          ELSE told[p]["REJECTED"]
      BY <1>1, <2>1, TellCounts, Counts DEF Kinds
    <3>2. QED BY <3>1
  <2>2. CASE UNCHANGED told
    BY <2>2
  <2>3. QED BY <2>1, <2>2 DEF Preflight
<1>4. \A p \in Signals : Loose(p)' => Loose(p)
  BY <1>1, <1>2, <1>3 DEF Loose
<1>5. QED BY <1>1, <1>2, <1>4 DEF Attributed, LooseInv, UnstartedInv

\* The order sent is the only one that may have, or get, a position.
LEMMA SendAttributes ==
    ASSUME TypeOK, OwnershipInv, Attributed,
           NEW answer \in {"success", "ambiguous", "refused"},
           NEW outcome \in {"filled", "working", "dead"}, SendOrder(answer, outcome)
    PROVE  Attributed'
<1>1. /\ pc = "send" /\ cur \in Signals /\ Loaded' = Loaded
      /\ UNCHANGED <<expected, authority>>
      /\ order[cur] = "checked" /\ cur \notin Open
  BY DEF SendOrder, TypeOK, OwnershipInv, Known, Loaded
<1>2. \A p \in Signals : p # cur =>
          order'[p] = order[p] /\ (p \in Open' => p \in Open)
  BY <1>1 DEF SendOrder, Fill, Open, TypeOK
<1>3. /\ order'[cur] = outcome
      /\ cur \in Open' => outcome = "filled"
  BY <1>1 DEF SendOrder, Fill, Open, TypeOK
<1>4. \A p \in Signals : p # cur => told'[p] = told[p]
  BY <1>1 DEF SendOrder, Tell, TypeOK
<1>5. \/ pc' \in {"persist", "reconcile"} /\ cur' = cur
      \/ pc' = "tick" /\ outcome = "dead"
  BY DEF SendOrder, NextBar
<1>6. \A p \in Signals : ~Loose(p)
  BY <1>1 DEF Attributed, LooseInv
<1>7. \A p \in Signals : ~Loose(p)'
  BY <1>1, <1>2, <1>3, <1>4, <1>5, <1>6 DEF Loose
<1>8. QED BY <1>1, <1>5, <1>7 DEF Attributed, LooseInv, UnstartedInv

\* The order whose answer was ambiguous is adopted, or told to have failed.
LEMMA ReconcileSignalAttributes ==
    ASSUME TypeOK, OwnershipInv, Attributed, ReconcileSignalPosition
    PROVE  Attributed'
<1>1. /\ pc = "reconcile" /\ cur \in Signals /\ Open' = Open /\ Loaded' = Loaded
      /\ UNCHANGED <<order, expected, authority>>
  BY DEF ReconcileSignalPosition, OwnershipInv, Open, Loaded, brokerVars
<1>2. \A p \in Signals : ~Loose(p)
  BY <1>1 DEF Attributed, LooseInv
<1>3. CASE pc' = "persist" /\ UNCHANGED <<cur, told>>
  BY <1>1, <1>2, <1>3 DEF Attributed, LooseInv, Loose, UnstartedInv
<1>4. CASE pc' = "tick" /\ Tell(cur, "REJECTED")
  <2>1. told'[cur]["REJECTED"] # 0 /\ \A p \in Signals : p # cur => told'[p] = told[p]
    <3>1. told'[cur]["REJECTED"] = told[cur]["REJECTED"] + 1 /\ told[cur]["REJECTED"] \in Nat
      BY <1>1, <1>4, TellCounts, Counts DEF Kinds
    <3>2. \A p \in Signals : p # cur => told'[p] = told[p]
      BY <1>1, <1>4 DEF Tell, TypeOK
    <3>3. QED BY <3>1, <3>2
  <2>2. \A p \in Signals : ~Loose(p)'
    BY <1>1, <1>2, <2>1 DEF Loose
  <2>3. QED BY <1>1, <1>4, <2>2 DEF Attributed, LooseInv, UnstartedInv
<1>5. QED BY <1>3, <1>4 DEF ReconcileSignalPosition, NextBar

\* The one open position is that of the order sent; any other would be loose.
LEMMA PersistAttributes ==
    ASSUME TypeOK, OwnershipInv, Attributed, Plain',
           \A s \in Signals : order[s] = "filled" => told[s]["REJECTED"] = 0,
           PersistSubmittedPosition
    PROVE  Attributed'
<1>1. /\ pc = "persist" /\ cur \in Signals /\ Open' = Open
      /\ UNCHANGED <<order, told>> /\ faults \in Nat /\ authority \in BOOLEAN
  BY DEF PersistSubmittedPosition, OwnershipInv, Open, brokerVars, TypeOK
<1>2. \A p \in Signals : ~Loose(p)
  BY <1>1 DEF Attributed, LooseInv
<1>3. \A p \in Open : p = cur /\ order[p] = "filled"
  <2>1. \A p \in Open : p \in Signals /\ order[p] = "filled" /\ told[p]["REJECTED"] = 0
    BY DEF OwnershipInv, Known, Open
  <2>2. QED BY <1>1, <1>2, <2>1 DEF Loose
<1>4. \A p \in Signals : Loose(p)' => p = cur
  BY <1>1, <1>2 DEF Loose
<1>5. ~DiscoveryFails
  <2>1. DiscoveryFails => faults' = faults + 1
    BY Zenon DEF DiscoveryFails
  <2>2. QED BY <1>1, <2>1 DEF Plain
<1>6. ASSUME NEW c, FailClosed(c), NextBar, UNCHANGED expected
      PROVE  Attributed'
  <2>1. ~authority' /\ Loaded' = Loaded /\ pc' = "tick"
    BY <1>6 DEF FailClosed, NextBar, Loaded
  <2>2. QED BY <1>6, <2>1 DEF Attributed, LooseInv, UnstartedInv
<1>7. ASSUME NEW p \in Open, NEW ok \in BOOLEAN,
             expected' = Mirror(p, [Inactive EXCEPT !.signal = cur]),
             Save(expected', authority, ok),
             IF ok THEN pc' = "OPENED" /\ cur' = p ELSE NextBar
      PROVE  Attributed'
  <2>1. [Inactive EXCEPT !.signal = cur] \in State
    BY <1>1, InactiveType DEF TypeOK, State
  <2>2. expected' \in State
    BY <1>7, <2>1, MirrorFacts DEF Open
  <2>3. Right(expected')
    BY <1>3, <1>7, InactiveType DEF Right, Mirror, State, Inactive
  <2>4. ok
    BY <1>1, <1>7 DEF Save, Plain
  <2>5. Loaded' = expected' /\ (authority' => authority)
    BY <1>1, <1>7, <2>2, <2>4, SaveFacts
  <2>6. \A q \in Signals : Loose(q)' => order'[q] = "filled"
    BY <1>1, <1>3, <1>4, <1>7
  <2>7. QED
    BY <1>7, <2>3, <2>4, <2>5, <2>6 DEF Attributed, LooseInv, UnstartedInv
<1>8. QED BY <1>5, <1>6, <1>7 DEF PersistSubmittedPosition

\* What a transaction teaches the expert keeps the signal it had.
LEMMA TransactionAttributes ==
    ASSUME TypeOK, OwnershipInv, Attributed, Plain', NEW t \in Transaction,
           OnTradeTransaction(t)
    PROVE  Attributed'
<1>1. /\ pc = "idle" /\ Open' = Open /\ UNCHANGED order /\ authority \in BOOLEAN
      /\ faults \in Nat /\ expected \in State
  BY DEF OnTradeTransaction, Open, TypeOK
<1>2. ASSUME Right(expected'), Right(Loaded'), authority' => authority,
             pc' \in {"idle", "PARTIAL", "CLOSED"},
             \A p \in Signals : told'[p]["REJECTED"] = told[p]["REJECTED"]
      PROVE  Attributed'
  <2>1. \A p \in Signals : Loose(p)' => Loose(p)
    BY <1>1, <1>2 DEF Loose
  <2>2. QED BY <1>1, <1>2, <2>1, SlackStep
<1>3. ASSUME NEW ret \in BOOLEAN, Recover(authority, FALSE, ret), UNCHANGED pc
      PROVE  Attributed'
  <2>1. Right(expected') /\ Right(Loaded') /\ (authority' => authority)
    BY <1>1, <1>3, RecoverIsRight DEF Plain, Attributed
  <2>2. \A p \in Signals : told'[p]["REJECTED"] = told[p]["REJECTED"]
    BY <1>1, <1>3, RecoverReports DEF Reports, Kinds
  <2>3. QED BY <1>1, <1>2, <1>3, <2>1, <2>2
<1>4. ASSUME ClosingDeal(t), ReconcileClosingDeal, UNCHANGED told
      PROVE  Attributed'
  <2>1. ~DiscoveryFails
    <3>1. DiscoveryFails => faults' = faults + 1
      BY Zenon DEF DiscoveryFails
    <3>2. QED BY <1>1, <3>1 DEF Plain
  <2>2. ASSUME FailClosed(TRUE), Finish, UNCHANGED expected PROVE Attributed'
    <3>1. ~authority' /\ Loaded' = Loaded /\ pc' = "idle"
      BY <2>2 DEF FailClosed, Finish, Loaded
    <3>2. QED BY <1>2, <1>4, <2>2, <3>1 DEF Attributed
  <2>3. ASSUME NEW v \in State, Right(v), NEW ok \in BOOLEAN, expected' = v,
               Save(v, authority, ok), pc' \in {"idle", "PARTIAL", "CLOSED"}
        PROVE  Attributed'
    <3>1. ok
      BY <1>1, <2>3 DEF Save, Plain
    <3>2. Loaded' = v /\ (authority' => authority)
      BY <1>1, <2>3, <3>1, SaveFacts
    <3>3. QED BY <1>2, <1>4, <2>3, <3>2
  <2>4. ASSUME NEW ok \in BOOLEAN, Open = {expected.identifier},
               expected' = Mirror(expected.identifier, expected),
               Save(expected', authority, ok),
               IF ok THEN pc' = "PARTIAL" /\ cur' = expected.identifier ELSE Finish
        PROVE  Attributed'
    <3>1. Mirror(expected.identifier, expected) \in State
      BY <1>1, <2>4, MirrorFacts DEF Open
    <3>2. Right(Mirror(expected.identifier, expected))
      BY <1>1, <1>4 DEF Attributed, Right, ClosingDeal, Mirror, State
    <3>3. QED BY <2>3, <2>4, <3>1, <3>2 DEF Finish
  <2>5. ASSUME NEW ok \in BOOLEAN, expected' = Cleared, Save(Cleared, authority, ok),
               IF ok THEN pc' = "CLOSED" /\ cur' = expected.identifier ELSE Finish
        PROVE  Attributed'
    BY <2>3, <2>5, InactiveIsRight, InactiveType DEF Finish, Cleared
  <2>6. QED BY <1>4, <2>1, <2>2, <2>4, <2>5 DEF ReconcileClosingDeal
<1>5. QED BY <1>3, <1>4 DEF OnTradeTransaction

\* An event changes nothing that the expert knows.
LEMMA EmitAttributes ==
    ASSUME TypeOK, OwnershipInv, Attributed, EmitTransition
    PROVE  Attributed'
<1>1. /\ pc \in {"OPENED", "PARTIAL", "CLOSED"} /\ pc' \in {"idle", "tick"}
      /\ Open' = Open
      /\ UNCHANGED <<order, expected, authority, store>> /\ Loaded' = Loaded
      /\ cur \in Signals
  BY DEF EmitTransition, Finish, NextBar, brokerVars, Open, Loaded, OwnershipInv
<1>2. \A p \in Signals : told'[p]["REJECTED"] = told[p]["REJECTED"]
  BY <1>1, TellCounts DEF EmitTransition, Kinds
<1>3. \A p \in Signals : Loose(p)' => Loose(p)
  BY <1>1, <1>2 DEF Loose
<1>4. QED BY <1>1, <1>3, SlackStep DEF Attributed

\* An order that fills late was loose before, or its handler still runs.
LEMMA MarketAttributes ==
    ASSUME TypeOK, OwnershipInv, Attributed, Broker
    PROVE  Attributed'
<1>1. UNCHANGED <<pc, cur, expected, authority, told>> /\ Loaded' = Loaded
  BY DEF Broker, FillLate, CancelLate, ClosePosition, PartialClose, ModifyPosition,
         Reticket, ForeignPosition, expertVars, Loaded
<1>2. /\ \A p \in Signals : order[p] = "new" => order'[p] = "new"
      /\ \A p \in Signals : order'[p] = "working" => order[p] = "working"
  BY DEF Broker, FillLate, CancelLate, ClosePosition, PartialClose, ModifyPosition,
         Reticket, ForeignPosition, TypeOK
<1>3. \A p \in Open' : p \in Open \/ (p \in Signals /\ order[p] = "working")
  <2>1. \A s \in Signals : FillLate(s) =>
            /\ order[s] = "working"
            /\ \A p \in Signals : p # s => position'[p] = position[p]
    BY DEF FillLate, Fill, TypeOK
  <2>2. \A s \in Signals :
            ClosePosition(s) \/ ModifyPosition(s) \/ Reticket(s)
                \/ (\E v \in 1 .. Lots : PartialClose(s, v)) =>
            /\ position[s].volume > 0
            /\ \A p \in Signals : p # s => position'[p] = position[p]
    <3>1. ASSUME NEW s \in Signals, NEW v \in 1 .. Lots, PartialClose(s, v)
          PROVE  position[s].volume > 0
      BY <3>1, EngineAssumption DEF PartialClose, TypeOK, Position
    <3>2. QED
      BY <3>1 DEF ClosePosition, PartialClose, ModifyPosition, Reticket, Open, TypeOK
  <2>3. ForeignPosition \/ (\E s \in Signals : CancelLate(s)) => position' = position
    BY DEF ForeignPosition, CancelLate
  <2>4. QED BY <2>1, <2>2, <2>3 DEF Broker, Open
<1>4. \A p \in Signals : Loose(p)' => Loose(p)
  BY <1>1, <1>2, <1>3 DEF Loose
<1>5. LooseInv'
  BY <1>1, <1>2, <1>4 DEF Attributed, LooseInv
<1>6. QED BY <1>1, <1>2, <1>5 DEF Attributed, UnstartedInv

(* The inductive invariant about attribution. *)
THEOREM AttributionInvariant == Spec => []AttributionInv
<1>1. AuthorityInv => TypeOK
  BY DEF AuthorityInv
<1>2. ASSUME Init PROVE AttributionInv
  <2>1. Loaded = Inactive /\ expected = Inactive
    BY <1>2 DEF Init, Loaded
  <2>2. LooseInv /\ UnstartedInv
    BY <1>2 DEF Init, LooseInv, UnstartedInv, Loose, Open, NoPosition
  <2>3. QED BY <2>1, <2>2, InactiveIsRight DEF AttributionInv, Attributed
<1>3. ASSUME TypeOK, TypeOK', OwnershipInv, AttributionInv, [Next]_vars
      PROVE  AttributionInv'
  <2> SUFFICES ASSUME Plain' PROVE Attributed'
    BY DEF AttributionInv
  <2>1. /\ Plain
        /\ \A s \in Signals : order[s] = "filled" => told[s]["REJECTED"] = 0
    BY <1>3, OnlyForward, PlainBefore
  <2>2. Attributed
    BY <1>3, <2>1 DEF AttributionInv
  <2>3. ASSUME Handlers PROVE Attributed'
    BY <1>3, <2>1, <2>2, <2>3, PreflightAttributes, SendAttributes,
       ReconcileSignalAttributes, PersistAttributes, EmitAttributes,
       TransactionAttributes, ProcessAttributes DEF Handlers, TypeOK
  <2>4. QED
    BY <1>3, <2>2, <2>3, ProcessAttributes, SubmitAttributes, MarketAttributes DEF Next
<1>4. QED
  BY AuthorityInvariant, OwnershipInvariant, <1>1, <1>2, <1>3, PTL DEF Spec

(***************************************************************************)
(* A position is kept under another signal than the one that opened it     *)
(* only after an order filled that was reported rejected, or after a crash *)
(* or a failed call.                                                       *)
(***************************************************************************)
THEOREM MisattributionNeedsLateFill == Spec => []OnlyLateFillsMisattribute
<1>1. ASSUME TypeOK, AttributionInv PROVE OnlyLateFillsMisattribute
  <2>1. faults \in Nat
    BY <1>1 DEF TypeOK
  <2>2. QED
    BY <1>1, <2>1 DEF AttributionInv, Attributed, Plain, Right, OnlyLateFillsMisattribute
<1>2. AuthorityInv => TypeOK
  BY DEF AuthorityInv
<1>3. QED BY AuthorityInvariant, AttributionInvariant, <1>1, <1>2, PTL
=============================================================================
