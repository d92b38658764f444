----------------------------- MODULE GoldEngine -----------------------------
(***************************************************************************)
(* The execution lifecycle of one MQL5 expert advisor (one profile):       *)
(* GoldEngineRuntime.mqh with its execution broker, its position state     *)
(* store and its outbox.  The expert is single threaded: handlers run one  *)
(* after the other (pc), but the broker moves at any time, also between    *)
(* two steps of one handler, and the terminal can die between any two.     *)
(*                                                                         *)
(* A signal is sent at most once, so the order and the position that come  *)
(* of it carry its number; the position's number is the broker's position  *)
(* identifier.  Prices are abstracted to a geometry (0 as sent, 1 after    *)
(* somebody moved the stop or the target), volumes to lots (Lots as        *)
(* opened, fewer after each partial close), tickets to 0 (as opened) and 1 *)
(* (reissued).                                                             *)
(***************************************************************************)
EXTENDS Naturals, FiniteSets

CONSTANTS MaxSignals,     \* how many signals the strategies produce (bound)
          MaxPositions,   \* profile.max_positions
          Lots,           \* the volume of a new position (bound on its partial closes)
          Comment,        \* Comment[s]: the order comment ExecutionSignalComment builds
          MaxFaults,      \* bound on crashes, failed discoveries and failed saves
          MaxMeddling     \* bound on what others do to the account and on deals
                          \* the history does not show

Signals == 1 .. MaxSignals

ASSUME EngineAssumption ==
    /\ MaxSignals \in Nat
    /\ MaxPositions \in Nat
    /\ Lots \in Nat \ {0}
    /\ MaxFaults \in Nat
    /\ MaxMeddling \in Nat
    /\ DOMAIN Comment = Signals

VARIABLES
    order,       \* broker: what became of each signal's order
    position,    \* broker: the position of each signal's order
    foreign,     \* broker: a position with our magic but not our comment exists
    txns,        \* trade transactions the terminal has queued for the expert
    partials,    \* broker: how often a part of each position was closed (history)
    pc,          \* where the expert is ("down" when it is not running)
    cur,         \* the signal or position the running handler is about
    expected,    \* m_expected_position
    authority,   \* m_execution_broker.m_authority_enabled
    conflict,    \* m_ownership_conflict
    gate,        \* m_entry_gate.m_enabled
    healthy,     \* m_data_healthy
    blind,       \* the last discovery of positions failed (observation)
    store,       \* what the position state store holds
    told,        \* how many events of each type the outbox got per position
    faults, meddling

brokerVars == <<order, position, foreign, txns, partials>>
switches   == <<gate, healthy>>
vars == <<order, position, foreign, txns, partials, pc, cur, expected, authority,
          conflict, gate, healthy, blind, store, told, faults, meddling>>

-----------------------------------------------------------------------------
(* Data *)

Position == [volume : 0 .. Lots, geometry : 0 .. 1, ticket : 0 .. 1]
NoPosition == [volume |-> 0, geometry |-> 0, ticket |-> 0]
NewPosition == [volume |-> Lots, geometry |-> 0, ticket |-> 0]

State == [active : BOOLEAN, identifier : 0 .. MaxSignals, signal : 0 .. MaxSignals,
          volume : 0 .. Lots, geometry : 0 .. 1, ticket : 0 .. 1]

\* PositionStateReset
Inactive == [active |-> FALSE, identifier |-> 0, signal |-> 0,
             volume |-> 0, geometry |-> 0, ticket |-> 0]

Missing == [unreadable |-> FALSE]
Invalid == [unreadable |-> TRUE]

\* The store, by the contract PositionStore is shown to meet.
Disk == INSTANCE AtomicRegister
    WITH Value <- State, NoValue <- Missing, reg <- store, pending <- Missing, answer <- TRUE,
         misled <- FALSE

Kinds == {"OPENED", "RECOVERED", "PARTIAL", "CLOSED", "REJECTED"}

Transaction == [kind : {"IN", "OUT", "UPDATE", "FOREIGN"},
                id : 0 .. MaxSignals, left : 0 .. Lots]

\* The positions DiscoverOwnedPositions returns.
Open == {s \in Signals : position[s].volume > 0}

\* CPositionStateStore.Load into m_expected_position.
Loaded == IF store \in {Missing, Invalid} THEN Inactive ELSE store

\* e with the broker's values of position p.
Mirror(p, e) ==
    [e EXCEPT !.active = TRUE, !.identifier = p, !.volume = position[p].volume,
              !.geometry = position[p].geometry, !.ticket = position[p].ticket]

\* PositionStateMatches
Matches(p, e) ==
    /\ e.active
    /\ e.identifier = p
    /\ e.volume = position[p].volume
    /\ e.geometry = position[p].geometry

Running == pc \notin {"down", "failed"}

TypeOK ==
    /\ order \in [Signals -> {"new", "dropped", "checked", "working", "filled", "dead"}]
    /\ position \in [Signals -> Position]
    /\ foreign \in BOOLEAN
    /\ txns \in SUBSET Transaction
    /\ partials \in [Signals -> Nat]
    /\ pc \in {"down", "failed", "idle", "tick", "preflight", "send", "reconcile",
               "persist", "OPENED", "PARTIAL", "CLOSED"}
    /\ cur \in 0 .. MaxSignals
    /\ pc \in {"preflight", "send", "reconcile", "persist"} => cur \in Signals
    /\ expected \in State
    /\ authority \in BOOLEAN
    /\ conflict \in BOOLEAN
    /\ gate \in BOOLEAN
    /\ healthy \in BOOLEAN
    /\ blind \in BOOLEAN
    /\ store \in State \cup {Missing, Invalid}
    /\ told \in [Signals -> [Kinds -> Nat]]
    /\ faults \in 0 .. MaxFaults
    /\ meddling \in 0 .. MaxMeddling

Init ==
    /\ order = [s \in Signals |-> "new"]
    /\ position = [s \in Signals |-> NoPosition]
    /\ foreign = FALSE
    /\ txns = {}
    /\ partials = [s \in Signals |-> 0]
    /\ pc = "down"
    /\ cur = 0
    /\ expected = Inactive
    /\ authority = FALSE
    /\ conflict = FALSE
    /\ gate = FALSE
    /\ healthy = FALSE
    /\ blind = FALSE
    /\ store = Missing
    /\ told = [s \in Signals |-> [k \in Kinds |-> 0]]
    /\ faults = 0
    /\ meddling = 0

-----------------------------------------------------------------------------
(* Steps the handlers share *)

Tell(p, k) == told' = [told EXCEPT ![p][k] = @ + 1]

\* DiscoverOwnedPositions returned false: the conflict flag was reset, or set
\* by a manual position read before the one that could not be selected.
DiscoveryFails ==
    /\ faults < MaxFaults
    /\ faults' = faults + 1
    /\ conflict' \in {FALSE, foreign}
    /\ blind' = TRUE
    /\ UNCHANGED <<expected, store, authority>>

\* Defect for a mutant run: the disagreement is only reported.
ReportConflict(c) ==
    /\ conflict' = c
    /\ blind' = FALSE
    /\ UNCHANGED <<authority, store, faults>>

\* DisableAuthority after a discovery that found what the expert cannot own.
FailClosed(c) ==
    /\ authority' = FALSE
    /\ conflict' = c
    /\ blind' = FALSE
    /\ UNCHANGED <<store, faults>>

\* Defect for a mutant run: nobody looks at the answer of Save.
SaveUnchecked(v, granted, ok) ==
    /\ store' \in Disk!AfterSave(store, v, ok)
    /\ ok \/ faults < MaxFaults
    /\ faults' = IF ok THEN faults ELSE faults + 1
    /\ authority' = granted
    /\ conflict' = FALSE
    /\ blind' = FALSE

\* m_position_store.Save(v); every caller disables the authority when it
\* answers false.  `granted` is the authority on entry.
Save(v, granted, ok) ==
    /\ store' \in Disk!AfterSave(store, v, ok)
    /\ ok \/ faults < MaxFaults
    /\ faults' = IF ok THEN faults ELSE faults + 1
    /\ authority' = (granted /\ ok)
    /\ conflict' = FALSE
    /\ blind' = FALSE

\* Defect for a mutant run: Clear stores the state without resetting it.
ClearSkipped == expected

\* The state Clear stores and leaves in memory.
Cleared == Inactive

Finish == pc' = "idle" /\ cur' = 0

\* The loop of OnTick goes on to the next bar of the tick.
NextBar == pc' = "tick" /\ cur' = 0

(***************************************************************************)
(* RecoverOwnedPositions: compare the broker's positions with the stored   *)
(* state, disable the authority on any disagreement, release the state of  *)
(* a position that is gone.  `ret` is what it returns.                     *)
(***************************************************************************)
Recover(granted, announce, ret) ==
    \/ /\ DiscoveryFails
       /\ ret = FALSE
       /\ UNCHANGED told
    \/ /\ foreign
       /\ FailClosed(TRUE)
       /\ ret = TRUE
       /\ UNCHANGED <<expected, told>>
    \/ /\ ~foreign
       /\ \/ store = Invalid
          \/ Cardinality(Open) > 1
          \/ \E p \in Open : Open = {p} /\ ~Matches(p, Loaded)
       /\ FailClosed(TRUE)
       /\ expected' = Loaded
       /\ ret = TRUE
       /\ UNCHANGED told
    \/ \E p \in Open :
       /\ ~foreign /\ Open = {p} /\ Matches(p, Loaded)
       /\ Loaded.ticket = position[p].ticket
       /\ expected' = Loaded
       /\ authority' = granted
       /\ conflict' = FALSE
       /\ blind' = FALSE
       /\ ret = TRUE
       /\ IF announce THEN Tell(p, "RECOVERED") ELSE UNCHANGED told
       /\ UNCHANGED <<store, faults>>
    \/ \E p \in Open :
       /\ ~foreign /\ Open = {p} /\ Matches(p, Loaded)
       /\ Loaded.ticket # position[p].ticket
       /\ expected' = Mirror(p, Loaded)
       /\ Save(expected', granted, ret)
       /\ IF announce /\ ret THEN Tell(p, "RECOVERED") ELSE UNCHANGED told
    \/ /\ ~foreign /\ Open = {} /\ Loaded.active
       /\ expected' = Cleared
       /\ Save(Cleared, granted, ret)
       /\ UNCHANGED told
    \/ /\ ~foreign /\ Open = {} /\ ~Loaded.active /\ store # Invalid
       /\ expected' = Loaded
       /\ authority' = granted
       /\ conflict' = FALSE
       /\ blind' = FALSE
       /\ ret = TRUE
       /\ UNCHANGED <<store, faults, told>>

-----------------------------------------------------------------------------
(* The expert's handlers *)

\* OnInit / Initialize with order authority requested; INIT_FAILED unloads.
Start ==
    /\ pc = "down"
    /\ \E ret \in BOOLEAN :
        /\ Recover(TRUE, TRUE, ret)
        /\ pc' = IF ret THEN "idle" ELSE "failed"
    /\ healthy' = TRUE
    /\ UNCHANGED <<brokerVars, cur, gate, meddling>>

\* What the process loses when it ends, whatever the reason.
Reset ==
    /\ pc' = "down"
    /\ cur' = 0
    /\ expected' = Inactive
    /\ authority' = FALSE
    /\ conflict' = FALSE
    /\ gate' = FALSE
    /\ healthy' = FALSE
    /\ blind' = FALSE
    /\ txns' = {}
    /\ UNCHANGED <<order, position, foreign, partials, store, told, meddling>>

Unload ==
    /\ pc = "failed"
    /\ Reset
    /\ UNCHANGED faults

\* The terminal dies, or Deinitialize when no handler runs.
Crash ==
    /\ Running
    /\ faults < MaxFaults
    /\ Reset
    /\ faults' = faults + 1

\* OnTick / OnTimer: RefreshEntryGate reads the panel's command.
RefreshEntryGate ==
    /\ pc = "idle"
    /\ healthy
    /\ gate' = ~gate
    /\ UNCHANGED <<brokerVars, pc, cur, expected, authority, conflict, healthy,
                   blind, store, told, faults, meddling>>

\* m_data_healthy = false: before the bars of a tick, which returns, or while
\* one of them is evaluated, after which the loop goes on.
DataFault ==
    /\ pc \in {"idle", "tick"}
    /\ healthy
    /\ healthy' = FALSE
    /\ pc' = "tick" \/ pc' = pc
    /\ UNCHANGED <<brokerVars, cur, expected, authority, conflict, gate, blind,
                   store, told, faults, meddling>>

\* OnTick returns after the last bar.
EndTick ==
    /\ pc = "tick"
    /\ pc' = "idle"
    /\ UNCHANGED <<brokerVars, cur, expected, authority, conflict, switches, blind,
                   store, told, faults, meddling>>

\* Defect for a mutant run: the position already open is not looked at.
ProceedAnyway(ret) == ret /\ gate

\* The early returns of SubmitSignalPlan.
Proceed(ret) == ret /\ gate /\ Open = {}

\* SubmitSignalPlan up to m_execution_broker.Submit.  OnTick looks at
\* m_data_healthy once, before its bars; nothing on the way here does.
SubmitSignalPlan(s) ==
    /\ \/ pc = "idle" /\ healthy
       \/ pc = "tick"
    /\ order[s] = "new"
    /\ \A t \in Signals : t < s => order[t] # "new"
    /\ \E ret \in BOOLEAN :
        /\ Recover(authority, FALSE, ret)
        /\ order' = [order EXCEPT ![s] = IF Proceed(ret) THEN "checked" ELSE "dropped"]
        /\ pc' = IF Proceed(ret) THEN "preflight" ELSE "tick"
        /\ cur' = IF Proceed(ret) THEN s ELSE 0
    /\ UNCHANGED <<position, foreign, txns, partials, switches, meddling>>

\* ExecutionCollectExposure
Exposure == Cardinality(Open) + IF foreign THEN 1 ELSE 0
DuplicateSignal == \E t \in Open : Comment[t] = Comment[cur]

\* Submit up to PositionOpen: both validations, and the authority between them.
Preflight ==
    /\ pc = "preflight"
    /\ \/ /\ order' = [order EXCEPT ![cur] = "dead"]      \* some guard rejects
          /\ Tell(cur, "REJECTED")
          /\ NextBar
       \/ /\ Exposure < MaxPositions /\ ~DuplicateSignal
          /\ ~authority                                   \* ORDER_AUTHORITY_DISABLED
          /\ order' = [order EXCEPT ![cur] = "dropped"]
          /\ NextBar
          /\ UNCHANGED told
       \/ /\ Exposure < MaxPositions /\ ~DuplicateSignal
          /\ authority
          /\ pc' = "send"
          /\ UNCHANGED <<order, cur, told>>
    /\ UNCHANGED <<position, foreign, txns, partials, expected, authority, conflict, switches,
                   blind, store, faults, meddling>>

Notify(t) == txns' = IF Running THEN txns \cup {t} ELSE txns

Fill(s) ==
    /\ position' = [position EXCEPT ![s] = NewPosition]
    /\ Notify([kind |-> "IN", id |-> s, left |-> 0])

(***************************************************************************)
(* m_trade.PositionOpen: what the broker does with the order (outcome:     *)
(* filled, still working, dead) and what the call reports (answer).        *)
(***************************************************************************)
SendOrder(answer, outcome) ==
    /\ pc = "send"
    /\ answer = "success" => outcome # "dead"
    /\ answer = "refused" => outcome = "dead"
    /\ order' = [order EXCEPT ![cur] = outcome]
    /\ IF outcome = "filled" THEN Fill(cur) ELSE UNCHANGED <<position, txns>>
    /\ \/ answer = "success" /\ pc' = "persist" /\ UNCHANGED <<cur, told>>
       \/ answer = "ambiguous" /\ pc' = "reconcile" /\ UNCHANGED <<cur, told>>
       \/ answer = "refused" /\ NextBar /\ Tell(cur, "REJECTED")
    /\ UNCHANGED <<foreign, partials, expected, authority, conflict, switches, blind,
                   store, faults, meddling>>

\* ReconcileSignalPosition after an ambiguous return code.
ReconcileSignalPosition ==
    /\ pc = "reconcile"
    /\ IF \E t \in Open : {u \in Open : Comment[u] = Comment[cur]} = {t}
       THEN pc' = "persist" /\ UNCHANGED <<cur, told>>
       ELSE NextBar /\ Tell(cur, "REJECTED")
    /\ UNCHANGED <<brokerVars, expected, authority, conflict, switches, blind, store,
                   faults, meddling>>

\* PersistSubmittedPosition
PersistSubmittedPosition ==
    /\ pc = "persist"
    /\ \/ DiscoveryFails /\ NextBar
       \/ /\ foreign \/ Cardinality(Open) # 1
          /\ FailClosed(foreign)
          /\ NextBar
          /\ UNCHANGED expected
       \/ \E p \in Open, ok \in BOOLEAN :
          /\ ~foreign /\ Open = {p}
          /\ expected' = Mirror(p, [Inactive EXCEPT !.signal = cur])
          /\ Save(expected', authority, ok)
          /\ IF ok THEN pc' = "OPENED" /\ cur' = p ELSE NextBar
    /\ UNCHANGED <<brokerVars, switches, told, meddling>>

\* ReconcileClosingDeal up to its event.
ReconcileClosingDeal ==
    \/ DiscoveryFails /\ Finish
    \/ /\ foreign \/ ~(Open \subseteq {expected.identifier})
       /\ FailClosed(TRUE)
       /\ Finish
       /\ UNCHANGED expected
    \/ \E ok \in BOOLEAN :
       /\ ~foreign /\ Open = {expected.identifier}
       /\ expected' = Mirror(expected.identifier, expected)
       /\ Save(expected', authority, ok)
       /\ IF ok THEN pc' = "PARTIAL" /\ cur' = expected.identifier ELSE Finish
    \/ \E ok \in BOOLEAN :
       /\ ~foreign /\ Open = {}
       /\ expected' = Cleared
       /\ Save(Cleared, authority, ok)
       /\ IF ok THEN pc' = "CLOSED" /\ cur' = expected.identifier ELSE Finish

\* Defect for a mutant run: the exit of any position is taken for ours.
AnyExit(t) == t.kind = "OUT" /\ expected.active

\* PositionExitBelongsToExpected, on the state in memory.
ClosingDeal(t) == t.kind = "OUT" /\ expected.active /\ t.id = expected.identifier

Meddle ==
    /\ meddling < MaxMeddling
    /\ meddling' = meddling + 1

\* OnTradeTransaction: the terminal does not promise any order of arrival, nor
\* that HistoryDealSelect finds the deal.
OnTradeTransaction(t) ==
    /\ pc = "idle"
    /\ t \in txns
    /\ txns' = txns \ {t}
    /\ \/ /\ ClosingDeal(t)
          /\ ReconcileClosingDeal
          /\ UNCHANGED <<told, meddling>>
       \/ /\ IF ClosingDeal(t) THEN Meddle ELSE UNCHANGED meddling
          /\ \E ret \in BOOLEAN : Recover(authority, FALSE, ret)
          /\ UNCHANGED <<pc, cur>>
    /\ UNCHANGED <<order, position, foreign, partials, switches>>

\* SetEvent / EmitTransition at the end of a handler.
EmitTransition ==
    /\ pc \in {"OPENED", "PARTIAL", "CLOSED"}
    /\ Tell(cur, pc)
    /\ IF pc = "OPENED" THEN NextBar ELSE Finish
    /\ UNCHANGED <<brokerVars, expected, authority, conflict, switches, blind, store,
                   faults, meddling>>

-----------------------------------------------------------------------------
(* The broker and the account's other users *)

expertVars == <<pc, cur, expected, authority, conflict, switches, blind, store, told, faults>>

\* A working order is filled after the call that sent it has returned.
FillLate(s) ==
    /\ order[s] = "working"
    /\ order' = [order EXCEPT ![s] = "filled"]
    /\ Fill(s)
    /\ UNCHANGED <<foreign, partials, meddling, expertVars>>

CancelLate(s) ==
    /\ order[s] = "working"
    /\ order' = [order EXCEPT ![s] = "dead"]
    /\ UNCHANGED <<position, foreign, txns, partials, meddling, expertVars>>

\* Stop loss, take profit, stop-out or a manual close.
ClosePosition(s) ==
    /\ s \in Open
    /\ position' = [position EXCEPT ![s] = NoPosition]
    /\ Notify([kind |-> "OUT", id |-> s, left |-> 0])
    /\ UNCHANGED <<order, foreign, partials, meddling, expertVars>>

\* Part of the position is closed and v lots stay, any number of times; the
\* bound counts the first.
PartialClose(s, v) ==
    /\ IF partials[s] = 0 THEN Meddle ELSE UNCHANGED meddling
    /\ v \in 1 .. position[s].volume - 1
    /\ position' = [position EXCEPT ![s].volume = v]
    /\ partials' = [partials EXCEPT ![s] = @ + 1]
    /\ Notify([kind |-> "OUT", id |-> s, left |-> v])
    /\ UNCHANGED <<order, foreign, expertVars>>

ModifyPosition(s) ==
    /\ Meddle
    /\ s \in Open
    /\ position' = [position EXCEPT ![s].geometry = 1 - @]
    /\ Notify([kind |-> "UPDATE", id |-> s, left |-> 0])
    /\ UNCHANGED <<order, foreign, partials, expertVars>>

\* The broker reissues the ticket; the identifier stays.
Reticket(s) ==
    /\ Meddle
    /\ s \in Open
    /\ position' = [position EXCEPT ![s].ticket = 1 - @]
    /\ Notify([kind |-> "UPDATE", id |-> s, left |-> 0])
    /\ UNCHANGED <<order, foreign, partials, expertVars>>

\* A position with our magic number but a foreign comment comes or goes.
ForeignPosition ==
    /\ foreign \/ meddling < MaxMeddling
    /\ meddling' = IF foreign THEN meddling ELSE meddling + 1
    /\ foreign' = ~foreign
    /\ Notify([kind |-> "FOREIGN", id |-> 0, left |-> 0])
    /\ UNCHANGED <<order, position, partials, expertVars>>

-----------------------------------------------------------------------------
Handlers ==
    \/ EndTick
    \/ Preflight
    \/ \E answer \in {"success", "ambiguous", "refused"},
          outcome \in {"filled", "working", "dead"} : SendOrder(answer, outcome)
    \/ ReconcileSignalPosition
    \/ PersistSubmittedPosition
    \/ EmitTransition
    \/ \E t \in txns : OnTradeTransaction(t)

Broker ==
    \/ \E s \in Signals :
        \/ FillLate(s) \/ CancelLate(s)
        \/ ClosePosition(s) \/ ModifyPosition(s) \/ Reticket(s)
        \/ \E v \in 1 .. Lots : PartialClose(s, v)
    \/ ForeignPosition

Next ==
    \/ Start \/ Unload \/ Crash
    \/ RefreshEntryGate \/ DataFault
    \/ \E s \in Signals : SubmitSignalPlan(s)
    \/ Handlers
    \/ Broker

Spec == Init /\ [][Next]_vars

\* The terminal dispatches queued transactions and runs a handler to its end;
\* the supervisor starts a terminal that is down and the terminal unloads an
\* expert whose initialisation failed.  Nothing is assumed of the broker.
Fairness == WF_vars(Start) /\ WF_vars(Unload) /\ WF_vars(Handlers)

FairSpec == Spec /\ Fairness

-----------------------------------------------------------------------------
(* Properties *)

\* The broker's side and the expert's memory tell the same story.
Accounted ==
    \/ Open = {} /\ ~expected.active
    \/ \E p \in Open : Open = {p} /\ Matches(p, expected)

(***************************************************************************)
(* The expert never keeps its order authority while the account holds      *)
(* something it cannot account for: once the queued transactions are       *)
(* handled and the last discovery worked, authority means that the broker  *)
(* has exactly the position in memory, or none and the memory is clear.    *)
(* Manual stop moves, foreign positions, late fills and restarts all have  *)
(* to end up either matched or with the authority disabled.                *)
(***************************************************************************)
AuthorityMeansAccounted ==
    Running /\ authority /\ txns = {} /\ ~blind => ~foreign /\ Accounted

(***************************************************************************)
(* An expert with authority would come back from a crash at this very      *)
(* moment with the memory it has now: what it knows is on disk.            *)
(***************************************************************************)
MemoryIsDurable ==
    Running /\ authority => expected = Loaded

\* What came to the account after the last look at it is in the queue.
PositionsAnnounced ==
    \A p \in Open : [kind |-> "IN", id |-> p, left |-> 0] \in txns

ForeignAnnounced ==
    foreign => [kind |-> "FOREIGN", id |-> 0, left |-> 0] \in txns

(***************************************************************************)
(* At the moment of PositionOpen the expert has its authority, the panel's *)
(* permission and no conflict, neither memory nor disk know a position,    *)
(* and the account is as flat as they think, but for what the broker did   *)
(* since the handler looked: each such position, ours or foreign, still    *)
(* has its transaction in the queue, to be reconciled after the order.     *)
(***************************************************************************)
SendsOnlyWhenFlat ==
    pc = "send" =>
        /\ authority /\ gate /\ ~conflict
        /\ ~expected.active /\ ~Loaded.active
        /\ PositionsAnnounced /\ ForeignAnnounced

(***************************************************************************)
(* What makes SendsOnlyWhenFlat inductive: from the last look at the       *)
(* account on, the order under way can only lose the authority.            *)
(***************************************************************************)
FlatBeforeSend ==
    /\ pc \in {"preflight", "send"} =>
          /\ gate /\ PositionsAnnounced
          /\ authority => /\ ~conflict /\ ~expected.active /\ ~Loaded.active
                          /\ ForeignAnnounced
    /\ pc = "send" => authority

(***************************************************************************)
(* The inductive invariant the proofs about authority use.                 *)
(***************************************************************************)
AuthorityInv ==
    TypeOK /\ MemoryIsDurable /\ AuthorityMeansAccounted /\ FlatBeforeSend

(***************************************************************************)
(* Each position is reported opened and closed, and each order rejected,   *)
(* at most once, and a partial close at most once each, across crashes,    *)
(* restarts and transactions in any order.                                 *)
(***************************************************************************)
ReportedOnce ==
    \A s \in Signals :
        /\ \A k \in {"OPENED", "CLOSED", "REJECTED"} : told[s][k] <= 1
        /\ told[s]["PARTIAL"] <= partials[s]

(***************************************************************************)
(* POSITION_CLOSED is final: the position is gone at the broker, and no    *)
(* memory or disk state will ever manage it again.                         *)
(***************************************************************************)
ClosedIsFinal ==
    \A s \in Signals : told[s]["CLOSED"] > 0 =>
        /\ order[s] = "filled" /\ s \notin Open
        /\ ~(expected.active /\ expected.identifier = s)
        /\ ~(Loaded.active /\ Loaded.identifier = s)

\* The positions the broker, the memory or the disk knows.
Known ==
    Open \cup {s \in Signals :
                  (expected.active /\ expected.identifier = s) \/
                  (Loaded.active /\ Loaded.identifier = s)}

(***************************************************************************)
(* What makes ClosedIsFinal inductive: a known position is one whose order *)
(* filled, an order can fill only while it was not, and the order a        *)
(* handler works on is never a closed one.                                 *)
(***************************************************************************)
OwnershipInv ==
    /\ expected.active => expected.identifier \in Signals
    /\ Loaded.active => Loaded.identifier \in Signals
    /\ \A s \in Known : order[s] = "filled"
    /\ \A s \in Signals :
          told[s]["CLOSED"] > 0 => order[s] = "filled" /\ s \notin Known
    /\ pc \in {"preflight", "send"} => order[cur] = "checked"
    /\ pc \in {"reconcile", "persist", "OPENED", "PARTIAL", "CLOSED"} =>
          cur \in Signals /\ told[cur]["CLOSED"] = 0
    /\ pc = "CLOSED" => order[cur] = "filled" /\ cur \notin Known

(***************************************************************************)
(* POSITION_CLOSED is also the last thing subscribers hear of a position:  *)
(* no transaction handled later, and no restart, reports on it again.      *)
(***************************************************************************)
NothingAfterClosed ==
    [][\A s \in Signals : told[s]["CLOSED"] > 0 => told'[s] = told[s]]_vars

(***************************************************************************)
(* The stored signal is the one whose order opened the stored position.    *)
(* PersistSubmittedPosition adopts the one owned position whatever its     *)
(* comment, so there is an exception: an order reported as rejected after  *)
(* an ambiguous answer may fill late and be adopted under the next signal, *)
(* whose own order is then adopted under the one after it, and so on.  In  *)
(* a run without crashes and failed calls it always begins that way.       *)
(***************************************************************************)
LateFill == \E s \in Signals : told[s]["REJECTED"] > 0 /\ order[s] = "filled"

OnlyLateFillsMisattribute ==
    Loaded.active /\ Loaded.signal # Loaded.identifier => LateFill \/ faults > 0

Remembered(s) == Loaded.active /\ Loaded.identifier = s

(***************************************************************************)
(* A position that is gone is eventually forgotten, however it went: while *)
(* the expert ran, while it was down, or between a fill and its capture.   *)
(* Otherwise discovery failed or the expert gave up its authority.         *)
(***************************************************************************)
ClosedIsReleased ==
    \A s \in Signals :
        Remembered(s) /\ s \notin Open
            ~> \/ ~(Remembered(s) /\ s \notin Open)
               \/ blind
               \/ Running /\ ~authority

(***************************************************************************)
(* "The actual DEAL_ADD transaction is the sole lifecycle authority for    *)
(* clearing state and emitting close telemetry" (GoldEngineRuntime.mqh,    *)
(* CloseOwnedPosition): without faults and with everything handled, a      *)
(* position reported opened that is gone was reported closed.  It does not *)
(* hold: RecoverOwnedPositions, run for any other transaction or signal    *)
(* first, clears the state silently and the DEAL_ADD finds nothing.        *)
(***************************************************************************)
EveryCloseTold ==
    pc = "idle" /\ txns = {} /\ faults = 0 =>
        \A s \in Signals :
            told[s]["OPENED"] > 0 /\ s \notin Open => told[s]["CLOSED"] = 1
=============================================================================
