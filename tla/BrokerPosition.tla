--------------------------- MODULE BrokerPosition ---------------------------
(***************************************************************************)
(* The broker position of one signal: its execution, its ledger of broker   *)
(* actions, and the processes that plan, send, observe and reconcile them   *)
(* (goldm_signal: notify/trade_lifecycle.py, notify/position_manager.py,    *)
(* storage/database.py).                                                   *)
(*                                                                         *)
(* A step is one database transaction, with the reads of the broker that    *)
(* decide it, or one order sent to the broker.  Inside a process a lock     *)
(* (notify/cli.py) lets one job run at a time; between processes only the   *)
(* leases and the fences of the ledger do.  A process may die at any step;  *)
(* the one that replaces it is another process.                            *)
(*                                                                         *)
(* Left out: messages and their outbox; stops moved at R1 and R2 and the    *)
(* close at R3; retry_position_action, which nothing calls.  The account,   *)
(* the terminal, the entry mode and the preflight are one question that may *)
(* be answered no.  A claim takes any row, the code the oldest.  The read   *)
(* and the write of _save_execution are one step.                          *)
(***************************************************************************)
EXTENDS Naturals

CONSTANTS
    Workers,     \* the processes, each with a lease_owner of its own
    Survivor,    \* the process that is not killed
    NoOne,       \* no process; no row
    Repairs,     \* bound: RESTORE_PROTECTION rows, one after the other
    MaxFaults,   \* bound: refusals, exceptions and bad answers
    MaxOutages,  \* bound: processes that die, or stall for longer than a lease
    MaxMeddling  \* bound: stops changed at the broker by someone else

\* The rows of position_actions: OPEN, SET_INITIAL_PROTECTION, CLOSE_FULL and repairs.
Row == {"OPEN", "PROTECT", "CLOSE"} \cup Repairs

\* Rows whose outcome is committed together with the execution.
Managed == {"CLOSE"} \cup Repairs

ASSUME SurvivorAssumption == Survivor \in Workers
ASSUME NoOneAssumption == NoOne \notin Workers \cup Row
ASSUME RepairsAssumption == Repairs \cap {"OPEN", "PROTECT", "CLOSE"} = {}
ASSUME BoundsAssumption == {MaxFaults, MaxOutages, MaxMeddling} \subseteq Nat

VARIABLES
    execution,  \* trade_executions.status
    latch,      \* deferred_close_reason is set
    row,        \* row -> its status, "NONE": not created
    owner,      \* row -> its lease_owner
    pc,         \* process -> its next step
    hand,       \* process -> the row it has claimed
    position,   \* the broker's position: "hidden" is one its list does not show yet
    deadline,   \* the maximum holding time has passed
    ended,      \* the terminal event of the setup has been taken
    sent,       \* history: row -> orders sent to the broker for it
    spent       \* how much of each bound is used

ledger == <<row, owner>>
jobs == <<pc, hand>>
broker == <<position, sent>>
clock == <<deadline, ended>>
vars == <<execution, latch, ledger, jobs, broker, clock, spent>>

PendingOpen == {"OPEN_PENDING", "OPEN_SUBMITTED", "OPEN_UNKNOWN", "UNPROTECTED"}
Refused == {"CANCELLED", "REJECTED"}
Closing == {"CLOSE_REJECTED", "CLOSE_SUBMITTED", "CLOSE_UNKNOWN"}
Active == PendingOpen \cup {"FILLED"} \cup Closing

Rank == [OPEN_PENDING |-> 20, OPEN_SUBMITTED |-> 30, OPEN_UNKNOWN |-> 40,
         UNPROTECTED |-> 45, FILLED |-> 50, CLOSE_REJECTED |-> 60,
         CLOSE_SUBMITTED |-> 70, CLOSE_UNKNOWN |-> 80]

Ambiguous == {"SUBMITTED", "UNKNOWN"}
Fenced == Ambiguous \cup {"CONFIRMED"}

\* The order was sent: the broker accepted it, did not say, the call raised, it refused.
Answers == {"filled", "unclear", "lost", "refused"}

Visible == position \in {"naked", "safe"}
Ready == position = "safe"      \* stop and target are the planned ones

Spend(what, limit) ==
    /\ spent[what] < limit
    /\ spent' = [spent EXCEPT ![what] = @ + 1]

Fault == Spend("faults", MaxFaults)
Outage == Spend("outages", MaxOutages)

\* The process goes on with the row in its hand; it is done with it.
Go(w, step) == pc' = [pc EXCEPT ![w] = step] /\ UNCHANGED hand
Turn(w, step) ==
    /\ pc' = [pc EXCEPT ![w] = step]
    /\ hand' = [hand EXCEPT ![w] = NoOne]
Done(w) == Turn(w, "idle")

-----------------------------------------------------------------------------
(* Transactions.                                                            *)

\* Defect for a mutant run: a refusal is accepted whatever the execution has become.
AcceptsRefusal(current, requested) ==
    \/ current = requested
    \/ requested = "REJECTED"
    \/ requested = "CLOSED" /\ current \in {"FILLED"} \cup Closing
    \/ /\ {current, requested} \subseteq Active
       /\ Rank[current] <= Rank[requested]

\* _resolve_trade_execution_status
Accepts(current, requested) ==
    \/ current = requested
    \/ requested = "REJECTED" /\ current \in {"OPEN_PENDING", "OPEN_SUBMITTED"}
    \/ requested = "CLOSED" /\ current \in {"FILLED"} \cup Closing
    \/ /\ {current, requested} \subseteq Active
       /\ Rank[current] <= Rank[requested]

Save(status) ==
    execution' = IF Accepts(execution, status) THEN status ELSE execution

\* Every new status of a row clears its lease.
Put(r, status) ==
    /\ row' = [row EXCEPT ![r] = status]
    /\ owner' = [owner EXCEPT ![r] = NoOne]

\* A row is created with nobody's lease on it.
Create(r) == Put(r, "PENDING")

\* Defect for a mutant run: the lease is not compared.
MarkAnyones(r, status, by) ==
    IF row[r] \in {"PENDING", "FAILED"} \cup Ambiguous
    THEN Put(r, status) ELSE UNCHANGED ledger

\* mark_position_action_failed and _unknown, by a lease owner or without one.  Nobody
\* looks at whether the row was changed.
Mark(r, status, by) ==
    IF owner[r] = by /\ row[r] \in {"PENDING", "FAILED"} \cup Ambiguous
    THEN Put(r, status) ELSE UNCHANGED ledger

SettlesFrom(outcome) ==
    CASE outcome = "CONFIRMED" -> Fenced \cup {"FAILED"}
      [] outcome = "FAILED" -> Ambiguous \cup {"PENDING", "FAILED"}
      [] outcome = "UNKNOWN" -> Ambiguous

Projected(r, outcome) ==
    CASE r = "CLOSE" /\ execution = "CLOSED" -> "CLOSED"
      [] r = "CLOSE" /\ execution # "CLOSED" ->
            [CONFIRMED |-> "CLOSE_SUBMITTED", FAILED |-> "CLOSE_REJECTED",
             UNKNOWN |-> "CLOSE_UNKNOWN"][outcome]
      [] r \in Repairs -> IF outcome = "CONFIRMED" THEN "FILLED" ELSE "UNPROTECTED"

\* finalize_position_management_action: the row and the execution at once, whoever has
\* the lease and whatever the execution is.  From any other status it raises.
Settle(r, outcome) ==
    IF row[r] \in SettlesFrom(outcome)
    THEN Put(r, outcome) /\ execution' = Projected(r, outcome)
    ELSE UNCHANGED <<ledger, execution>>

\* confirm_trade_position raises unless
CanConfirm(r) ==
    /\ {row[r], row["OPEN"]} \subseteq Fenced
    /\ \/ execution = "FILLED"
       \/ execution \in PendingOpen /\ (execution = "UNPROTECTED" <=> r = "PROTECT")

Confirm(r) ==
    /\ execution' = "FILLED"
    /\ row' = [row EXCEPT !["OPEN"] = "CONFIRMED", ![r] = "CONFIRMED"]
    /\ owner' = [owner EXCEPT !["OPEN"] = NoOne, ![r] = NoOne]

\* What _drain_pending_actions does with the row of an action that raised: a pending
\* one failed, a submitted one is ambiguous.  Repairs are not treated as management.
Aborted(w) ==
    LET r == hand[w]
    IN  CASE r = "CLOSE" /\ row[r] = "PENDING" -> Settle(r, "FAILED")
          [] r = "CLOSE" /\ row[r] = "SUBMITTED" -> Settle(r, "UNKNOWN")
          [] r # "CLOSE" /\ row[r] = "PENDING" ->
                Mark(r, "FAILED", w) /\ UNCHANGED execution
          [] r # "CLOSE" /\ row[r] = "SUBMITTED" ->
                Mark(r, "UNKNOWN", NoOne) /\ UNCHANGED execution
          [] OTHER -> UNCHANGED <<ledger, execution>>

\* Defect for a mutant run: the pending order is left in the ledger.
CancelKeepsRow ==
    /\ execution = "OPEN_PENDING" /\ row["OPEN"] = "PENDING"
    /\ execution' = "CANCELLED"
    /\ UNCHANGED ledger

\* cancel_pending_open_for_terminal_event: nothing has gone out yet.
CancelPending ==
    /\ execution = "OPEN_PENDING" /\ row["OPEN"] = "PENDING"
    /\ execution' = "CANCELLED"
    /\ Put("OPEN", "FAILED")

-----------------------------------------------------------------------------
(* The signal and its terminal event (trade_lifecycle.py).                  *)

\* _process_signal: the checks before the intent refuse, or the setup is over, or the
\* intent is written, while no terminal event of the setup exists.
Plan(w) ==
    /\ pc[w] = "idle" /\ execution = "NONE"
    /\ \/ execution' \in {"REJECTED", "CANCELLED"} /\ UNCHANGED <<ledger, jobs>>
       \/ /\ ~ended
          /\ execution' = "OPEN_PENDING"
          /\ Create("OPEN")
          /\ Turn(w, "planned")
    /\ UNCHANGED <<latch, broker, clock, spent>>

\* The signal's message is completed; if that raises, the signal is rejected after all.
Enrich(w) ==
    /\ pc[w] = "planned"
    /\ Done(w)
    /\ UNCHANGED <<execution, latch, ledger, broker, clock, spent>>

EnrichFails(w) ==
    /\ pc[w] = "planned" /\ Fault
    /\ Save("REJECTED")
    /\ Done(w)
    /\ UNCHANGED <<latch, ledger, broker, clock>>

\* _process_terminal_event: a pending order is cancelled, one that is out is latched for
\* closing, and an execution that is over stays as it is.
Terminal(w) ==
    /\ pc[w] = "idle" /\ ~ended
    /\ ended' = TRUE
    /\ \/ execution = "NONE" /\ UNCHANGED <<execution, latch, ledger, jobs>>
       \/ CancelPending /\ UNCHANGED <<latch, jobs>>
       \/ /\ execution \in Refused \cup {"CLOSED"} \/ row["OPEN"] = "FAILED"
          /\ IF row["OPEN"] = "PENDING" THEN Put("OPEN", "FAILED") ELSE UNCHANGED ledger
          /\ UNCHANGED <<execution, latch, jobs>>
       \/ /\ execution \in Active /\ row["OPEN"] \in Fenced
          /\ latch' = TRUE
          /\ IF execution = "FILLED" THEN Turn(w, "queueing") ELSE UNCHANGED jobs
          /\ UNCHANGED <<execution, ledger>>
    /\ UNCHANGED <<broker, deadline, spent>>

-----------------------------------------------------------------------------
(* _drain_pending_actions: the rows that are pending.                       *)

\* Defect for a mutant run: a lease does not end with the process that has it.
FreeOnly(r) == owner[r] = NoOne /\ UNCHANGED spent

\* The lease is free, or has run out: its owner is dead or has stalled.
Claimable(r) ==
    \/ (IF owner[r] = NoOne THEN TRUE ELSE pc[owner[r]] = "dead") /\ UNCHANGED spent
    \/ owner[r] # NoOne /\ Outage

\* claim_position_action
Claim(w) ==
    /\ pc[w] = "idle"
    /\ \E r \in Row :
        /\ row[r] = "PENDING" /\ Claimable(r)
        /\ owner' = [owner EXCEPT ![r] = w]
        /\ pc' = [pc EXCEPT ![w] = "claimed"]
        /\ hand' = [hand EXCEPT ![w] = r]
    /\ UNCHANGED <<execution, latch, row, broker, clock>>

\* The account is another one: a protection or a close is given back for later.
Defer(w) ==
    /\ pc[w] = "claimed" /\ hand[w] # "OPEN" /\ Fault
    /\ owner' = IF owner[hand[w]] = w THEN [owner EXCEPT ![hand[w]] = NoOne] ELSE owner
    /\ Done(w)
    /\ UNCHANGED <<execution, latch, row, broker, clock>>

\* The mode, a guard or the preflight refuse the order.  The row is marked under the
\* lease; the execution is rejected next, whether or not the row was.
RefuseOpen(w) ==
    /\ pc[w] = "claimed" /\ hand[w] = "OPEN" /\ Fault
    /\ Mark("OPEN", "FAILED", w)
    /\ Turn(w, "rejecting")
    /\ UNCHANGED <<execution, latch, broker, clock>>

RejectExecution(w) ==
    /\ pc[w] = "rejecting"
    /\ Save("REJECTED")
    /\ Done(w)
    /\ UNCHANGED <<latch, ledger, broker, clock, spent>>

\* A guard refuses a protection, a repair or a close.
Refuse(w) ==
    /\ pc[w] = "claimed" /\ hand[w] # "OPEN" /\ Visible /\ Fault
    /\ IF hand[w] \in Managed
       THEN Settle(hand[w], "FAILED")
       ELSE Mark(hand[w], "FAILED", w) /\ UNCHANGED execution
    /\ Done(w)
    /\ UNCHANGED <<latch, broker, clock>>

\* There is no position to protect.
NothingToProtect(w) ==
    /\ pc[w] = "claimed" /\ hand[w] \in {"PROTECT"} \cup Repairs /\ ~Visible
    /\ IF hand[w] \in Repairs
       THEN Settle(hand[w], "FAILED")
       ELSE Mark(hand[w], "UNKNOWN", w) /\ UNCHANGED execution
    /\ Done(w)
    /\ UNCHANGED <<latch, broker, clock, spent>>

\* What the action is for can be seen at the broker.
Achieved(r) == IF r = "CLOSE" THEN ~Visible ELSE Ready

\* Defect for a mutant run: a row that is submitted already counts as fenced again.
FencedAgain(w) ==
    \/ row[hand[w]] = "SUBMITTED"
    \/ row[hand[w]] = "PENDING" /\ owner[hand[w]] = w

\* mark_position_action_submitted asks for the lease, not for the time left on it.
HasFence(w) == row[hand[w]] = "PENDING" /\ owner[hand[w]] = w

\* _fence_submitted, before anything is sent.
Submit(w) ==
    /\ pc[w] = "claimed"
    /\ hand[w] \in {"PROTECT"} \cup Repairs => Visible
    /\ HasFence(w)
    /\ Put(hand[w], "SUBMITTED")
    /\ Go(w, CASE hand[w] = "OPEN" -> "fenced"
               [] hand[w] # "OPEN" /\ Achieved(hand[w]) -> "seen"
               [] OTHER -> "armed")
    /\ UNCHANGED <<execution, latch, broker, clock, spent>>

LoseFence(w) ==
    /\ pc[w] = "claimed"
    /\ hand[w] \in {"PROTECT"} \cup Repairs => Visible
    /\ ~HasFence(w)
    /\ Aborted(w)
    /\ Done(w)
    /\ UNCHANGED <<latch, broker, clock, spent>>

SaveSubmitted(w) ==
    /\ pc[w] = "fenced"
    /\ Save("OPEN_SUBMITTED")
    /\ Go(w, "armed")
    /\ UNCHANGED <<latch, ledger, broker, clock, spent>>

\* A guard is asked again after the fence.
Withdraw(w) ==
    /\ pc[w] = "armed" /\ Fault
    /\ \/ /\ hand[w] = "OPEN"
          /\ Mark("OPEN", "FAILED", NoOne) /\ Turn(w, "rejecting") /\ UNCHANGED execution
       \/ /\ hand[w] = "PROTECT"
          /\ Mark("PROTECT", "FAILED", NoOne) /\ Done(w) /\ UNCHANGED execution
       \/ hand[w] \in Managed /\ Settle(hand[w], "FAILED") /\ Done(w)
    /\ UNCHANGED <<latch, broker, clock>>

\* A read of the broker raises, before the order or after it.
Raise(w) ==
    /\ pc[w] \in {"claimed", "armed"} \cup Answers /\ Fault
    /\ Aborted(w)
    /\ Done(w)
    /\ UNCHANGED <<latch, broker, clock>>

-----------------------------------------------------------------------------
(* The broker carries an order out, or does not, and answers, or does not.  *)

SendOpen(w) ==
    /\ hand[w] = "OPEN"
    /\ \/ position' = "safe" /\ Go(w, "filled") /\ UNCHANGED spent
       \/ /\ Fault
          /\ \/ position' \in {"hidden", "naked"} /\ Go(w, "filled")
             \/ /\ position' \in {"none", "hidden", "naked", "safe"}
                /\ \E answer \in {"unclear", "lost"} : Go(w, answer)
             \/ UNCHANGED position /\ Go(w, "refused")

SendProtection(w) ==
    /\ hand[w] \in {"PROTECT"} \cup Repairs
    /\ \/ ~Visible /\ Go(w, "refused") /\ UNCHANGED <<position, spent>>
       \/ Visible /\ position' = "safe" /\ Go(w, "filled") /\ UNCHANGED spent
       \/ /\ Visible /\ Fault
          /\ \/ /\ position' \in {position, "safe"}
                /\ \E answer \in {"unclear", "lost"} : Go(w, answer)
             \/ UNCHANGED position /\ Go(w, "refused")

\* A close that is filled in part leaves the position.
SendClose(w) ==
    /\ hand[w] = "CLOSE"
    /\ \/ ~Visible /\ Go(w, "refused") /\ UNCHANGED <<position, spent>>
       \/ Visible /\ position' = "gone" /\ Go(w, "filled") /\ UNCHANGED spent
       \/ /\ Visible /\ Fault
          /\ \/ /\ position' \in {position, "gone"}
                /\ \E answer \in {"unclear", "lost"} : Go(w, answer)
             \/ UNCHANGED position /\ \E answer \in {"filled", "refused"} : Go(w, answer)

Send(w) ==
    /\ pc[w] = "armed"
    /\ SendOpen(w) \/ SendProtection(w) \/ SendClose(w)
    /\ sent' = [sent EXCEPT ![hand[w]] = @ + 1]
    /\ UNCHANGED <<execution, latch, ledger, clock>>

-----------------------------------------------------------------------------
(* After the answer the position is read again, and that decides.           *)

\* bind_unprotected_trade_position, and what _adopt_or_protect_position does next.
Bind(w) ==
    /\ execution \in PendingOpen
    /\ execution' = "UNPROTECTED"
    /\ Turn(w, IF deadline THEN "queueing" ELSE "bound")
    /\ UNCHANGED ledger

\* The position is there with its stop and target.
ConfirmOrAbort(w) ==
    /\ IF CanConfirm(hand[w]) THEN Confirm(hand[w]) ELSE Aborted(w)
    /\ Done(w)

\* mark_position_action_unknown is called with an argument it does not have, so an
\* incomplete position found under a SUBMITTED order raises.
OpenAnswered(w) ==
    /\ pc[w] \in Answers /\ hand[w] = "OPEN"
    /\ \/ pc[w] = "lost" /\ Aborted(w) /\ Done(w)
       \/ pc[w] # "lost" /\ Ready /\ ConfirmOrAbort(w)
       \/ /\ pc[w] # "lost" /\ position = "naked"
          /\ IF row["OPEN"] # "SUBMITTED" /\ execution \in PendingOpen
             THEN Bind(w)
             ELSE Aborted(w) /\ Done(w)
       \/ /\ ~Visible /\ UNCHANGED execution
          /\ \/ pc[w] = "filled" /\ Mark("OPEN", "UNKNOWN", NoOne) /\ Done(w)
             \/ pc[w] = "unclear" /\ Mark("OPEN", "UNKNOWN", NoOne) /\ Turn(w, "doubting")
             \/ pc[w] = "refused" /\ Mark("OPEN", "FAILED", NoOne) /\ Turn(w, "rejecting")
    /\ UNCHANGED <<latch, broker, clock, spent>>

SaveUnknown(w) ==
    /\ pc[w] = "doubting"
    /\ Save("OPEN_UNKNOWN")
    /\ Done(w)
    /\ UNCHANGED <<latch, ledger, broker, clock, spent>>

Verdict(w) ==
    CASE pc[w] = "seen" -> "CONFIRMED"
      [] pc[w] = "lost" -> "UNKNOWN"
      [] pc[w] \in Answers \ {"lost"} /\ Achieved(hand[w]) -> "CONFIRMED"
      [] pc[w] = "unclear" /\ ~Achieved(hand[w]) -> "UNKNOWN"
      [] pc[w] = "filled" /\ ~Achieved(hand[w]) ->
            IF hand[w] = "CLOSE" THEN "UNKNOWN" ELSE "FAILED"
      [] pc[w] = "refused" /\ ~Achieved(hand[w]) -> "FAILED"

\* The status that is saved after a close was settled is the one it was settled to.
Answered(w) ==
    /\ pc[w] \in Answers \cup {"seen"} /\ hand[w] # "OPEN"
    /\ \/ hand[w] \in Managed /\ Settle(hand[w], Verdict(w)) /\ Done(w)
       \/ /\ hand[w] = "PROTECT"
          /\ IF Verdict(w) = "CONFIRMED"
             THEN ConfirmOrAbort(w)
             ELSE Mark("PROTECT", Verdict(w), NoOne) /\ Done(w) /\ UNCHANGED execution
    /\ UNCHANGED <<latch, broker, clock, spent>>

\* The initial protection is created once, under one key.
CreateProtection(w) ==
    /\ pc[w] = "bound"
    /\ IF row["PROTECT"] = "NONE" THEN Create("PROTECT") ELSE UNCHANGED ledger
    /\ Done(w)
    /\ UNCHANGED <<execution, latch, broker, clock, spent>>

-----------------------------------------------------------------------------
(* run_once, for an execution that is active.                               *)

\* Reconciling OPEN raises, in every cycle, and the rest of the cycle is not reached: an
\* incomplete position under a SUBMITTED order, or one that confirm_trade_position or
\* bind_unprotected_trade_position refuse.
Blocked ==
    /\ row["OPEN"] \in Ambiguous /\ Visible
    /\ IF Ready THEN ~CanConfirm("OPEN")
                ELSE row["OPEN"] = "SUBMITTED" \/ execution \notin PendingOpen

Manages(w) == pc[w] = "idle" /\ execution \in Active /\ ~Blocked

\* A reconciled initial protection would change nothing: while it is ambiguous so is OPEN.
ReconcileOpen(w) ==
    /\ Manages(w) /\ row["OPEN"] \in Ambiguous
    /\ \/ Ready /\ Confirm("OPEN") /\ UNCHANGED jobs
       \/ /\ position = "naked"
          /\ \/ execution # "UNPROTECTED"
             \/ row[IF deadline THEN "CLOSE" ELSE "PROTECT"] = "NONE"
          /\ Bind(w)
    /\ UNCHANGED <<latch, broker, clock, spent>>

ReconcileRepair(w) ==
    /\ Manages(w)
    /\ \E r \in Repairs :
        /\ row[r] \in Ambiguous
        /\ \/ Ready /\ Settle(r, "CONFIRMED")
           \/ ~Visible /\ Settle(r, "FAILED")
    /\ UNCHANGED <<latch, jobs, broker, clock, spent>>

ReconcileClose(w) ==
    /\ Manages(w)
    /\ row["CLOSE"] \in Ambiguous /\ ~Visible
    /\ Settle("CLOSE", "CONFIRMED")
    /\ UNCHANGED <<latch, jobs, broker, clock, spent>>

Spare == {r \in Repairs : row[r] = "NONE"}
RepairWanted == Spare # {} /\ \A r \in Repairs : row[r] \in {"NONE", "CONFIRMED"}

\* Defect for a mutant run: the holding time is looked at only once the stop is back.
ManageFilledLate(w) ==
    /\ Manages(w) /\ execution \in {"FILLED"} \cup Closing /\ Visible
    /\ execution' = IF execution = "FILLED" /\ ~Ready THEN "UNPROTECTED" ELSE execution
    /\ \/ ~Ready /\ Turn(w, "repairing")
       \/ Ready /\ latch /\ row["CLOSE"] = "NONE" /\ Turn(w, "queueing")
    /\ UNCHANGED <<latch, ledger, broker, clock, spent>>

\* _manage_filled_position: a position without its stop is UNPROTECTED again; the latch
\* and the holding time come before the repair.
ManageFilled(w) ==
    /\ Manages(w) /\ execution \in {"FILLED"} \cup Closing /\ Visible
    /\ execution' = IF execution = "FILLED" /\ ~Ready THEN "UNPROTECTED" ELSE execution
    /\ \/ (latch \/ deadline) /\ row["CLOSE"] = "NONE" /\ Turn(w, "queueing")
       \/ /\ (latch \/ deadline) => row["CLOSE"] # "NONE"
          /\ execution = "FILLED" /\ ~Ready
          /\ IF latch \/ deadline THEN UNCHANGED jobs ELSE Turn(w, "repairing")
    /\ UNCHANGED <<latch, ledger, broker, clock, spent>>

\* _process_execution, UNPROTECTED after it had been filled: the latch is not looked at.
\* Before it was filled, ReconcileOpen has done all there is to do.
ProcessUnprotected(w) ==
    /\ Manages(w) /\ execution = "UNPROTECTED" /\ Visible
    /\ row["OPEN"] = "CONFIRMED"
    /\ \/ deadline /\ row["CLOSE"] = "NONE" /\ Turn(w, "queueing")
       \/ ~deadline /\ RepairWanted /\ Turn(w, "repairing")
    /\ UNCHANGED <<execution, latch, ledger, broker, clock, spent>>

\* queue_close, if the position is still there and no close was ever asked for.
QueueClose(w) ==
    /\ pc[w] = "queueing"
    /\ IF Visible /\ row["CLOSE"] = "NONE" /\ execution \in {"FILLED", "UNPROTECTED"}
       THEN Create("CLOSE") ELSE UNCHANGED ledger
    /\ Done(w)
    /\ UNCHANGED <<execution, latch, broker, clock, spent>>

\* _stage_filled_protection_repair: not while the last one is open, failed or ambiguous.
StageRepair(w) ==
    /\ pc[w] = "repairing"
    /\ IF /\ RepairWanted
          /\ execution \in {"FILLED", "UNPROTECTED"} /\ row["OPEN"] = "CONFIRMED"
       THEN Create(CHOOSE r \in Spare : TRUE) ELSE UNCHANGED ledger
    /\ Done(w)
    /\ UNCHANGED <<execution, latch, broker, clock, spent>>

\* _reconcile_closed_execution, once the deals of the close are in the broker's history.
ReconcileClosed(w) ==
    /\ Manages(w) /\ execution \in {"FILLED"} \cup Closing /\ position = "gone"
    /\ Save("CLOSED")
    /\ UNCHANGED <<latch, ledger, jobs, broker, clock, spent>>

\* _reconcile_unobserved_open_history: opened and closed before it was ever seen.
ReconcileUnobserved(w) ==
    /\ Manages(w) /\ execution = "OPEN_SUBMITTED" /\ position = "gone"
    /\ Save("OPEN_UNKNOWN")
    /\ UNCHANGED <<latch, ledger, jobs, broker, clock, spent>>

-----------------------------------------------------------------------------
(* Everything else that happens.                                            *)

Meddle == Spend("meddling", MaxMeddling)

\* The broker's list shows the position; it is closed at its stop, its target or by hand;
\* someone else takes its stop away or puts it back.
Appear ==
    /\ position = "hidden"
    /\ position' \in {"naked", "safe"}
    /\ UNCHANGED <<execution, latch, ledger, jobs, sent, clock, spent>>

BrokerCloses ==
    /\ position \in {"hidden", "naked", "safe"}
    /\ position' = "gone"
    /\ UNCHANGED <<execution, latch, ledger, jobs, sent, clock, spent>>

Tamper ==
    /\ Visible /\ Meddle
    /\ position' = IF Ready THEN "naked" ELSE "safe"
    /\ UNCHANGED <<execution, latch, ledger, jobs, sent, clock>>

TimePasses ==
    /\ Visible /\ ~deadline
    /\ deadline' = TRUE
    /\ UNCHANGED <<execution, latch, ledger, jobs, broker, ended, spent>>

Die(w) ==
    /\ w # Survivor /\ pc[w] # "dead" /\ Outage
    /\ Turn(w, "dead")
    /\ UNCHANGED <<execution, latch, ledger, broker, clock>>

Broker == Appear \/ BrokerCloses \/ Tamper

-----------------------------------------------------------------------------
Init ==
    /\ execution = "NONE"
    /\ latch = FALSE
    /\ row = [r \in Row |-> "NONE"]
    /\ owner = [r \in Row |-> NoOne]
    /\ pc = [w \in Workers |-> "idle"]
    /\ hand = [w \in Workers |-> NoOne]
    /\ position = "none"
    /\ deadline = FALSE
    /\ ended = FALSE
    /\ sent = [r \in Row |-> 0]
    /\ spent = [faults |-> 0, outages |-> 0, meddling |-> 0]

Lifecycle(w) == Plan(w) \/ Enrich(w) \/ EnrichFails(w)

Execute(w) ==
    \/ Claim(w) \/ Defer(w) \/ RefuseOpen(w) \/ RejectExecution(w) \/ Refuse(w)
    \/ NothingToProtect(w) \/ Submit(w) \/ LoseFence(w) \/ SaveSubmitted(w)
    \/ Withdraw(w) \/ Raise(w) \/ Send(w) \/ OpenAnswered(w) \/ SaveUnknown(w)
    \/ Answered(w) \/ CreateProtection(w)

Manage(w) ==
    \/ ReconcileOpen(w) \/ ReconcileRepair(w) \/ ReconcileClose(w)
    \/ ManageFilled(w) \/ ProcessUnprotected(w) \/ QueueClose(w) \/ StageRepair(w)
    \/ ReconcileClosed(w) \/ ReconcileUnobserved(w)

Step(w) == Lifecycle(w) \/ Execute(w) \/ Manage(w)

Next ==
    \/ \E w \in Workers : Step(w) \/ Terminal(w) \/ Die(w)
    \/ Broker \/ TimePasses

Spec == Init /\ [][Next]_vars

\* The loops of cli.py go on in a process that lives, a lease of a dead process runs out,
\* and the broker's list catches up.
FairSpec ==
    /\ Spec
    /\ \A w \in Workers : WF_vars(Step(w))
    /\ WF_vars(Appear)

-----------------------------------------------------------------------------
(* Properties.                                                              *)

RowStatus == {"NONE", "PENDING", "FAILED"} \cup Fenced
Place == {"idle", "planned", "claimed", "seen", "fenced", "armed", "rejecting", "doubting",
          "bound", "queueing", "repairing", "dead"} \cup Answers
Spending == [{"faults", "outages", "meddling"} -> Nat]

TypeOK ==
    /\ execution \in {"NONE", "CLOSED"} \cup Refused \cup Active
    /\ latch \in BOOLEAN
    /\ row \in [Row -> RowStatus]
    /\ owner \in [Row -> Workers \cup {NoOne}]
    /\ pc \in [Workers -> Place]
    /\ hand \in [Workers -> Row \cup {NoOne}]
    /\ position \in {"none", "hidden", "naked", "safe", "gone"}
    /\ deadline \in BOOLEAN
    /\ ended \in BOOLEAN
    /\ sent \in [Row -> Nat]
    /\ spent \in Spending

\* No order is sent twice for one row of the ledger: not by a process that stalled past
\* its lease, not by the one that took the row over, not after a restart.
OneSendPerRow == \A r \in Row : sent[r] <= 1

\* An OPEN that is reported FAILED has left no position at the broker and never will.
FailedMeansNoOrder ==
    row["OPEN"] = "FAILED" =>
        /\ position = "none"
        /\ \A w \in Workers : pc[w] \in {"fenced", "armed"} => hand[w] # "OPEN"

\* An execution that is CANCELLED never had an order sent, one that is CLOSED has no
\* position any more.
OverIsFlat ==
    /\ execution = "CANCELLED" => sent["OPEN"] = 0 /\ row["OPEN"] \in {"NONE", "FAILED"}
    /\ execution = "CLOSED" => position = "gone"

\* No order of the signal went out, and no process is on its way to send one.
NothingOut ==
    /\ row["OPEN"] \in {"NONE", "FAILED"} /\ position = "none"
    /\ \A w \in Workers : pc[w] \in {"fenced", "armed"} => hand[w] # "OPEN"

\* The execution is rejected although its order is, or is about to go, out: nothing of
\* the program looks after what becomes of it (AlwaysManaged).
Stranded == execution = "REJECTED" /\ row["OPEN"] \in Fenced

\* The terminal event of a setup is taken once, and from then on nothing is out and
\* nothing will be, or the close is latched on an execution that is still managed, or the
\* position is gone.  There is one exception: an execution that had been
\* rejected over an order that is out counts as over (ALREADY_TERMINAL), also one that
\* is rejected after the latch, and its position is left to its stop and target.
EventIsAnswered ==
    ended =>
        \/ NothingOut
        \/ latch /\ execution \in Active /\ row["OPEN"] \in Fenced
        \/ position = "gone"
        \/ Stranded

\* What makes it inductive, from the rows and the execution alone.
EventInv ==
    ended =>
        /\ row["OPEN"] # "PENDING"
        /\ row["OPEN"] \in Fenced =>
              \/ latch /\ execution \in Active
              \/ execution = "REJECTED" \/ position = "gone"

\* A process has a row in its hand from the claim to the end of the job, and from the
\* fence on it is the only one that does.
Holding == {"claimed", "seen", "fenced", "armed"} \cup Answers
PastFence == Holding \ {"claimed"}

HandsOK ==
    /\ \A w \in Workers :
        /\ IF pc[w] \in Holding
           THEN hand[w] \in Row /\ row[hand[w]] # "NONE"
           ELSE hand[w] = NoOne
        /\ pc[w] = "fenced" => hand[w] = "OPEN"
        /\ pc[w] = "seen" => hand[w] # "OPEN"
        /\ pc[w] \in PastFence => row[hand[w]] # "PENDING"
    /\ \A v, w \in Workers :
        /\ pc[v] \in PastFence /\ pc[w] \in PastFence
        /\ hand[v] = hand[w]
        => v = w

\* A lease is on a pending row; what is sent is no longer pending; and it was sent once
\* by who is waiting for an answer, and never by who is still to send it.
LedgerOK ==
    /\ \A r \in Row :
        /\ owner[r] # NoOne => row[r] = "PENDING"
        /\ row[r] \in {"NONE", "PENDING"} => sent[r] = 0
    /\ \A w \in Workers :
        /\ pc[w] \in {"fenced", "armed"} => sent[hand[w]] = 0
        /\ pc[w] \in Answers => sent[hand[w]] = 1

\* The broker has a position only of an order that was sent, and an OPEN that failed was
\* refused before it left anything.
OpenOK ==
    /\ sent["OPEN"] = 0 => position = "none"
    /\ \A w \in Workers : hand[w] = "OPEN" =>
        /\ pc[w] = "refused" => position = "none"
        /\ pc[w] \in PastFence => row["OPEN"] # "FAILED"

\* Executions whose position the program has seen, or takes to be closed.
Observed == {"UNPROTECTED", "FILLED", "CLOSED"} \cup Closing

\* The execution and the ledger agree: nothing is observed without an OPEN that went out,
\* no close and no repair is there before, and FILLED is built on a confirmed OPEN.
ExecutionOK ==
    /\ execution = "NONE" => row["OPEN"] = "NONE"
    /\ row["OPEN"] = "NONE" => execution \in {"NONE"} \cup Refused
    /\ execution \in Observed => row["OPEN"] \in Fenced /\ position # "none"
    /\ (\E r \in Managed : row[r] # "NONE") => execution \in Observed
    /\ execution = "FILLED" \/ (\E r \in Repairs : row[r] # "NONE") =>
          row["OPEN"] = "CONFIRMED"

\* The inductive invariant: executions, rows, leases, processes and the broker fit.
BrokerInv ==
    /\ TypeOK /\ HandsOK /\ LedgerOK /\ OpenOK /\ ExecutionOK
    /\ OneSendPerRow /\ FailedMeansNoOrder /\ OverIsFlat /\ EventInv

\* A refused or cancelled execution stays so.
RefusedIsFinal == [][(execution \in Refused) => (execution' = execution)]_vars

\* Pending actions are carried out, refused or found ambiguous, whoever dies meanwhile.
LedgerDrains == <>[](\A r \in Row : row[r] # "PENDING")

\* A position past its holding time is closed or a close is asked for, once it had been
\* confirmed.
DeadlineCloses ==
    (deadline /\ Visible /\ row["OPEN"] = "CONFIRMED") ~>
        (~Visible \/ row["CLOSE"] # "NONE")

\* An authorised order's position is managed as long as it is open.
AlwaysManaged == Visible => execution \in Active

=============================================================================
