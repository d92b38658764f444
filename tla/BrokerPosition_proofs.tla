------------------------ MODULE BrokerPosition_proofs ------------------------
(***************************************************************************)
(* Theorems about BrokerPosition, for any processes, repairs and bounds.    *)
(*                                                                         *)
(* The argument: a row leaves PENDING once, under a lease, so past the      *)
(* fence there is one process with it, and only that one sends.  What the   *)
(* ledger and the execution may become is then decided by a few kinds of    *)
(* steps (Resolved, Moves, Create, Confirm), each of which keeps the         *)
(* invariant; every action but five is one of them.                         *)
(***************************************************************************)
EXTENDS BrokerPosition, TLAPS

\* What is saved as an execution's status can only be late for one that has not been
\* observed yet.
LEMMA SaveEffect ==
    ASSUME TypeOK, NEW s \in {"REJECTED", "OPEN_SUBMITTED", "OPEN_UNKNOWN"}, Save(s)
    PROVE  \/ execution' = execution
           \/ /\ execution' = s
              /\ execution \in {"OPEN_PENDING", "OPEN_SUBMITTED", "OPEN_UNKNOWN"}
  <1>1. ASSUME Accepts(execution, s), execution # s
        PROVE  execution \in {"OPEN_PENDING", "OPEN_SUBMITTED", "OPEN_UNKNOWN"}
    BY <1>1 DEF Accepts, TypeOK, Rank, Active, PendingOpen, Closing, Refused
  <1> QED
    BY <1>1 DEF Save

LEMMA MarkEffect ==
    ASSUME NEW r \in Row, NEW s, NEW by, Mark(r, s, by)
    PROVE  \/ UNCHANGED ledger
           \/ /\ Put(r, s) /\ owner[r] = by
              /\ row[r] \in {"PENDING", "FAILED"} \cup Ambiguous
  BY DEF Mark

LEMMA SettleEffect ==
    ASSUME NEW r \in Managed, NEW o \in {"CONFIRMED", "FAILED", "UNKNOWN"}, Settle(r, o)
    PROVE  \/ UNCHANGED <<ledger, execution>>
           \/ /\ Put(r, o) /\ row[r] \notin {"NONE"}
              /\ row[r] = "PENDING" => o = "FAILED"
              /\ execution' \in Observed
              /\ execution' = "CLOSED" => execution = "CLOSED"
              /\ execution' = "FILLED" => r \in Repairs
  BY RepairsAssumption
  DEF Settle, SettlesFrom, Projected, Managed, Observed, Closing, Fenced, Ambiguous

LEMMA AbortedEffect ==
    ASSUME NEW w \in Workers, hand[w] \in Row, Aborted(w)
    PROVE  \/ UNCHANGED <<ledger, execution>>
           \/ /\ row[hand[w]] = "PENDING" /\ owner[hand[w]] = w
              /\ hand[w] # "CLOSE"
              /\ Put(hand[w], "FAILED") /\ UNCHANGED execution
           \/ /\ row[hand[w]] = "SUBMITTED" /\ Put(hand[w], "UNKNOWN") /\ UNCHANGED execution
           \/ /\ hand[w] = "CLOSE" /\ Settle("CLOSE", "FAILED")
           \/ /\ hand[w] = "CLOSE" /\ Settle("CLOSE", "UNKNOWN")
  BY DEF Aborted, Mark

-----------------------------------------------------------------------------
(* What the steps of the model have in common.                              *)

LEMMA Rows ==
    /\ {"OPEN", "PROTECT", "CLOSE"} \subseteq Row /\ Managed \subseteq Row
    /\ Repairs \subseteq Managed /\ "CLOSE" \in Managed
    /\ {"OPEN", "PROTECT"} \cap Managed = {} /\ "CLOSE" \notin Repairs
    /\ Row = {"OPEN", "PROTECT"} \cup Managed
    /\ NoOne \notin Row /\ NoOne \notin Workers
  BY RepairsAssumption, NoOneAssumption DEF Row, Managed

LEMMA PutEffect ==
    ASSUME TypeOK, NEW r \in Row, NEW s \in RowStatus, Put(r, s)
    PROVE  /\ row' \in [Row -> RowStatus]
           /\ owner' \in [Row -> Workers \cup {NoOne}]
           /\ row'[r] = s /\ owner'[r] = NoOne
           /\ \A q \in Row \ {r} : row'[q] = row[q] /\ owner'[q] = owner[q]
  BY DEF Put, TypeOK, RowStatus

\* A process puts down what it has in its hand, or keeps what it has.
Leaves(w) ==
    \/ UNCHANGED jobs
    \/ \E step \in {"idle", "rejecting", "doubting", "bound", "queueing", "repairing",
                     "dead"} : Turn(w, step)

LEMMA LeaveEffect ==
    ASSUME TypeOK, HandsOK, NEW w \in Workers, Leaves(w)
    PROVE  /\ pc' \in [Workers -> Place]
           /\ hand' \in [Workers -> Row \cup {NoOne}]
           /\ \A v \in Workers :
                IF pc'[v] \in Holding THEN pc'[v] = pc[v] /\ hand'[v] = hand[v]
                                      ELSE hand'[v] = NoOne
           /\ \A step : Turn(w, step) => hand'[w] = NoOne
  <1> USE DEF Holding, Answers
  <1>1. CASE UNCHANGED jobs
    BY <1>1, Rows DEF TypeOK, HandsOK, Turn, jobs
  <1>2. ASSUME NEW step \in {"idle", "rejecting", "doubting", "bound", "queueing",
                             "repairing", "dead"}, Turn(w, step)
        PROVE  /\ pc' = [pc EXCEPT ![w] = step] /\ hand' = [hand EXCEPT ![w] = NoOne]
               /\ step \notin Holding
    BY <1>2 DEF Turn
  <1>3. CASE ~UNCHANGED jobs
    BY <1>2, <1>3 DEF Leaves, TypeOK, HandsOK, Turn, Place
  <1> QED
    BY <1>1, <1>3

\* Row r is given an outcome, or none.  An OPEN fails only while there is no position and
\* nobody but w can still send it; the execution is observed already if it changes.
Outcome(w, r, s) ==
    /\ Put(r, s) /\ row[r] # "NONE"
    /\ r = "OPEN" =>
          /\ row["OPEN"] \notin {"CONFIRMED", "FAILED"} /\ s # "CONFIRMED"
          /\ row["OPEN"] = "PENDING" => s = "FAILED"
          /\ s = "FAILED" =>
                /\ position = "none"
                /\ \A v \in Workers :
                      pc[v] \in PastFence /\ hand[v] = "OPEN" => v = w /\ hand'[w] = NoOne
    /\ r \in {"OPEN", "PROTECT"} => execution' = execution
    /\ r \in Managed =>
          /\ execution' \in Observed
          /\ execution' = "CLOSED" => execution = "CLOSED"
          /\ execution' = "FILLED" => r \in Repairs \/ execution = "FILLED"

Resolved(w, r) ==
    \/ UNCHANGED <<ledger, execution>>
    \/ \E s \in {"FAILED", "UNKNOWN", "CONFIRMED"} : Outcome(w, r, s)

LEMMA ResolvedKeeps ==
    ASSUME BrokerInv, NEW w \in Workers, NEW r \in Row, Resolved(w, r), Leaves(w),
           UNCHANGED <<latch, broker, clock>>, spent' \in Spending
    PROVE  BrokerInv'
  <1>1. CASE UNCHANGED <<ledger, execution>>
    <2>1. TypeOK'
      BY <1>1, LeaveEffect DEF BrokerInv, TypeOK, ledger, broker, clock
    <2>2. HandsOK'
      BY <1>1, LeaveEffect DEF BrokerInv, HandsOK, PastFence, Holding, Answers, ledger
    <2>3. LedgerOK' /\ OpenOK'
      BY <1>1, LeaveEffect
      DEF BrokerInv, LedgerOK, OpenOK, HandsOK, PastFence, Holding, Answers, ledger, broker
    <2>4. ExecutionOK' /\ OneSendPerRow' /\ OverIsFlat' /\ EventInv'
      BY <1>1
      DEF BrokerInv, ExecutionOK, OneSendPerRow, OverIsFlat, EventInv, ledger,
        broker, clock
    <2>5. FailedMeansNoOrder'
      BY <1>1, LeaveEffect DEF BrokerInv, FailedMeansNoOrder, Holding, ledger, broker
    <2> QED
      BY <2>1, <2>2, <2>3, <2>4, <2>5 DEF BrokerInv
  <1>2. ASSUME ~UNCHANGED <<ledger, execution>> PROVE BrokerInv'
    <2> PICK s \in {"FAILED", "UNKNOWN", "CONFIRMED"} : Outcome(w, r, s)
      BY <1>2 DEF Resolved
    <2> USE DEF Outcome
    <2>1. /\ row' \in [Row -> RowStatus]
          /\ owner' \in [Row -> Workers \cup {NoOne}]
          /\ row'[r] = s /\ owner'[r] = NoOne
          /\ \A q \in Row \ {r} : row'[q] = row[q] /\ owner'[q] = owner[q]
      BY PutEffect DEF BrokerInv, RowStatus, Fenced, Ambiguous
    <2>2. TypeOK'
      BY <2>1, LeaveEffect, Rows
      DEF BrokerInv, TypeOK, broker, clock, RowStatus, Observed, Closing, Active,
        PendingOpen
    <2>3. HandsOK'
      BY <2>1, LeaveEffect DEF BrokerInv, HandsOK, PastFence, Holding, Answers
    <2>4. LedgerOK'
      BY <2>1, LeaveEffect
      DEF BrokerInv, TypeOK, LedgerOK, HandsOK, PastFence, Holding, Answers, broker
    <2>5. OpenOK'
      BY <2>1, LeaveEffect, Rows
      DEF BrokerInv, OpenOK, HandsOK, PastFence, Holding, Answers, broker
    <2>6. ExecutionOK'
      BY <2>1, Rows
      DEF BrokerInv, TypeOK, ExecutionOK, LedgerOK, OpenOK, Observed, Fenced, Ambiguous,
        broker, RowStatus, Refused, Closing, Active, PendingOpen
    <2>7. OneSendPerRow' /\ OverIsFlat'
      BY <2>1, Rows
      DEF BrokerInv, ExecutionOK, OneSendPerRow, OverIsFlat, broker, Observed, Closing
    <2>8. FailedMeansNoOrder'
      BY <2>1, LeaveEffect, Rows
      DEF BrokerInv, HandsOK, OpenOK, FailedMeansNoOrder, Holding, PastFence, broker
    <2>9. EventInv'
      BY <2>1, Rows
      DEF BrokerInv, TypeOK, EventInv, ExecutionOK, OverIsFlat, Observed, Closing, Refused,
        Active, PendingOpen, Fenced, Ambiguous, RowStatus, broker, clock
    <2> QED
      BY <2>2, <2>3, <2>4, <2>5, <2>6, <2>7, <2>8, <2>9 DEF BrokerInv
  <1> QED
    BY <1>1, <1>2

\* The execution moves on while the ledger stays: among statuses before the position was
\* observed, to observed, or among those.
Early == {"OPEN_PENDING", "OPEN_SUBMITTED", "OPEN_UNKNOWN"}

Moves ==
    \/ execution' = execution
    \/ execution \in Early /\ execution' \in {"OPEN_SUBMITTED", "OPEN_UNKNOWN", "REJECTED"}
    \/ execution \in PendingOpen /\ execution' = "UNPROTECTED"
       /\ row["OPEN"] \in Fenced /\ position # "none"
    \/ /\ {execution, execution'} \subseteq Observed
       /\ execution' = "FILLED" => execution = "FILLED"
       /\ execution' = "CLOSED" => position = "gone"

LEMMA StatusFacts ==
    ASSUME BrokerInv, Moves, UNCHANGED <<latch, ledger, broker, clock>>
    PROVE  /\ execution' \in {"NONE", "CLOSED"} \cup Refused \cup Active
           /\ ExecutionOK' /\ OverIsFlat' /\ EventInv' /\ OneSendPerRow'
  <1> USE DEF Early, Observed, Closing, Active, PendingOpen, Refused, ledger, broker, clock
  <1>1. execution' \in {"NONE", "CLOSED"} \cup Refused \cup Active
    BY DEF BrokerInv, TypeOK, Moves
  <1>2. ExecutionOK'
    <2>1. CASE execution' = execution
      BY <2>1 DEF BrokerInv, ExecutionOK
    <2>2. CASE /\ execution \in Early
               /\ execution' \in {"OPEN_SUBMITTED", "OPEN_UNKNOWN", "REJECTED"}
      BY <2>2 DEF BrokerInv, ExecutionOK
    <2>3. CASE /\ execution \in PendingOpen /\ execution' = "UNPROTECTED"
               /\ row["OPEN"] \in Fenced /\ position # "none"
      BY <2>3 DEF BrokerInv, ExecutionOK, Fenced, Ambiguous
    <2>4. CASE /\ {execution, execution'} \subseteq Observed
               /\ execution' = "FILLED" => execution = "FILLED"
               /\ execution' = "CLOSED" => position = "gone"
      BY <2>4 DEF BrokerInv, ExecutionOK, Fenced, Ambiguous
    <2> QED
      BY <2>1, <2>2, <2>3, <2>4 DEF Moves
  <1>3. OverIsFlat' /\ OneSendPerRow'
    BY DEF BrokerInv, OverIsFlat, OneSendPerRow, Moves
  <1>4. EventInv'
    BY DEF BrokerInv, EventInv, Moves
  <1> QED
    BY <1>1, <1>2, <1>3, <1>4

LEMMA MovesKeep ==
    ASSUME BrokerInv, NEW w \in Workers, Moves, Leaves(w),
           UNCHANGED <<latch, ledger, broker, clock>>, spent' \in Spending
    PROVE  BrokerInv'
  <1>1. TypeOK'
    BY LeaveEffect, StatusFacts DEF BrokerInv, TypeOK, ledger, broker, clock
  <1>2. HandsOK'
    BY LeaveEffect DEF BrokerInv, HandsOK, PastFence, Holding, Answers, ledger
  <1>3. LedgerOK' /\ OpenOK'
    BY LeaveEffect
    DEF BrokerInv, LedgerOK, OpenOK, HandsOK, PastFence, Holding, Answers, ledger, broker
  <1>4. FailedMeansNoOrder'
    BY LeaveEffect DEF BrokerInv, FailedMeansNoOrder, Holding, ledger, broker
  <1> QED
    BY <1>1, <1>2, <1>3, <1>4, StatusFacts DEF BrokerInv

\* A protection, a repair or a close is added to the ledger.
LEMMA CreateKeeps ==
    ASSUME BrokerInv, NEW w \in Workers, NEW r \in Row \ {"OPEN"}, Create(r), row[r] = "NONE",
           r \in Managed => execution \in Observed,
           r \in Repairs => row["OPEN"] = "CONFIRMED",
           Leaves(w), UNCHANGED <<execution, latch, broker, clock, spent>>
    PROVE  BrokerInv'
  <1>1. /\ row' \in [Row -> RowStatus]
        /\ owner' \in [Row -> Workers \cup {NoOne}]
        /\ row'[r] = "PENDING" /\ owner'[r] = NoOne
        /\ \A q \in Row \ {r} : row'[q] = row[q] /\ owner'[q] = owner[q]
    BY PutEffect DEF BrokerInv, Create, RowStatus
  <1>2. TypeOK'
    BY <1>1, LeaveEffect DEF BrokerInv, TypeOK, broker, clock, RowStatus
  <1>3. HandsOK'
    BY <1>1, LeaveEffect DEF BrokerInv, HandsOK, PastFence, Holding, Answers
  <1>4. LedgerOK'
    BY <1>1, LeaveEffect
    DEF BrokerInv, TypeOK, LedgerOK, HandsOK, PastFence, Holding, Answers, broker
  <1>5. OpenOK' /\ FailedMeansNoOrder'
    BY <1>1, LeaveEffect, Rows
    DEF BrokerInv, OpenOK, FailedMeansNoOrder, HandsOK, PastFence, Holding, Answers, broker
  <1>6. ExecutionOK'
    BY <1>1, Rows DEF BrokerInv, ExecutionOK, broker
  <1>7. OneSendPerRow' /\ OverIsFlat' /\ EventInv'
    BY <1>1, Rows DEF BrokerInv, OneSendPerRow, OverIsFlat, EventInv, broker, clock
  <1> QED
    BY <1>2, <1>3, <1>4, <1>5, <1>6, <1>7 DEF BrokerInv

\* OPEN and its protection are confirmed together.
LEMMA ConfirmKeeps ==
    ASSUME BrokerInv, NEW w \in Workers, NEW r \in {"OPEN", "PROTECT"},
           CanConfirm(r), Confirm(r),
           position # "none", Leaves(w), UNCHANGED <<latch, broker, clock, spent>>
    PROVE  BrokerInv'
  <1>1. /\ row' \in [Row -> RowStatus]
        /\ owner' \in [Row -> Workers \cup {NoOne}]
        /\ row'["OPEN"] = "CONFIRMED" /\ row'[r] = "CONFIRMED"
        /\ owner'["OPEN"] = NoOne /\ owner'[r] = NoOne
        /\ \A q \in Row \ {"OPEN", r} : row'[q] = row[q] /\ owner'[q] = owner[q]
        /\ execution' = "FILLED" /\ {row[r], row["OPEN"]} \subseteq Fenced
        /\ execution \in {"FILLED"} \cup PendingOpen
    BY Rows DEF BrokerInv, TypeOK, Confirm, CanConfirm, RowStatus, Fenced
  <1>2. TypeOK'
    BY <1>1, LeaveEffect DEF BrokerInv, TypeOK, broker, clock, RowStatus, Active
  <1>3. HandsOK'
    <2>1. \A q \in Row :
            /\ row[q] # "NONE" => row'[q] # "NONE"
            /\ row[q] # "PENDING" => row'[q] # "PENDING"
      BY <1>1, Rows DEF Fenced, Ambiguous
    <2>2. \A v \in Workers :
            IF pc'[v] \in Holding THEN pc'[v] = pc[v] /\ hand'[v] = hand[v]
                                  ELSE hand'[v] = NoOne
      BY LeaveEffect DEF BrokerInv
    <2> QED
      BY <2>1, <2>2 DEF BrokerInv, HandsOK, PastFence, Holding, Answers
  <1>4. LedgerOK'
    BY <1>1, LeaveEffect, Rows
    DEF BrokerInv, TypeOK, LedgerOK, Fenced, Ambiguous, HandsOK, PastFence, Holding,
      Answers, broker
  <1>5. OpenOK' /\ FailedMeansNoOrder'
    BY <1>1, LeaveEffect, Rows
    DEF BrokerInv, OpenOK, FailedMeansNoOrder, HandsOK, PastFence, Holding, Answers, broker
  <1>6. ExecutionOK'
    BY <1>1, Rows DEF BrokerInv, ExecutionOK, broker, Observed, Fenced, Refused
  <1>7. OneSendPerRow' /\ OverIsFlat'
    BY <1>1, Rows DEF BrokerInv, OneSendPerRow, OverIsFlat, broker
  <1>8. EventInv'
    BY <1>1, Rows
    DEF BrokerInv, EventInv, broker, clock, Refused, Active, PendingOpen, Closing, Fenced,
      Ambiguous
  <1> QED
    BY <1>2, <1>3, <1>4, <1>5, <1>6, <1>7, <1>8 DEF BrokerInv

-----------------------------------------------------------------------------
(* Every action keeps the invariant.                                        *)

LEMMA SettleResolves ==
    ASSUME BrokerInv, NEW w \in Workers, NEW r \in Managed,
           NEW o \in {"CONFIRMED", "FAILED", "UNKNOWN"}, Settle(r, o)
    PROVE  Resolved(w, r)
  BY SettleEffect, Rows DEF Resolved, Outcome

\* An execution that has closes or repairs is observed.
LEMMA ManagedObserved ==
    ASSUME BrokerInv, NEW r \in Managed, row[r] # "NONE"
    PROVE  execution \in Observed
  BY DEF BrokerInv, ExecutionOK

LEMMA MarkResolves ==
    ASSUME BrokerInv, NEW w \in Workers, NEW s \in {"FAILED", "UNKNOWN"}, NEW by,
           Mark("PROTECT", s, by), UNCHANGED execution
    PROVE  Resolved(w, "PROTECT")
  BY MarkEffect, Rows DEF Resolved, Outcome, Ambiguous

LEMMA AbortedResolves ==
    ASSUME BrokerInv, NEW w \in Workers, hand[w] \in Row, Aborted(w),
           Leaves(w), hand'[w] = NoOne
    PROVE  Resolved(w, hand[w])
  <1>1. CASE UNCHANGED <<ledger, execution>>
    BY <1>1 DEF Resolved, Outcome
  <1>2. CASE /\ row[hand[w]] = "PENDING" /\ owner[hand[w]] = w
             /\ hand[w] # "CLOSE"
             /\ Put(hand[w], "FAILED") /\ UNCHANGED execution
    <2>1. CASE hand[w] = "OPEN"
      <3>1. position = "none"
        BY <1>2, <2>1, Rows DEF BrokerInv, LedgerOK, OpenOK
      <3>2. \A v \in Workers : ~(pc[v] \in PastFence /\ hand[v] = "OPEN")
        BY <1>2, <2>1 DEF BrokerInv, HandsOK
      <3> QED
        BY <1>2, <2>1, <3>1, <3>2, Rows DEF Resolved, Outcome
    <2>2. CASE hand[w] = "PROTECT"
      BY <1>2, <2>2, Rows DEF Resolved, Outcome
    <2>3. CASE hand[w] \in Managed
      BY <1>2, <2>3, ManagedObserved, Rows DEF Resolved, Outcome
    <2> QED
      BY <2>1, <2>2, <2>3, Rows
  <1>3. CASE row[hand[w]] = "SUBMITTED" /\ Put(hand[w], "UNKNOWN") /\ UNCHANGED execution
    <2>1. CASE hand[w] \in {"OPEN", "PROTECT"}
      BY <1>3, <2>1, Rows DEF Resolved, Outcome
    <2>2. CASE hand[w] \in Managed
      BY <1>3, <2>2, ManagedObserved, Rows DEF Resolved, Outcome
    <2> QED
      BY <2>1, <2>2, Rows
  <1>4. CASE hand[w] = "CLOSE" /\ Settle("CLOSE", "FAILED")
    BY <1>4, SettleResolves, Rows
  <1>5. CASE hand[w] = "CLOSE" /\ Settle("CLOSE", "UNKNOWN")
    BY <1>5, SettleResolves, Rows
  <1> QED
    BY <1>1, <1>2, <1>3, <1>4, <1>5, AbortedEffect

LEMMA PlanKeeps == ASSUME BrokerInv, NEW w \in Workers, Plan(w) PROVE BrokerInv'
  <1>1. row["OPEN"] = "NONE"
    BY DEF Plan, BrokerInv, ExecutionOK
  <1>2. CASE execution' \in {"REJECTED", "CANCELLED"} /\ UNCHANGED <<ledger, jobs>>
    <2> USE <1>2 DEF Plan, BrokerInv, ledger, jobs, broker, clock
    <2>1. TypeOK'
      BY DEF TypeOK, Refused
    <2>2. HandsOK' /\ LedgerOK' /\ OpenOK' /\ OneSendPerRow' /\ FailedMeansNoOrder'
      BY DEF HandsOK, LedgerOK, OpenOK, OneSendPerRow, FailedMeansNoOrder
    <2>3. ExecutionOK' /\ EventInv'
      BY <1>1 DEF ExecutionOK, EventInv, Observed, Closing, Refused, Fenced, Ambiguous
    <2>4. OverIsFlat'
      BY <1>1, Rows DEF LedgerOK, OverIsFlat
    <2> QED
      BY <2>1, <2>2, <2>3, <2>4
  <1>3. CASE /\ ~ended /\ execution' = "OPEN_PENDING" /\ Create("OPEN") /\ Turn(w, "planned")
    <2>1. /\ row' \in [Row -> RowStatus]
          /\ owner' \in [Row -> Workers \cup {NoOne}]
          /\ row'["OPEN"] = "PENDING" /\ owner'["OPEN"] = NoOne
          /\ \A q \in Row \ {"OPEN"} : row'[q] = row[q] /\ owner'[q] = owner[q]
      BY <1>3, PutEffect, Rows DEF BrokerInv, Create, RowStatus
    <2>2. TypeOK'
      BY <1>3, <2>1
      DEF Plan, BrokerInv, TypeOK, RowStatus, Turn, Active, PendingOpen, broker, clock,
        Place
    <2>3. HandsOK'
      <3>1. \A q \in Row : row[q] # "NONE" => row'[q] = row[q]
        BY <1>1, <2>1
      <3>2. \A v \in Workers : IF pc'[v] \in Holding THEN pc'[v] = pc[v] /\ hand'[v] = hand[v]
                                                    ELSE hand'[v] = NoOne
        BY <1>3 DEF BrokerInv, TypeOK, HandsOK, Turn, Holding, Answers
      <3> QED
        BY <3>1, <3>2 DEF BrokerInv, HandsOK, PastFence, Holding, Answers
    <2>4. LedgerOK' /\ OpenOK' /\ FailedMeansNoOrder'
      BY <1>1, <1>3, <2>1, Rows
      DEF Plan, BrokerInv, TypeOK, HandsOK, LedgerOK, OpenOK, FailedMeansNoOrder,
        Turn, PastFence, Holding, Answers, broker
    <2>5. ExecutionOK'
      BY <1>1, <1>3, <2>1, Rows DEF Plan, BrokerInv, ExecutionOK, Observed, Closing
    <2>6. OneSendPerRow' /\ OverIsFlat' /\ EventInv'
      BY <1>3, <2>1, Rows
      DEF Plan, BrokerInv, OneSendPerRow, OverIsFlat, EventInv, broker, clock
    <2> QED
      BY <2>2, <2>3, <2>4, <2>5, <2>6 DEF BrokerInv
  <1> QED
    BY <1>2, <1>3 DEF Plan

LEMMA JobsKeep ==
    ASSUME BrokerInv, NEW w \in Workers,
           \/ Enrich(w) \/ EnrichFails(w) \/ RejectExecution(w) \/ SaveUnknown(w) \/ Die(w)
           \/ ManageFilled(w) \/ ProcessUnprotected(w)
           \/ ReconcileClosed(w) \/ ReconcileUnobserved(w)
    PROVE  BrokerInv'
  <1> USE DEF Fault, Outage, Spend
  <1>0. spent \in Spending /\ TypeOK
    BY DEF BrokerInv, TypeOK
  <1>1. CASE Enrich(w) \/ Die(w) \/ ProcessUnprotected(w)
    <2>1. /\ Moves /\ Leaves(w) /\ UNCHANGED <<latch, ledger, broker, clock>>
          /\ spent' \in Spending
      BY <1>0, <1>1 DEF Enrich, Die, ProcessUnprotected, Moves, Leaves, Done, Spending
    <2> QED
      BY <2>1, MovesKeep
  <1>2. CASE EnrichFails(w) \/ RejectExecution(w) \/ SaveUnknown(w) \/ ReconcileUnobserved(w)
    <2>1. Moves
      BY <1>0, <1>2, SaveEffect
      DEF EnrichFails, RejectExecution, SaveUnknown, ReconcileUnobserved, Moves, Early
    <2>2. /\ Leaves(w) /\ UNCHANGED <<latch, ledger, broker, clock>>
          /\ spent' \in Spending
      BY <1>0, <1>2
      DEF EnrichFails, RejectExecution, SaveUnknown, ReconcileUnobserved, Leaves, Done,
        Spending
    <2> QED
      BY <2>1, <2>2, MovesKeep
  <1>3. CASE ManageFilled(w) \/ ReconcileClosed(w)
    <2>1. Moves
      BY <1>3 DEF ManageFilled, ReconcileClosed, Moves, Observed, Save
    <2>2. /\ Leaves(w) /\ UNCHANGED <<latch, ledger, broker, clock>>
          /\ spent' \in Spending
      BY <1>0, <1>3 DEF ManageFilled, ReconcileClosed, Leaves, Done
    <2> QED
      BY <2>1, <2>2, MovesKeep
  <1> QED
    BY <1>1, <1>2, <1>3

LEMMA ResolvingKeeps ==
    ASSUME BrokerInv, NEW w \in Workers,
           \/ RefuseOpen(w) \/ Refuse(w) \/ NothingToProtect(w) \/ LoseFence(w)
           \/ Withdraw(w) \/ Raise(w) \/ ReconcileRepair(w) \/ ReconcileClose(w)
    PROVE  BrokerInv'
  <1> USE DEF Fault, Spend
  <1>0. /\ spent \in Spending /\ TypeOK
        /\ \A step \in {"idle", "rejecting"} : Turn(w, step) => Leaves(w) /\ hand'[w] = NoOne
    BY LeaveEffect DEF BrokerInv, TypeOK, Leaves, Turn
  <1>1. CASE RefuseOpen(w)
    <2>1. /\ Leaves(w) /\ UNCHANGED <<execution, latch, broker, clock>>
          /\ spent' \in Spending /\ hand[w] = "OPEN"
      BY <1>0, <1>1 DEF RefuseOpen, Spending
    <2>2. Resolved(w, "OPEN")
      <3>1. CASE UNCHANGED ledger
        BY <2>1, <3>1 DEF Resolved, Outcome
      <3>2. CASE Put("OPEN", "FAILED") /\ owner["OPEN"] = w
        <4>1. row["OPEN"] = "PENDING" /\ position = "none"
          BY <3>2, Rows DEF BrokerInv, LedgerOK, OpenOK
        <4>2. \A v \in Workers : ~(pc[v] \in PastFence /\ hand[v] = "OPEN")
          BY <4>1 DEF BrokerInv, HandsOK
        <4> QED
          BY <2>1, <3>2, <4>1, <4>2, Rows DEF Resolved, Outcome
      <3> QED
        BY <1>1, <3>1, <3>2, MarkEffect, Rows DEF RefuseOpen
    <2> QED
      BY <2>1, <2>2, ResolvedKeeps, Rows
  <1>2. CASE Refuse(w) \/ NothingToProtect(w)
    <2>1. /\ Leaves(w) /\ UNCHANGED <<latch, broker, clock>>
          /\ spent' \in Spending
          /\ hand[w] \in Row \ {"OPEN"}
      BY <1>0, <1>2, Rows
      DEF Refuse, NothingToProtect, Done, BrokerInv, HandsOK, Holding, Spending
    <2>2. CASE hand[w] \in Managed
      <3>1. Resolved(w, hand[w])
        BY <1>2, <2>2, SettleResolves, Rows DEF Refuse, NothingToProtect
      <3> QED
        BY <2>1, <3>1, ResolvedKeeps
    <2>3. CASE hand[w] = "PROTECT"
      <3>1. Resolved(w, "PROTECT")
        BY <1>2, <2>3, MarkResolves, Rows DEF Refuse, NothingToProtect
      <3> QED
        BY <2>1, <2>3, <3>1, ResolvedKeeps
    <2> QED
      BY <2>1, <2>2, <2>3, Rows
  <1>3. CASE LoseFence(w) \/ Raise(w)
    <2>1. /\ Leaves(w) /\ UNCHANGED <<latch, broker, clock>>
          /\ spent' \in Spending
          /\ hand[w] \in Row /\ hand'[w] = NoOne /\ Aborted(w)
      BY <1>0, <1>3 DEF LoseFence, Raise, Done, BrokerInv, HandsOK, Holding, Spending
    <2> QED
      BY <2>1, AbortedResolves, ResolvedKeeps
  <1>4. CASE Withdraw(w)
    <2>1. /\ Leaves(w) /\ UNCHANGED <<latch, broker, clock>> /\ hand'[w] = NoOne
          /\ spent' \in Spending
          /\ hand[w] \in Row /\ pc[w] = "armed" /\ row[hand[w]] # "PENDING"
      BY <1>0, <1>4 DEF Withdraw, Done, BrokerInv, HandsOK, Holding, PastFence, Spending
    <2>2. CASE hand[w] = "OPEN"
      <3>1. position = "none" /\ row["OPEN"] # "FAILED"
        BY <2>1, <2>2 DEF BrokerInv, LedgerOK, OpenOK, PastFence, Holding
      <3>2. \A v \in Workers : pc[v] \in PastFence /\ hand[v] = "OPEN" => v = w
        BY <2>1, <2>2 DEF BrokerInv, HandsOK, PastFence, Holding
      <3>3. Mark("OPEN", "FAILED", NoOne) /\ UNCHANGED execution
        BY <1>4, <2>2, Rows DEF Withdraw
      <3>4. Resolved(w, "OPEN")
        BY <2>1, <2>2, <3>1, <3>2, <3>3, MarkEffect, Rows DEF Resolved, Outcome, Ambiguous
      <3> QED
        BY <2>1, <3>4, ResolvedKeeps, Rows
    <2>3. CASE hand[w] = "PROTECT"
      <3>1. Resolved(w, "PROTECT")
        BY <1>4, <2>3, MarkResolves, Rows DEF Withdraw
      <3> QED
        BY <2>1, <2>3, <3>1, ResolvedKeeps
    <2>4. CASE hand[w] \in Managed
      <3>1. Resolved(w, hand[w])
        BY <1>4, <2>4, SettleResolves, Rows DEF Withdraw
      <3> QED
        BY <2>1, <3>1, ResolvedKeeps
    <2> QED
      BY <2>1, <2>2, <2>3, <2>4, Rows
  <1>5. CASE ReconcileRepair(w)
    <2>1. PICK r \in Repairs : Settle(r, "CONFIRMED") \/ Settle(r, "FAILED")
      BY <1>5 DEF ReconcileRepair
    <2>2. Resolved(w, r)
      BY <2>1, SettleResolves, Rows
    <2>3. /\ Leaves(w) /\ UNCHANGED <<latch, broker, clock>> /\ r \in Row
          /\ spent' \in Spending
      BY <1>0, <1>5, Rows DEF ReconcileRepair, Leaves
    <2> QED
      BY <2>2, <2>3, ResolvedKeeps
  <1>6. CASE ReconcileClose(w)
    <2>1. Resolved(w, "CLOSE")
      BY <1>6, SettleResolves, Rows DEF ReconcileClose
    <2>2. /\ Leaves(w) /\ UNCHANGED <<latch, broker, clock>>
          /\ spent' \in Spending
      BY <1>0, <1>6 DEF ReconcileClose, Leaves
    <2> QED
      BY <2>1, <2>2, ResolvedKeeps, Rows
  <1> QED
    BY <1>1, <1>2, <1>3, <1>4, <1>5, <1>6

LEMMA CreatingKeeps ==
    ASSUME BrokerInv, NEW w \in Workers,
           CreateProtection(w) \/ QueueClose(w) \/ StageRepair(w)
    PROVE  BrokerInv'
  <1>1. /\ Leaves(w) /\ UNCHANGED <<execution, latch, broker, clock, spent>>
        /\ spent' \in Spending /\ Moves
    BY DEF CreateProtection, QueueClose, StageRepair, Done, Leaves, BrokerInv, TypeOK, Moves
  <1>2. CASE UNCHANGED ledger
    BY <1>1, <1>2, MovesKeep
  <1>3. CASE CreateProtection(w) /\ ~UNCHANGED ledger
    BY <1>1, <1>3, CreateKeeps, Rows DEF CreateProtection
  <1>4. CASE QueueClose(w) /\ ~UNCHANGED ledger
    BY <1>1, <1>4, CreateKeeps, Rows DEF QueueClose, Observed
  <1>5. CASE StageRepair(w) /\ ~UNCHANGED ledger
    <2>1. RepairWanted /\ row["OPEN"] = "CONFIRMED" /\ execution \in Observed
      BY <1>5 DEF StageRepair, Observed
    <2>2. PICK r \in Spare : Create(r)
      BY <1>5, <2>1 DEF StageRepair, RepairWanted
    <2> QED
      BY <1>1, <2>1, <2>2, CreateKeeps, Rows DEF Spare
  <1> QED
    BY <1>2, <1>3, <1>4, <1>5

LEMMA TerminalKeeps == ASSUME BrokerInv, NEW w \in Workers, Terminal(w) PROVE BrokerInv'
  <1>1. /\ ended' = TRUE /\ UNCHANGED <<broker, deadline, spent>> /\ Leaves(w)
        /\ pc' \in [Workers -> Place]
        /\ hand' \in [Workers -> Row \cup {NoOne}]
        /\ \A v \in Workers :
              IF pc'[v] \in Holding THEN pc'[v] = pc[v] /\ hand'[v] = hand[v]
                                    ELSE hand'[v] = NoOne
    <2>1. Leaves(w)
      BY DEF Terminal, Leaves
    <2> QED
      BY <2>1, LeaveEffect DEF Terminal, BrokerInv
  <1>2. \/ UNCHANGED ledger
        \/ row["OPEN"] = "PENDING" /\ Put("OPEN", "FAILED")
    BY DEF Terminal, CancelPending
  <1>3. row["OPEN"] = "PENDING" =>
          position = "none" /\ \A v \in Workers : ~(pc[v] \in PastFence /\ hand[v] = "OPEN")
    BY Rows DEF BrokerInv, LedgerOK, OpenOK, HandsOK
  <1>4. /\ row' \in [Row -> RowStatus] /\ owner' \in [Row -> Workers \cup {NoOne}]
        /\ \A q \in Row :
              \/ row'[q] = row[q] /\ owner'[q] = owner[q]
              \/ /\ q = "OPEN" /\ row[q] = "PENDING"
                 /\ row'[q] = "FAILED" /\ owner'[q] = NoOne
    <2>1. CASE UNCHANGED ledger
      BY <2>1 DEF BrokerInv, TypeOK, ledger, RowStatus
    <2>2. CASE row["OPEN"] = "PENDING" /\ Put("OPEN", "FAILED")
      BY <2>2, PutEffect, Rows DEF BrokerInv, RowStatus
    <2> QED
      BY <1>2, <2>1, <2>2
  <1>5. \/ execution' = execution
        \/ execution = "OPEN_PENDING" /\ execution' = "CANCELLED" /\ row'["OPEN"] = "FAILED"
    BY Rows DEF Terminal, CancelPending, Put, BrokerInv, TypeOK
  <1>6. TypeOK'
    BY <1>1, <1>4, <1>5 DEF BrokerInv, TypeOK, Terminal, RowStatus, Refused, broker
  <1>7. HandsOK'
    BY <1>1, <1>4 DEF BrokerInv, HandsOK, PastFence, Holding, Answers
  <1>8. LedgerOK'
    BY <1>1, <1>3, <1>4
    DEF BrokerInv, TypeOK, LedgerOK, HandsOK, PastFence, Holding, Answers, broker
  <1>9. OpenOK' /\ FailedMeansNoOrder'
    BY <1>1, <1>3, <1>4, Rows
    DEF BrokerInv, OpenOK, FailedMeansNoOrder, HandsOK, PastFence, Holding, Answers, broker
  <1>10. ExecutionOK'
    <2>1. row["OPEN"] = "PENDING" => execution \notin Observed
      BY DEF BrokerInv, ExecutionOK, Fenced, Ambiguous
    <2>2. execution' \in Observed <=> execution \in Observed
      BY <1>5 DEF Observed, Closing
    <2> QED
      BY <1>1, <1>4, <1>5, <2>1, <2>2, Rows
      DEF BrokerInv, ExecutionOK, broker, Observed, Refused
  <1>11. OneSendPerRow' /\ OverIsFlat'
    BY <1>1, <1>4, <1>5, Rows
    DEF BrokerInv, OneSendPerRow, OverIsFlat, LedgerOK, broker, Terminal, CancelPending
  <1>12. EventInv'
    <2>1. CASE execution = "NONE" /\ UNCHANGED <<execution, ledger>>
      BY <2>1 DEF BrokerInv, ExecutionOK, EventInv, ledger, Fenced, Ambiguous
    <2>2. CASE execution' = "CANCELLED" /\ row'["OPEN"] = "FAILED"
      BY <2>2 DEF EventInv, Fenced, Ambiguous
    <2>3. CASE execution \in Refused \cup {"CLOSED"} \/ row["OPEN"] = "FAILED"
      <3>1. row'["OPEN"] # "PENDING"
        <4>1. CASE row["OPEN"] # "PENDING"
          BY <4>1, <1>4, Rows
        <4>2. CASE row["OPEN"] = "PENDING"
          BY <2>3, <4>2, Rows
          DEF Terminal, CancelPending, Put, BrokerInv, TypeOK, Refused, Fenced, Ambiguous
        <4> QED
          BY <4>1, <4>2
      <3>2. row["OPEN"] = "FAILED" => row'["OPEN"] = "FAILED"
        BY <1>4, Rows
      <3>3. execution \in Refused \cup {"CLOSED"} => execution' = execution
        BY <1>5 DEF Refused
      <3>4. row'["OPEN"] \in Fenced => row["OPEN"] \in Fenced /\ row["OPEN"] # "FAILED"
        BY <1>4, Rows DEF Fenced, Ambiguous
      <3>5. row["OPEN"] \in Fenced /\ execution = "CANCELLED" => FALSE
        BY DEF BrokerInv, OverIsFlat, Fenced, Ambiguous
      <3> QED
        BY <1>1, <2>3, <3>1, <3>3, <3>4, <3>5
        DEF BrokerInv, EventInv, OverIsFlat, Refused, broker
    <2>4. CASE execution \in Active /\ row["OPEN"] \in Fenced /\ latch' = TRUE
               /\ UNCHANGED <<execution, ledger>>
      BY <2>4 DEF EventInv, ledger, Fenced, Ambiguous
    <2> QED
      BY <1>5, <2>1, <2>2, <2>3, <2>4, Rows
      DEF Terminal, CancelPending, Put, BrokerInv, TypeOK
  <1> QED
    BY <1>6, <1>7, <1>8, <1>9, <1>10, <1>11, <1>12 DEF BrokerInv

LEMMA ClaimKeeps ==
    ASSUME BrokerInv, NEW w \in Workers, Claim(w) \/ Defer(w)
    PROVE  BrokerInv'
  <1> USE DEF Fault, Outage, Spend, Claimable
  <1>1. /\ UNCHANGED <<execution, latch, row, broker, clock>>
        /\ spent' \in Spending
        /\ owner' \in [Row -> Workers \cup {NoOne}]
        /\ \A r \in Row : owner'[r] = owner[r] \/ owner'[r] = NoOne \/ row[r] = "PENDING"
    BY DEF Claim, Defer, BrokerInv, TypeOK, Spending
  <1>2. /\ pc' \in [Workers -> Place]
        /\ hand' \in [Workers -> Row \cup {NoOne}]
        /\ \A v \in Workers :
              \/ pc'[v] = pc[v] /\ hand'[v] = hand[v]
              \/ pc'[v] = "claimed" /\ hand'[v] \in Row /\ row[hand'[v]] = "PENDING"
              \/ pc'[v] = "idle" /\ hand'[v] = NoOne
    BY DEF Claim, Defer, Done, Turn, BrokerInv, TypeOK, Place
  <1>3. TypeOK'
    BY <1>1, <1>2 DEF BrokerInv, TypeOK, broker, clock
  <1>4. HandsOK'
    BY <1>1, <1>2 DEF BrokerInv, HandsOK, PastFence, Holding, Answers
  <1>5. LedgerOK' /\ OpenOK' /\ FailedMeansNoOrder'
    BY <1>1, <1>2
    DEF BrokerInv, LedgerOK, OpenOK, FailedMeansNoOrder, PastFence, Holding, Answers, broker
  <1>6. ExecutionOK' /\ OneSendPerRow' /\ OverIsFlat' /\ EventInv'
    BY <1>1
    DEF BrokerInv, ExecutionOK, OneSendPerRow, OverIsFlat, EventInv, broker, clock
  <1> QED
    BY <1>3, <1>4, <1>5, <1>6 DEF BrokerInv

\* The fence: a pending row is SUBMITTED by the one that has its lease, and nobody else
\* can have it past the fence.
LEMMA SubmitKeeps == ASSUME BrokerInv, NEW w \in Workers, Submit(w) PROVE BrokerInv'
  <1> DEFINE r == hand[w]
  <1>1. /\ r \in Row /\ row[r] = "PENDING" /\ pc[w] = "claimed" /\ Put(r, "SUBMITTED")
        /\ UNCHANGED <<hand, execution, latch, broker, clock, spent>>
    BY DEF Submit, HasFence, Go, BrokerInv, HandsOK, Holding
  <1>2. \E step \in {"seen", "fenced", "armed"} :
          /\ pc' = [pc EXCEPT ![w] = step]
          /\ r = "OPEN" <=> step = "fenced"
    BY DEF Submit, Go
  <1>3. /\ row' \in [Row -> RowStatus] /\ owner' \in [Row -> Workers \cup {NoOne}]
        /\ row'[r] = "SUBMITTED" /\ owner'[r] = NoOne
        /\ \A q \in Row \ {r} : row'[q] = row[q] /\ owner'[q] = owner[q]
    BY <1>1, PutEffect DEF BrokerInv, RowStatus, Fenced, Ambiguous
  <1>4. /\ sent[r] = 0
        /\ \A v \in Workers : ~(pc[v] \in PastFence /\ hand[v] = r)
        /\ r = "OPEN" => position = "none"
    BY <1>1 DEF BrokerInv, LedgerOK, HandsOK, OpenOK
  <1>5. /\ pc'[w] \in {"seen", "fenced", "armed"} /\ (r = "OPEN" <=> pc'[w] = "fenced")
        /\ \A v \in Workers \ {w} : pc'[v] = pc[v]
        /\ pc' \in [Workers -> Place]
    BY <1>2 DEF BrokerInv, TypeOK, Place
  <1> HIDE DEF r
  <1>6. TypeOK'
    BY <1>1, <1>3, <1>5 DEF BrokerInv, TypeOK, RowStatus, broker, clock
  <1>7. HandsOK'
    BY <1>1, <1>3, <1>4, <1>5 DEF BrokerInv, TypeOK, HandsOK, PastFence, Holding, Answers, r
  <1>8. LedgerOK'
    BY <1>1, <1>3, <1>4, <1>5
    DEF BrokerInv, LedgerOK, HandsOK, PastFence, Holding, Answers, broker, r
  <1>9. OpenOK' /\ FailedMeansNoOrder'
    BY <1>1, <1>3, <1>4, <1>5, Rows
    DEF BrokerInv, OpenOK, FailedMeansNoOrder, HandsOK, PastFence, Holding, Answers,
      broker, r
  <1>10. ExecutionOK'
    <2>1. execution \in Observed => r # "OPEN"
      BY <1>1 DEF BrokerInv, ExecutionOK, Fenced, Ambiguous
    <2> QED
      BY <1>1, <1>3, <2>1, Rows DEF BrokerInv, ExecutionOK, broker, Observed
  <1>11. OneSendPerRow' /\ OverIsFlat' /\ EventInv'
    BY <1>1, <1>3, Rows
    DEF BrokerInv, OneSendPerRow, OverIsFlat, EventInv, broker, clock
  <1> QED
    BY <1>6, <1>7, <1>8, <1>9, <1>10, <1>11 DEF BrokerInv

LEMMA SaveSubmittedKeeps ==
    ASSUME BrokerInv, NEW w \in Workers, SaveSubmitted(w)
    PROVE  BrokerInv'
  <1>1. /\ Moves /\ UNCHANGED <<latch, ledger, broker, clock, spent>>
        /\ pc[w] = "fenced" /\ pc' = [pc EXCEPT ![w] = "armed"] /\ hand' = hand
    BY SaveEffect DEF SaveSubmitted, Go, BrokerInv, Moves, Early
  <1>2. TypeOK' /\ HandsOK'
    BY <1>1, StatusFacts
    DEF BrokerInv, TypeOK, HandsOK, PastFence, Holding, Answers, ledger, broker, clock,
      Place
  <1>3. LedgerOK' /\ OpenOK' /\ FailedMeansNoOrder'
    BY <1>1
    DEF BrokerInv, TypeOK, LedgerOK, OpenOK, FailedMeansNoOrder, PastFence, Holding,
      Answers, ledger, broker
  <1> QED
    BY <1>1, <1>2, <1>3, StatusFacts DEF BrokerInv

\* Who sends is the only one past the fence with this row, and has not sent before.
LEMMA SendKeeps == ASSUME BrokerInv, NEW w \in Workers, Send(w) PROVE BrokerInv'
  <1> DEFINE r == hand[w]
  <1>1. /\ pc[w] = "armed" /\ r \in Row /\ sent[r] = 0 /\ row[r] \notin {"NONE", "PENDING"}
        /\ \A v \in Workers : pc[v] \in PastFence /\ hand[v] = r => v = w
        /\ r = "OPEN" => position = "none" /\ row["OPEN"] # "FAILED"
    BY DEF Send, BrokerInv, HandsOK, LedgerOK, OpenOK, PastFence, Holding
  <1>2. /\ hand' = hand /\ sent' = [sent EXCEPT ![r] = 1]
        /\ pc' \in [Workers -> Place]
        /\ pc'[w] \in Answers /\ \A v \in Workers \ {w} : pc'[v] = pc[v]
    <2>1. \E a \in Answers : Go(w, a)
      BY DEF Send, SendOpen, SendProtection, SendClose, Answers
    <2> QED
      BY <1>1, <2>1 DEF Send, Go, BrokerInv, TypeOK, Place
  <1>3. /\ UNCHANGED <<execution, latch, ledger, clock>>
        /\ spent' \in Spending
        /\ position' \in {"none", "hidden", "naked", "safe", "gone"}
        /\ position' # position => r = "OPEN" \/ position # "none"
        /\ position = "gone" => r = "OPEN" \/ position' = "gone"
        /\ position # "none" => position' # "none"
        /\ r = "OPEN" /\ pc'[w] = "refused" => position' = "none"
    <2>1. CASE SendOpen(w)
      BY <1>1, <2>1 DEF Send, SendOpen, Go, Fault, Spend, BrokerInv, TypeOK, Spending
    <2>2. CASE SendProtection(w)
      BY <1>1, <2>2, Rows
      DEF Send, SendProtection, Go, Fault, Spend, BrokerInv, TypeOK, Visible, Spending
    <2>3. CASE SendClose(w)
      BY <1>1, <2>3
      DEF Send, SendClose, Go, Fault, Spend, BrokerInv, TypeOK, Visible, Spending
    <2> QED
      BY <2>1, <2>2, <2>3 DEF Send
  <1> HIDE DEF r
  <1>4. TypeOK'
    BY <1>1, <1>2, <1>3 DEF BrokerInv, TypeOK, ledger, clock
  <1>5. HandsOK'
    BY <1>1, <1>2, <1>3 DEF BrokerInv, HandsOK, PastFence, Holding, Answers, ledger, r
  <1>6. LedgerOK'
    BY <1>1, <1>2, <1>3
    DEF BrokerInv, TypeOK, LedgerOK, HandsOK, PastFence, Holding, Answers, ledger, r
  <1>7. sent'["OPEN"] = IF r = "OPEN" THEN 1 ELSE sent["OPEN"]
    BY <1>1, <1>2, Rows DEF BrokerInv, TypeOK
  <1>8. r # "OPEN" /\ position = "none" => position' = "none"
    BY <1>3
  <1>9. OpenOK' /\ FailedMeansNoOrder'
    BY <1>1, <1>2, <1>3, <1>7, <1>8
    DEF BrokerInv, OpenOK, FailedMeansNoOrder, HandsOK, PastFence, Holding, Answers,
      ledger, r
  <1>10. ExecutionOK' /\ OneSendPerRow'
    BY <1>1, <1>2, <1>3 DEF BrokerInv, TypeOK, ExecutionOK, OneSendPerRow, ledger
  <1>11. r = "OPEN" => execution \notin {"CANCELLED", "CLOSED"} /\ position # "gone"
    BY <1>1 DEF BrokerInv, ExecutionOK, OverIsFlat, Observed, r
  <1>12. OverIsFlat' /\ EventInv'
    BY <1>3, <1>7, <1>11 DEF BrokerInv, OverIsFlat, EventInv, ledger, clock
  <1> QED
    BY <1>4, <1>5, <1>6, <1>9, <1>10, <1>12 DEF BrokerInv

\* An OPEN that was answered is confirmed, bound unprotected, or gets an outcome.
LEMMA OpenAnsweredKeeps ==
    ASSUME BrokerInv, NEW w \in Workers, OpenAnswered(w)
    PROVE  BrokerInv'
  <1>1. /\ pc[w] \in Answers /\ hand[w] = "OPEN" /\ hand[w] \in Row
        /\ UNCHANGED <<latch, broker, clock, spent>>
        /\ spent' \in Spending
        /\ row["OPEN"] \notin {"NONE", "PENDING", "FAILED"}
        /\ pc[w] = "refused" => position = "none"
        /\ \A v \in Workers : pc[v] \in PastFence /\ hand[v] = "OPEN" => v = w
    BY Rows
    DEF OpenAnswered, BrokerInv, TypeOK, HandsOK, OpenOK, PastFence, Holding, Answers
  <1>2. \A step \in {"idle", "rejecting", "doubting", "bound", "queueing"} :
          Turn(w, step) => Leaves(w) /\ hand'[w] = NoOne
    BY LeaveEffect DEF Leaves, BrokerInv
  <1>3. CASE Aborted(w) /\ Done(w)
    BY <1>1, <1>2, <1>3, AbortedResolves, ResolvedKeeps DEF Done
  <1>4. CASE Ready /\ CanConfirm("OPEN") /\ Confirm("OPEN") /\ Done(w)
    <2>1. Leaves(w) /\ position # "none"
      BY <1>2, <1>4 DEF Done, Ready
    <2> QED
      BY <1>1, <1>4, <2>1, ConfirmKeeps
  <1>5. CASE position = "naked" /\ Bind(w)
    <2>1. Leaves(w)
      BY <1>2, <1>5 DEF Bind
    <2>2. Moves /\ UNCHANGED ledger
      BY <1>1, <1>5, Rows DEF Bind, Moves, BrokerInv, TypeOK, RowStatus
    <2> QED
      BY <1>1, <2>1, <2>2, MovesKeep
  <1>6. CASE /\ UNCHANGED execution
             /\ Mark("OPEN", "UNKNOWN", NoOne) /\ (Done(w) \/ Turn(w, "doubting"))
    <2>1. Resolved(w, "OPEN")
      BY <1>1, <1>6, MarkEffect, Rows DEF Resolved, Outcome, Ambiguous
    <2> QED
      BY <1>1, <1>2, <1>6, <2>1, ResolvedKeeps DEF Done
  <1>7. CASE /\ UNCHANGED execution /\ pc[w] = "refused"
             /\ Mark("OPEN", "FAILED", NoOne) /\ Turn(w, "rejecting")
    <2>1. Resolved(w, "OPEN")
      BY <1>1, <1>2, <1>7, MarkEffect, Rows DEF Resolved, Outcome, Ambiguous
    <2> QED
      BY <1>1, <1>2, <1>7, <2>1, ResolvedKeeps
  <1> QED
    BY <1>1, <1>3, <1>4, <1>5, <1>6, <1>7 DEF OpenAnswered, ConfirmOrAbort

LEMMA AnsweredKeeps == ASSUME BrokerInv, NEW w \in Workers, Answered(w) PROVE BrokerInv'
  <1>1. /\ pc[w] \in Answers \cup {"seen"} /\ hand[w] \in Row
        /\ UNCHANGED <<latch, broker, clock, spent>> /\ Done(w)
        /\ spent' \in Spending
    BY DEF Answered, ConfirmOrAbort, BrokerInv, TypeOK, HandsOK, Holding
  <1>2. Leaves(w) /\ hand'[w] = NoOne
    BY <1>1, LeaveEffect DEF Leaves, BrokerInv, Done
  <1>3. Verdict(w) \in {"CONFIRMED", "FAILED", "UNKNOWN"}
    BY <1>1 DEF Verdict, Answers
  <1>4. CASE hand[w] \in Managed /\ Settle(hand[w], Verdict(w))
    <2>1. Resolved(w, hand[w])
      BY <1>3, <1>4, SettleResolves
    <2> QED
      BY <1>1, <1>2, <2>1, ResolvedKeeps
  <1>5. CASE /\ hand[w] = "PROTECT" /\ Verdict(w) = "CONFIRMED"
             /\ CanConfirm("PROTECT") /\ Confirm("PROTECT")
    <2>1. position # "none"
      BY <1>5 DEF BrokerInv, ExecutionOK, CanConfirm, PendingOpen, Observed
    <2> QED
      BY <1>1, <1>2, <1>5, <2>1, ConfirmKeeps
  <1>6. CASE Aborted(w)
    BY <1>1, <1>2, <1>6, AbortedResolves, ResolvedKeeps
  <1>7. CASE /\ hand[w] = "PROTECT" /\ Verdict(w) # "CONFIRMED"
             /\ Mark("PROTECT", Verdict(w), NoOne) /\ UNCHANGED execution
    <2>1. Resolved(w, "PROTECT")
      BY <1>3, <1>7, MarkResolves
    <2> QED
      BY <1>1, <1>2, <1>7, <2>1, ResolvedKeeps
  <1> QED
    BY <1>4, <1>5, <1>6, <1>7 DEF Answered, ConfirmOrAbort

LEMMA ReconcileOpenKeeps ==
    ASSUME BrokerInv, NEW w \in Workers, ReconcileOpen(w)
    PROVE  BrokerInv'
  <1>1. /\ UNCHANGED <<latch, broker, clock, spent>> /\ row["OPEN"] \in Fenced
        /\ spent' \in Spending
    BY DEF ReconcileOpen, BrokerInv, TypeOK, Fenced
  <1>2. CASE Ready /\ Confirm("OPEN") /\ UNCHANGED jobs
    <2>1. CanConfirm("OPEN") /\ position # "none"
      BY <1>2 DEF ReconcileOpen, Manages, Blocked, Ready, Visible
    <2> QED
      BY <1>1, <1>2, <2>1, ConfirmKeeps DEF Leaves
  <1>3. CASE position = "naked" /\ Bind(w)
    <2>1. Leaves(w) /\ Moves /\ UNCHANGED ledger
      BY <1>1, <1>3 DEF Bind, Leaves, Moves
    <2> QED
      BY <1>1, <2>1, MovesKeep
  <1> QED
    BY <1>2, <1>3 DEF ReconcileOpen

\* What the broker does leaves a position a position, and one that is gone stays so.
LEMMA BrokerKeeps == ASSUME BrokerInv, Broker \/ TimePasses PROVE BrokerInv'
  <1>1. /\ UNCHANGED <<execution, latch, ledger, jobs, sent, ended>>
        /\ spent' \in Spending /\ deadline' \in BOOLEAN
        /\ position' \in {"none", "hidden", "naked", "safe", "gone"}
        /\ position = "none" <=> position' = "none"
        /\ position = "gone" => position' = "gone"
    <2>1. CASE Appear
      BY <2>1 DEF Appear, BrokerInv, TypeOK, clock
    <2>2. CASE BrokerCloses
      BY <2>2 DEF BrokerCloses, BrokerInv, TypeOK, clock
    <2>3. CASE Tamper
      BY <2>3 DEF Tamper, Meddle, Spend, Visible, Ready, BrokerInv, TypeOK, clock, Spending
    <2>4. CASE TimePasses
      BY <2>4 DEF TimePasses, BrokerInv, TypeOK, broker
    <2> QED
      BY <2>1, <2>2, <2>3, <2>4 DEF Broker
  <1>2. TypeOK' /\ HandsOK' /\ LedgerOK'
    BY <1>1 DEF BrokerInv, TypeOK, HandsOK, LedgerOK, ledger, jobs
  <1>3. OpenOK' /\ ExecutionOK' /\ OneSendPerRow'
    BY <1>1 DEF BrokerInv, OpenOK, ExecutionOK, OneSendPerRow, ledger, jobs
  <1>4. FailedMeansNoOrder' /\ OverIsFlat' /\ EventInv'
    BY <1>1 DEF BrokerInv, FailedMeansNoOrder, OverIsFlat, EventInv, ledger, jobs
  <1> QED
    BY <1>2, <1>3, <1>4 DEF BrokerInv

LEMMA StepKeeps == ASSUME BrokerInv, [Next]_vars PROVE BrokerInv'
  <1>1. ASSUME NEW w \in Workers, Step(w) PROVE BrokerInv'
    BY <1>1, PlanKeeps, JobsKeep, ClaimKeeps, ResolvingKeeps, SubmitKeeps, SaveSubmittedKeeps,
      SendKeeps, OpenAnsweredKeeps, AnsweredKeeps, CreatingKeeps, ReconcileOpenKeeps
    DEF Step, Lifecycle, Execute, Manage
  <1>2. CASE UNCHANGED vars
    BY <1>2
    DEF vars, ledger, jobs, broker, clock, BrokerInv, TypeOK, HandsOK, LedgerOK, OpenOK,
      ExecutionOK, OneSendPerRow, FailedMeansNoOrder, OverIsFlat, EventInv
  <1> QED
    BY <1>1, <1>2, TerminalKeeps, JobsKeep, BrokerKeeps DEF Next

LEMMA InitHolds == Init => BrokerInv
  <1> SUFFICES ASSUME Init PROVE BrokerInv
    OBVIOUS
  <1> USE Rows DEF Init
  <1>0. spent \in Spending
    BY DEF Init, Spending
  <1>1. TypeOK /\ HandsOK
    BY <1>0 DEF TypeOK, HandsOK, Holding, PastFence, Answers, Place, RowStatus
  <1>2. LedgerOK /\ OpenOK /\ ExecutionOK /\ OneSendPerRow
    BY DEF LedgerOK, OpenOK, ExecutionOK, OneSendPerRow, PastFence, Holding, Answers,
      Observed, Closing
  <1>3. FailedMeansNoOrder /\ OverIsFlat /\ EventInv
    BY DEF FailedMeansNoOrder, OverIsFlat, EventInv
  <1> QED
    BY <1>1, <1>2, <1>3 DEF BrokerInv

-----------------------------------------------------------------------------
\* The ledger, the executions, the leases and the broker fit together in every state.
THEOREM BrokerInvariant == Spec => []BrokerInv
  <1>1. BrokerInv /\ [Next]_vars => BrokerInv'
    BY StepKeeps
  <1> QED
    BY InitHolds, <1>1, PTL DEF Spec

\* No order goes out twice for one row, whoever stalls, dies or takes it over.
THEOREM OrdersGoOutOnce == Spec => []OneSendPerRow
  BY BrokerInvariant, PTL DEF BrokerInv

\* An OPEN that is reported FAILED has no position and will have none.
THEOREM FailedOpensAreEmpty == Spec => []FailedMeansNoOrder
  BY BrokerInvariant, PTL DEF BrokerInv

\* A cancelled execution sent nothing; a closed one has no position left.
THEOREM FinishedExecutionsAreFlat == Spec => []OverIsFlat
  BY BrokerInvariant, PTL DEF BrokerInv

\* After the terminal event of a setup nothing is out, or the close is latched on a managed
\* execution, or it is closed; all but the execution that was rejected over its order.
THEOREM TerminalEventsAreAnswered == Spec => []EventIsAnswered
  <1>1. ASSUME BrokerInv PROVE EventIsAnswered
    <2> SUFFICES ASSUME ended PROVE EventIsAnswered
      BY DEF EventIsAnswered
    <2>1. row["OPEN"] \in {"NONE", "FAILED"} \cup Fenced
      BY <1>1, Rows DEF BrokerInv, EventInv, TypeOK, RowStatus
    <2>2. CASE row["OPEN"] = "NONE"
      <3>1. position = "none"
        BY <1>1, <2>2, Rows DEF BrokerInv, LedgerOK, OpenOK
      <3>2. \A w \in Workers : pc[w] \in {"fenced", "armed"} => hand[w] # "OPEN"
        BY <1>1, <2>2 DEF BrokerInv, HandsOK, Holding
      <3> QED
        BY <2>2, <3>1, <3>2 DEF EventIsAnswered, NothingOut
    <2>3. CASE row["OPEN"] = "FAILED"
      BY <1>1, <2>3 DEF BrokerInv, FailedMeansNoOrder, EventIsAnswered, NothingOut
    <2>4. CASE row["OPEN"] \in Fenced
      BY <1>1, <2>4 DEF BrokerInv, EventInv, EventIsAnswered, Stranded
    <2> QED
      BY <2>1, <2>2, <2>3, <2>4
  <1> QED
    BY <1>1, BrokerInvariant, PTL

\* A refused or cancelled execution stays so: every write of the status is guarded by what
\* it was, or follows from a row that only an observed execution has.
THEOREM RefusalsAreFinal == Spec => RefusedIsFinal
  <1> USE DEF Refused, Observed, Closing, PendingOpen, Early
  <1>1. ASSUME BrokerInv, [Next]_vars, execution \in Refused PROVE execution' = execution
    <2>1. ASSUME NEW r \in Managed, NEW o \in {"CONFIRMED", "FAILED", "UNKNOWN"}, Settle(r, o)
          PROVE  execution' = execution
      BY <1>1, <2>1, SettleEffect, ManagedObserved DEF ledger
    <2>2. ASSUME NEW w \in Workers, hand[w] \in Row, Aborted(w) PROVE execution' = execution
      BY <2>1, <2>2, AbortedEffect, Rows
    <2>3. ASSUME NEW s \in {"REJECTED", "OPEN_SUBMITTED", "OPEN_UNKNOWN"}, Save(s)
          PROVE  execution' = execution
      BY <1>1, <2>3, SaveEffect DEF BrokerInv
    <2>4. ASSUME NEW w \in Workers PROVE ~Bind(w) /\ ~Manages(w) /\ ~CanConfirm(hand[w])
      BY <1>1 DEF Bind, Manages, CanConfirm, Active
    <2>5. ASSUME NEW w \in Workers, pc[w] \in Holding PROVE hand[w] \in Row
      BY <1>1, <2>5 DEF BrokerInv, HandsOK
    <2>6. ASSUME NEW w \in Workers, Lifecycle(w) PROVE execution' = execution
      BY <1>1, <2>3, <2>6 DEF Lifecycle, Plan, Enrich, EnrichFails
    <2>7. ASSUME NEW w \in Workers, Execute(w) PROVE execution' = execution
      <3>1. CASE \/ Claim(w) \/ Defer(w) \/ RefuseOpen(w)
                 \/ Submit(w) \/ Send(w) \/ CreateProtection(w)
        BY <3>1 DEF Claim, Defer, RefuseOpen, Submit, Send, CreateProtection
      <3>2. CASE RejectExecution(w) \/ SaveSubmitted(w) \/ SaveUnknown(w)
        BY <2>3, <3>2 DEF RejectExecution, SaveSubmitted, SaveUnknown
      <3>3. CASE Refuse(w) \/ NothingToProtect(w) \/ Withdraw(w)
        BY <2>1, <3>3, Rows DEF Refuse, NothingToProtect, Withdraw
      <3>4. CASE LoseFence(w) \/ Raise(w)
        BY <2>2, <2>5, <3>4 DEF LoseFence, Raise, Holding
      <3>5. CASE OpenAnswered(w)
        BY <2>2, <2>4, <2>5, <3>5 DEF OpenAnswered, ConfirmOrAbort, Holding
      <3>6. CASE Answered(w)
        <4>1. pc[w] \in Answers \cup {"seen"} =>
                Verdict(w) \in {"CONFIRMED", "FAILED", "UNKNOWN"}
          BY DEF Verdict, Answers
        <4> QED
          BY <2>1, <2>2, <2>4, <2>5, <3>6, <4>1 DEF Answered, ConfirmOrAbort, Holding
      <3> QED
        BY <2>7, <3>1, <3>2, <3>3, <3>4, <3>5, <3>6 DEF Execute
    <2>8. ASSUME NEW w \in Workers, Manage(w) PROVE execution' = execution
      BY <2>4, <2>8
      DEF Manage, ReconcileOpen, ReconcileRepair, ReconcileClose, ManageFilled,
        ProcessUnprotected, QueueClose, StageRepair, ReconcileClosed, ReconcileUnobserved
    <2>9. ASSUME NEW w \in Workers, Terminal(w) \/ Die(w) PROVE execution' = execution
      BY <1>1, <2>9 DEF Terminal, CancelPending, Die
    <2>10. CASE Broker \/ TimePasses \/ UNCHANGED vars
      BY <2>10 DEF Broker, Appear, BrokerCloses, Tamper, TimePasses, vars
    <2> QED
      BY <1>1, <2>6, <2>7, <2>8, <2>9, <2>10 DEF Next, Step
  <1>2. BrokerInv /\ [Next]_vars => [(execution \in Refused) => (execution' = execution)]_vars
    BY <1>1
  <1> QED
    BY BrokerInvariant, <1>2, PTL DEF Spec, RefusedIsFinal
=============================================================================
