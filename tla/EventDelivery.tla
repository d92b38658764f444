--------------------------- MODULE EventDelivery ---------------------------
(***************************************************************************)
(* The delivery half of the bridge loop: rows of engine_events are sent to  *)
(* Telegram chats (gold_event_bridge/bridge.py, driven by cli.py).  What    *)
(* puts the rows there is EventSpool; here a row simply arrives while the   *)
(* loop ingests.  The administrators edit the list of GOLD.i subscribers    *)
(* at any time, a send may fail or its answer be lost, and the process may  *)
(* die between any two commits.                                            *)
(***************************************************************************)
EXTENDS Naturals, Sequences, FiniteSets

CONSTANTS
    Event,          \* event identities
    Internal,       \* events of audience "internal" or of an undelivered type
    Approved,       \* position events of audience "goldi_approved"
    Admin,          \* chats of TELEGRAM_ADMIN_CHAT_IDS
    Subscriber,     \* chats that may be in the subscriber list
    Broken,         \* chats Telegram never accepts a message for
    NoEvent,        \* "no row in hand"
    Limit,          \* rows one call of deliver_pending looks at
    MaxFaults,      \* bound: sends that fail, or whose answer is lost
    MaxCrashes,     \* bound: deaths of the bridge process
    MaxEdits        \* bound: changes of the subscriber list

ASSUME EventAssumption ==
    /\ Internal \subseteq Event
    /\ Approved \subseteq Event \ Internal
    /\ NoEvent \notin Event
ASSUME ChatAssumption ==
    /\ Admin # {}
    /\ Broken \subseteq Admin \cup Subscriber
ASSUME BoundsAssumption ==
    /\ Limit \in Nat \ {0}
    /\ {MaxFaults, MaxCrashes, MaxEdits} \subseteq Nat

Chat == Admin \cup Subscriber

VARIABLES
    rows,           \* engine_events in rowid order
    state,          \* their delivery_state
    delivery,       \* deliveries: event -> chat -> state, "none" without a row
    subscribers,    \* goldi_subscribers of the orchestrator's state file
    policy,         \* the list RecipientPolicy was made from
    pc,             \* the bridge's next step
    batch,          \* rows deliver_pending has still to look at
    current,        \* the row in hand
    chats,          \* chats it has still to be sent to
    target,         \* the chat of the last send
    accepted,       \* whether the last send returned
    told,           \* how often a chat was sent an event (Telegram's side)
    everListed,     \* history: chats that have been in the list
    spent           \* how much of each bound is used

database == <<rows, state, delivery>>
bridge == <<policy, pc, batch, current, chats, target, accepted>>
outside == <<subscribers, told, everListed, spent>>
vars == <<database, bridge, outside>>

Known == {rows[i] : i \in DOMAIN rows}

Spend(what) ==
    /\ spent[what] < CASE what = "faults" -> MaxFaults
                       [] what = "crashes" -> MaxCrashes
                       [] what = "edits" -> MaxEdits
    /\ spent' = [spent EXCEPT ![what] = @ + 1]

-----------------------------------------------------------------------------
\* Defect for a mutant run: every position event goes to the subscribers.
EveryoneListed(e) ==
    IF e \in Internal THEN {} ELSE Admin \cup policy

\* RecipientPolicy.recipients: GOLDM and operational events are for admins only.
Recipients(e) ==
    IF e \in Internal THEN {}
    ELSE IF e \in Approved THEN Admin \cup policy ELSE Admin

Before(e, f) == \E i, j \in DOMAIN rows : i < j /\ rows[i] = e /\ rows[j] = f

Pending == {e \in Known : state[e] = "PENDING"}

\* pending_events()[:limit]: the Limit oldest of them.
PendingBatch ==
    {e \in Pending : Cardinality({f \in Pending : Before(f, e)}) < Limit}

-----------------------------------------------------------------------------
(* The loop of main. *)

\* load_goldi_subscribers: an unreadable file is an empty list.
BeginLoop ==
    /\ pc = "loop"
    /\ policy' \in {subscribers, {}}
    /\ pc' = "ingest"
    /\ UNCHANGED <<database, outside, batch, current, chats, target, accepted>>

\* A row ingest_spool commits.
Arrive(e) ==
    /\ pc = "ingest"
    /\ e \notin Known
    /\ rows' = Append(rows, e)
    /\ state' = [state EXCEPT ![e] = "PENDING"]
    /\ UNCHANGED <<delivery, bridge, outside>>

BeginDelivery ==
    /\ pc = "ingest"
    /\ batch' = PendingBatch
    /\ pc' = "row"
    /\ UNCHANGED <<database, outside, policy, current, chats, target, accepted>>

\* The rows of the batch are taken oldest first.
Oldest(e) == e \in batch /\ \A f \in batch : ~Before(f, e)

Suppress(e) ==
    /\ pc = "row"
    /\ Oldest(e)
    /\ Recipients(e) = {}
    /\ state' = [state EXCEPT ![e] = "SUPPRESSED"]
    /\ batch' = batch \ {e}
    /\ UNCHANGED <<rows, delivery, outside, policy, pc, current, chats, target, accepted>>

\* Defect for a mutant run: the chats are those of the first attempt.
EnlistedOnce(e) ==
    [delivery EXCEPT ![e] = [c \in Chat |->
        IF c \in Recipients(e) /\ \A d \in Admin : @[d] = "none" THEN "PENDING" ELSE @[c]]]

\* INSERT OR IGNORE INTO deliveries: rows that exist stay as they are.
Enlisted(e) ==
    [delivery EXCEPT ![e] = [c \in Chat |->
        IF c \in Recipients(e) /\ @[c] = "none" THEN "PENDING" ELSE @[c]]]

\* Defect for a mutant run: a retry goes to everybody again.
AllRows(rowsOf) == {c \in Chat : rowsOf[c] # "none"}

\* The chats a row is (again) sent to: also those no longer in the list.
Undelivered(rowsOf) == {c \in Chat : rowsOf[c] \notin {"none", "DELIVERED"}}

Enlist(e) ==
    /\ pc = "row"
    /\ Oldest(e)
    /\ Recipients(e) # {}
    /\ current' = e
    /\ batch' = batch \ {e}
    /\ delivery' = Enlisted(e)
    /\ chats' = Undelivered(delivery'[e])
    /\ pc' = "send"
    /\ UNCHANGED <<rows, state, outside, policy, target, accepted>>

\* One call of the sender; `arrives` is what the chat sees, `returns` what the
\* bridge sees.  They differ when the answer is lost (a timeout).  The rows are
\* taken in the order of their chat ids, which is one order among the others.
Send(c, arrives, returns) ==
    /\ pc = "send"
    /\ c \in chats
    /\ returns => arrives
    /\ c \in Broken => ~arrives
    /\ told' = [told EXCEPT ![current][c] = @ + IF arrives THEN 1 ELSE 0]
    /\ IF returns \/ c \in Broken THEN UNCHANGED spent ELSE Spend("faults")
    /\ target' = c
    /\ accepted' = returns
    /\ pc' = "record"
    /\ UNCHANGED <<database, policy, batch, current, chats, subscribers, everListed>>

\* Defect for a mutant run: a failed attempt is recorded like a good one.
RecordAnyway ==
    /\ pc = "record"
    /\ delivery' = [delivery EXCEPT ![current][target] = "DELIVERED"]
    /\ chats' = chats \ {target}
    /\ pc' = "send"
    /\ UNCHANGED <<rows, state, outside, policy, batch, current, target, accepted>>

\* The answer is committed before the next send.
Record ==
    /\ pc = "record"
    /\ delivery' = [delivery EXCEPT ![current][target] =
                      IF accepted THEN "DELIVERED" ELSE "RETRY"]
    /\ chats' = chats \ {target}
    /\ pc' = "send"
    /\ UNCHANGED <<rows, state, outside, policy, batch, current, target, accepted>>

\* Defect for a mutant run: one pass over the chats settles the row.
AllTried(e) == TRUE

AllDelivered(e) == Undelivered(delivery[e]) = {}

Settle ==
    /\ pc = "send"
    /\ chats = {}
    /\ state' = IF AllDelivered(current)
                THEN [state EXCEPT ![current] = "DELIVERED"] ELSE state
    /\ pc' = "row"
    /\ UNCHANGED <<rows, delivery, outside, policy, batch, current, chats, target, accepted>>

EndLoop ==
    /\ pc = "row"
    /\ batch = {}
    /\ pc' = "loop"
    /\ UNCHANGED <<database, outside, policy, batch, current, chats, target, accepted>>

-----------------------------------------------------------------------------
(* Around the loop. *)

\* The process dies and is started again: only what was committed remains.
Crash ==
    /\ Spend("crashes")
    /\ pc' = "loop"
    /\ batch' = {}
    /\ chats' = {}
    /\ UNCHANGED <<database, policy, current, target, accepted, subscribers, told, everListed>>

\* The orchestrator approves or removes a subscriber.
EditSubscribers(c) ==
    /\ Spend("edits")
    /\ subscribers' = IF c \in subscribers THEN subscribers \ {c} ELSE subscribers \cup {c}
    /\ everListed' = everListed \cup subscribers'
    /\ UNCHANGED <<database, bridge, told>>

Init ==
    /\ rows = <<>>
    /\ state = [e \in Event |-> "none"]
    /\ delivery = [e \in Event |-> [c \in Chat |-> "none"]]
    /\ subscribers = {}
    /\ policy = {}
    /\ pc = "loop"
    /\ batch = {}
    /\ current = NoEvent
    /\ chats = {}
    /\ target \in Admin
    /\ accepted = FALSE
    /\ told = [e \in Event |-> [c \in Chat |-> 0]]
    /\ everListed = {}
    /\ spent = [what \in {"faults", "crashes", "edits"} |-> 0]

Bridge ==
    \/ BeginLoop
    \/ BeginDelivery
    \/ \E e \in Event : Suppress(e) \/ Enlist(e)
    \/ \E c \in Chat, arrives, returns \in BOOLEAN : Send(c, arrives, returns)
    \/ Record
    \/ Settle
    \/ EndLoop

Next ==
    \/ Bridge
    \/ \E e \in Event : Arrive(e)
    \/ Crash
    \/ \E c \in Subscriber : EditSubscribers(c)

Spec == Init /\ [][Next]_vars

\* The bridge process is scheduled, and started again whenever it dies.
FairSpec == Spec /\ WF_vars(Bridge)

-----------------------------------------------------------------------------
(* Properties.                                                              *)

TypeOK ==
    /\ rows \in Seq(Event)
    /\ state \in [Event -> {"none", "PENDING", "SUPPRESSED", "DELIVERED"}]
    /\ delivery \in [Event -> [Chat -> {"none", "PENDING", "RETRY", "DELIVERED"}]]
    /\ subscribers \subseteq Subscriber
    /\ policy \subseteq Subscriber
    /\ pc \in {"loop", "ingest", "row", "send", "record"}
    /\ batch \subseteq Event
    /\ current \in Event \cup {NoEvent}
    /\ chats \subseteq Chat
    /\ target \in Chat
    /\ accepted \in BOOLEAN
    /\ told \in [Event -> [Chat -> Nat]]
    /\ everListed \subseteq Subscriber
    /\ spent \in [{"faults", "crashes", "edits"} -> Nat]

\* The delivery state of the database, the messages sent and the row in hand
\* agree: what is DELIVERED was told, a row is enlisted for those entitled to it
\* and no one else, a settled row has nothing left to send, and what is in hand
\* is unsettled.
DeliveredWasTold ==
    /\ \A e \in Event, c \in Chat : delivery[e][c] = "DELIVERED" => told[e][c] > 0
    /\ pc = "record" /\ accepted => told[current][target] > 0

EnlistedAreEntitled ==
    \A e \in Event, c \in Chat : delivery[e][c] # "none" =>
        \/ c \in Admin /\ e \notin Internal
        \/ c \in everListed /\ e \in Approved

SettledHasNothingLeft ==
    \A e \in Event :
        /\ state[e] = "DELIVERED" =>
              /\ Undelivered(delivery[e]) = {}
              /\ \A a \in Admin : delivery[e][a] # "none"
        /\ state[e] = "SUPPRESSED" => e \in Internal

InHandIsUnsettled ==
    /\ \A e \in Event : state[e] = "none" <=> e \notin Known
    /\ \A e \in batch : state[e] = "PENDING"
    /\ pc \in {"send", "record"} =>
          /\ current \in Event \ batch
          /\ state[current] = "PENDING"
          /\ \A a \in Admin : delivery[current][a] # "none"
          /\ \A c \in Recipients(current) \cup chats : delivery[current][c] # "none"
    /\ pc = "record" => target \in chats

DeliveryInv ==
    /\ TypeOK
    /\ subscribers \cup policy \subseteq everListed
    /\ DeliveredWasTold
    /\ EnlistedAreEntitled
    /\ SettledHasNothingLeft
    /\ InHandIsUnsettled

(***************************************************************************)
(* Nobody is missed: a row is settled only when everyone was sent it whom  *)
(* the event is for by the list as this loop read it - also a subscriber   *)
(* added while the row was waiting for another chat - and everyone it was  *)
(* enlisted for by the lists of earlier loops; suppressed only when it is  *)
(* for nobody at all.  A loop that could not read the list takes it for    *)
(* empty, and only the lists before it count.                              *)
(***************************************************************************)
SettledMeansTold ==
    [][\A e \in Event : state[e] = "PENDING" =>
          /\ state'[e] = "DELIVERED" =>
                \A c \in Chat : c \in Recipients(e) \cup Admin \/ delivery[e][c] # "none"
                                   => told[e][c] > 0
          /\ state'[e] = "SUPPRESSED" => e \in Internal]_vars

\* No audience leakage: an event of the admin-only profile or type never reaches
\* a subscriber, an internal one nobody, and nobody gets an event who was never
\* in the list, whatever the list becomes between two attempts.
NoLeakage ==
    \A e \in Event, c \in Chat : told[e][c] > 0 =>
        \/ c \in Admin /\ e \notin Internal
        \/ c \in everListed /\ e \in Approved

\* The second, third, ... message a chat got about one event.
Repeats == UNION {{<<e, c>>} \X (2 .. told[e][c]) : e \in Event, c \in Chat}

\* A chat is told twice only because the process died between a send and its
\* commit, or because Telegram's answer was lost: every repeat has its fault.
RepeatsAreExplained == Cardinality(Repeats) <= spent.crashes + spent.faults

\* A settled row stays settled, and is sent to nobody any more.
SettledIsFinal ==
    [][\A e \in Event : state[e] \in {"SUPPRESSED", "DELIVERED"} =>
          state'[e] = state[e] /\ told'[e] = told[e]]_vars

(***************************************************************************)
(* A row enlisted for a chat that accepts nothing is looked at, and sent to *)
(* that chat, in every loop; deliver_pending looks at the Limit oldest      *)
(* pending rows only.                                                       *)
(***************************************************************************)
Stuck == {e \in Pending : \E c \in Broken : delivery[e][c] # "none"}

Starved(e) == Cardinality({f \in Stuck : Before(f, e)}) >= Limit

(***************************************************************************)
(* Every event that is not internal reaches every administrator Telegram   *)
(* accepts messages for, whoever else it fails for - unless Limit rows     *)
(* older than it are stuck on such a chat: those fill every batch, and the *)
(* younger event waits for ever.                                           *)
(***************************************************************************)
AdminsHear ==
    \A e \in Event \ Internal :
        e \in Known ~> (\A a \in Admin \ Broken : told[e][a] > 0) \/ Starved(e)

=============================================================================
