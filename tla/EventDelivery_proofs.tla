------------------------ MODULE EventDelivery_proofs ------------------------
(***************************************************************************)
(* Theorems about the delivery loop, for any number of events, chats,       *)
(* failures, crashes and changes of the subscriber list.                    *)
(*                                                                         *)
(* The argument: DeliveryInv is inductive.  A row is only enlisted for       *)
(* chats it is meant for, only a committed answer makes it DELIVERED, the   *)
(* batch holds unsettled rows only, and a crash throws away nothing but the *)
(* batch.  What was sent is then a consequence of what is recorded.         *)
(*                                                                         *)
(* Repeats are counted against their causes: a pair (event, chat) that was  *)
(* told and is not recorded as DELIVERED has used up a crash or a lost      *)
(* answer already, and sending to it again moves that cause to the repeat.  *)
(***************************************************************************)
EXTENDS EventDelivery, FiniteSetTheorems, TLAPS

\* The empty database satisfies the invariant.
LEMMA InitDelivery == Init => DeliveryInv /\ NoLeakage
  <1> SUFFICES ASSUME Init PROVE DeliveryInv /\ NoLeakage
    OBVIOUS
  <1>1. TypeOK
    <2>1. rows \in Seq(Event)
      BY DEF Init
    <2>2. state \in [Event -> {"none", "PENDING", "SUPPRESSED", "DELIVERED"}]
      BY DEF Init
    <2>3. delivery \in [Event -> [Chat -> {"none", "PENDING", "RETRY", "DELIVERED"}]]
      BY DEF Init
    <2>4. told \in [Event -> [Chat -> Nat]]
      BY DEF Init
    <2>5. target \in Chat
      BY DEF Init, Chat
    <2>6. spent \in [{"faults", "crashes", "edits"} -> Nat]
      BY DEF Init
    <2> QED
      BY <2>1, <2>2, <2>3, <2>4, <2>5, <2>6 DEF Init, TypeOK
  <1>2. Known = {}
    BY DEF Init, Known
  <1>3. DeliveredWasTold /\ EnlistedAreEntitled /\ NoLeakage
    BY DEF Init, DeliveredWasTold, EnlistedAreEntitled, NoLeakage
  <1>4. SettledHasNothingLeft
    BY DEF Init, SettledHasNothingLeft
  <1>5. InHandIsUnsettled
    BY <1>2 DEF Init, InHandIsUnsettled
  <1>6. subscribers \cup policy \subseteq everListed
    BY DEF Init
  <1> QED
    BY <1>1, <1>3, <1>4, <1>5, <1>6 DEF DeliveryInv

Budget == [{"faults", "crashes", "edits"} -> Nat]

\* A used bound is still a count.
LEMMA SpendType ==
    ASSUME NEW what \in {"faults", "crashes", "edits"}, spent \in Budget, Spend(what)
    PROVE  spent' \in Budget
  BY DEF Spend, Budget

\* Reading the subscriber list, ending a loop, dying: the bridge only forgets.
LEMMA ForgetStep ==
    DeliveryInv /\ NoLeakage /\ (BeginLoop \/ EndLoop \/ Crash) => DeliveryInv' /\ NoLeakage'
  <1> SUFFICES ASSUME DeliveryInv, NoLeakage, BeginLoop \/ EndLoop \/ Crash
               PROVE  DeliveryInv' /\ NoLeakage'
    OBVIOUS
  <1> USE DEF database, outside, bridge
  <1>1. TypeOK'
    <2>1. CASE BeginLoop \/ EndLoop
      BY <2>1 DEF DeliveryInv, TypeOK, BeginLoop, EndLoop
    <2>2. CASE Crash
      <3>1. spent' \in Budget
        BY <2>2, SpendType DEF DeliveryInv, TypeOK, Crash, Budget
      <3> QED
        BY <2>2, <3>1 DEF DeliveryInv, TypeOK, Crash, Budget
    <2> QED
      BY <2>1, <2>2
  <1>2. (subscribers \cup policy \subseteq everListed)'
    BY DEF DeliveryInv, BeginLoop, EndLoop, Crash
  <1>3. Known' = Known /\ pc' \in {"loop", "ingest"}
    BY DEF Known, BeginLoop, EndLoop, Crash
  <1>4. UNCHANGED <<state, delivery, told, everListed>> /\ batch' \subseteq batch
    BY DEF BeginLoop, EndLoop, Crash
  <1>5. DeliveredWasTold' /\ EnlistedAreEntitled' /\ NoLeakage'
    BY <1>3, <1>4 DEF DeliveryInv, DeliveredWasTold, EnlistedAreEntitled, NoLeakage
  <1>6. SettledHasNothingLeft'
    BY <1>4 DEF DeliveryInv, SettledHasNothingLeft, Undelivered
  <1>7. InHandIsUnsettled'
    BY <1>3, <1>4 DEF DeliveryInv, InHandIsUnsettled
  <1> QED
    BY <1>1, <1>2, <1>5, <1>6, <1>7 DEF DeliveryInv

\* A new row is pending and nobody has been told of it.
LEMMA ArriveStep ==
    ASSUME NEW e \in Event, DeliveryInv, NoLeakage, Arrive(e)
    PROVE  DeliveryInv' /\ NoLeakage'
  <1> USE DEF bridge, outside
  <1>1. TypeOK'
    BY DEF DeliveryInv, TypeOK, Arrive
  <1>2. Known' = Known \cup {e}
    <2>1. rows \in Seq(Event) /\ rows' = Append(rows, e)
      BY DEF DeliveryInv, TypeOK, Arrive
    <2>2. \A i \in DOMAIN rows : i \in DOMAIN rows' /\ rows'[i] = rows[i]
      BY <2>1
    <2>3. Len(rows) + 1 \in DOMAIN rows' /\ rows'[Len(rows) + 1] = e
      BY <2>1
    <2>4. \A i \in DOMAIN rows' : i \in DOMAIN rows \/ i = Len(rows) + 1
      BY <2>1
    <2> QED
      BY <2>2, <2>3, <2>4 DEF Known
  <1>3. pc = "ingest" /\ UNCHANGED <<delivery, told, everListed, pc, batch, policy, subscribers>>
    BY DEF Arrive
  <1>4. DeliveredWasTold' /\ EnlistedAreEntitled' /\ NoLeakage'
    BY <1>3 DEF DeliveryInv, DeliveredWasTold, EnlistedAreEntitled, NoLeakage
  <1>5. state' = [state EXCEPT ![e] = "PENDING"] /\ state \in [Event -> {"none", "PENDING", "SUPPRESSED", "DELIVERED"}]
    BY DEF Arrive, DeliveryInv, TypeOK
  <1>6. SettledHasNothingLeft'
    BY <1>3, <1>5 DEF DeliveryInv, SettledHasNothingLeft, Undelivered
  <1>7. InHandIsUnsettled'
    BY <1>2, <1>3, <1>5 DEF DeliveryInv, InHandIsUnsettled, TypeOK
  <1> QED
    BY <1>1, <1>3, <1>4, <1>6, <1>7 DEF DeliveryInv

\* The batch is made of pending rows.
LEMMA BeginDeliveryStep ==
    DeliveryInv /\ NoLeakage /\ BeginDelivery => DeliveryInv' /\ NoLeakage'
  <1> SUFFICES ASSUME DeliveryInv, NoLeakage, BeginDelivery
               PROVE  DeliveryInv' /\ NoLeakage'
    OBVIOUS
  <1> USE DEF database, outside
  <1>1. batch' \subseteq Known /\ \A e \in batch' : state[e] = "PENDING"
    BY DEF BeginDelivery, PendingBatch, Pending
  <1>2. Known \subseteq Event
    BY DEF DeliveryInv, TypeOK, Known
  <1>3. UNCHANGED <<database, outside, policy, current, chats, target, accepted>> /\ pc' = "row"
    BY DEF BeginDelivery
  <1>4. Known' = Known
    BY <1>3 DEF Known
  <1>5. TypeOK'
    BY <1>1, <1>2, <1>3 DEF DeliveryInv, TypeOK
  <1>6. DeliveredWasTold' /\ EnlistedAreEntitled' /\ NoLeakage'
    BY <1>3 DEF DeliveryInv, DeliveredWasTold, EnlistedAreEntitled, NoLeakage
  <1>7. SettledHasNothingLeft'
    BY <1>3 DEF DeliveryInv, SettledHasNothingLeft, Undelivered
  <1>8. InHandIsUnsettled'
    BY <1>1, <1>3, <1>4 DEF DeliveryInv, InHandIsUnsettled
  <1> QED
    BY <1>3, <1>5, <1>6, <1>7, <1>8 DEF DeliveryInv

\* Only events without a recipient are suppressed: administrators always are one.
LEMMA SuppressStep ==
    ASSUME NEW e \in Event, DeliveryInv, NoLeakage, Suppress(e)
    PROVE  DeliveryInv' /\ NoLeakage'
  <1> USE DEF outside
  <1>1. pc = "row" /\ e \in batch /\ e \in Internal
    BY ChatAssumption DEF Suppress, Oldest, Recipients
  <1>2. /\ state' = [state EXCEPT ![e] = "SUPPRESSED"]
        /\ batch' = batch \ {e}
        /\ UNCHANGED <<rows, delivery, outside, policy, pc, current, chats, target, accepted>>
    BY DEF Suppress
  <1>3. TypeOK'
    BY <1>2 DEF DeliveryInv, TypeOK
  <1>4. Known' = Known
    BY <1>2 DEF Known
  <1>5. DeliveredWasTold' /\ EnlistedAreEntitled' /\ NoLeakage'
    BY <1>2 DEF DeliveryInv, DeliveredWasTold, EnlistedAreEntitled, NoLeakage
  <1>6. SettledHasNothingLeft'
    BY <1>1, <1>2 DEF DeliveryInv, TypeOK, SettledHasNothingLeft, Undelivered
  <1>7. InHandIsUnsettled'
    BY <1>1, <1>2, <1>4 DEF DeliveryInv, TypeOK, InHandIsUnsettled
  <1> QED
    BY <1>2, <1>3, <1>5, <1>6, <1>7 DEF DeliveryInv

\* Delivery rows are added for the entitled only, and none is taken back.
LEMMA EnlistStep ==
    ASSUME NEW e \in Event, DeliveryInv, NoLeakage, Enlist(e)
    PROVE  DeliveryInv' /\ NoLeakage'
  <1> USE DEF outside
  <1>1. pc = "row" /\ e \in batch /\ Recipients(e) # {}
    BY DEF Enlist, Oldest
  <1>2. /\ current' = e
        /\ batch' = batch \ {e}
        /\ delivery' = Enlisted(e)
        /\ chats' = Undelivered(delivery'[e])
        /\ pc' = "send"
        /\ UNCHANGED <<rows, state, outside, policy, target, accepted>>
    BY DEF Enlist
  <1>3. delivery \in [Event -> [Chat -> {"none", "PENDING", "RETRY", "DELIVERED"}]]
    BY DEF DeliveryInv, TypeOK
  <1>4. /\ \A f \in Event \ {e} : delivery'[f] = delivery[f]
        /\ \A c \in Chat : delivery'[e][c] =
              IF c \in Recipients(e) /\ delivery[e][c] = "none"
              THEN "PENDING" ELSE delivery[e][c]
    BY <1>2, <1>3 DEF Enlisted
  <1>5. /\ e \notin Internal /\ Admin \subseteq Recipients(e)
        /\ \A c \in Recipients(e) : c \in Admin \/ (c \in policy /\ e \in Approved)
    <2>1. CASE e \in Internal
      BY <2>1, <1>1 DEF Recipients
    <2>2. CASE e \notin Internal /\ e \in Approved
      <3>1. Recipients(e) = Admin \cup policy
        BY <2>2 DEF Recipients
      <3> QED
        BY <2>2, <3>1
    <2>3. CASE e \notin Internal /\ e \notin Approved
      <3>1. Recipients(e) = Admin
        BY <2>3 DEF Recipients
      <3> QED
        BY <2>3, <3>1
    <2> QED
      BY <2>1, <2>2, <2>3
  <1>6. policy \subseteq everListed /\ Admin \subseteq Chat
    BY DEF DeliveryInv, Chat
  <1>7. delivery' \in [Event -> [Chat -> {"none", "PENDING", "RETRY", "DELIVERED"}]]
    BY <1>2, <1>3 DEF Enlisted
  <1>8. TypeOK'
    BY <1>2, <1>7 DEF DeliveryInv, TypeOK, Undelivered
  <1>9. Known' = Known
    BY <1>2 DEF Known
  <1>10. DeliveredWasTold'
    BY <1>2, <1>4 DEF DeliveryInv, DeliveredWasTold
  <1>11. EnlistedAreEntitled' /\ NoLeakage'
    BY <1>2, <1>4, <1>5, <1>6 DEF DeliveryInv, EnlistedAreEntitled, NoLeakage
  <1>12. SettledHasNothingLeft'
    <2>1. state[e] = "PENDING"
      BY <1>1 DEF DeliveryInv, InHandIsUnsettled
    <2> QED
      BY <2>1, <1>2, <1>4 DEF DeliveryInv, SettledHasNothingLeft, Undelivered
  <1>13. InHandIsUnsettled'
    <2>0. state[e] = "PENDING"
      BY <1>1 DEF DeliveryInv, InHandIsUnsettled
    <2>1. \A a \in Admin : delivery'[e][a] # "none"
      BY <1>4, <1>5, <1>6
    <2>2. \A c \in chats' : delivery'[e][c] # "none"
      BY <1>2 DEF Undelivered
    <2>3. Recipients(current)' = Recipients(e) /\ Recipients(e) \subseteq Chat
      BY <1>2 DEF DeliveryInv, TypeOK, Recipients, Chat
    <2>4. \A c \in Recipients(e) : delivery'[e][c] # "none"
      BY <1>4, <2>3
    <2> QED
      BY <1>1, <1>2, <1>9, <2>1, <2>2, <2>3, <2>4 DEF DeliveryInv, InHandIsUnsettled
  <1> QED
    BY <1>2, <1>8, <1>10, <1>11, <1>12, <1>13 DEF DeliveryInv

\* Only chats with a delivery row are sent to; an accepted send reached its chat.
LEMMA SendStep ==
    ASSUME NEW c \in Chat, NEW arrives \in BOOLEAN, NEW returns \in BOOLEAN,
           DeliveryInv, NoLeakage, Send(c, arrives, returns)
    PROVE  DeliveryInv' /\ NoLeakage'
  <1> USE DEF database
  <1>1. pc = "send" /\ c \in chats /\ (returns => arrives)
    BY DEF Send
  <1>2. /\ told' = [told EXCEPT ![current][c] = @ + IF arrives THEN 1 ELSE 0]
        /\ target' = c /\ accepted' = returns /\ pc' = "record"
        /\ UNCHANGED <<rows, state, delivery, policy, batch, current, chats, subscribers,
                       everListed>>
    BY DEF Send
  <1>3. /\ current \in Event /\ state[current] = "PENDING"
        /\ delivery[current][c] # "none"
    BY <1>1 DEF DeliveryInv, InHandIsUnsettled
  <1>4. told \in [Event -> [Chat -> Nat]]
    BY DEF DeliveryInv, TypeOK
  <1>5. told' \in [Event -> [Chat -> Nat]]
    <2> DEFINE n == told[current][c] + IF arrives THEN 1 ELSE 0
    <2>1. told[current] \in [Chat -> Nat] /\ n \in Nat
      BY <1>3, <1>4
    <2>2. [told[current] EXCEPT ![c] = n] \in [Chat -> Nat]
      BY <2>1
    <2>3. told' = [told EXCEPT ![current] = [told[current] EXCEPT ![c] = n]]
      BY <1>2
    <2> HIDE DEF n
    <2> QED
      BY <1>4, <2>2, <2>3
  <1>6. /\ \A f \in Event, d \in Chat : f # current \/ d # c => told'[f][d] = told[f][d]
        /\ told'[current][c] = told[current][c] + IF arrives THEN 1 ELSE 0
    BY <1>2, <1>3, <1>4
  <1>7. \A f \in Event, d \in Chat : told[f][d] > 0 => told'[f][d] > 0
    BY <1>3, <1>4, <1>6
  <1>8. spent' \in Budget
    BY SpendType DEF Send, DeliveryInv, TypeOK, Budget
  <1>9. TypeOK'
    BY <1>1, <1>2, <1>5, <1>8 DEF DeliveryInv, TypeOK, Budget
  <1>10. Known' = Known
    BY <1>2 DEF Known
  <1>11. DeliveredWasTold'
    <2>1. returns => told'[current][c] > 0
      BY <1>1, <1>3, <1>4, <1>6
    <2> QED
      BY <2>1, <1>2, <1>7 DEF DeliveryInv, DeliveredWasTold
  <1>12. EnlistedAreEntitled'
    BY <1>2 DEF DeliveryInv, EnlistedAreEntitled
  <1>13. NoLeakage'
    <2> SUFFICES ASSUME NEW f \in Event, NEW d \in Chat, told'[f][d] > 0
                 PROVE  (d \in Admin /\ f \notin Internal) \/ (d \in everListed /\ f \in Approved)
      BY <1>2 DEF NoLeakage
    <2>1. CASE f = current /\ d = c
      BY <2>1, <1>3 DEF DeliveryInv, EnlistedAreEntitled
    <2>2. CASE f # current \/ d # c
      BY <2>2, <1>6 DEF NoLeakage
    <2> QED
      BY <2>1, <2>2
  <1>14. SettledHasNothingLeft'
    BY <1>2 DEF DeliveryInv, SettledHasNothingLeft, Undelivered
  <1>15. InHandIsUnsettled'
    BY <1>1, <1>2, <1>10 DEF DeliveryInv, InHandIsUnsettled, Recipients
  <1> QED
    BY <1>2, <1>9, <1>11, <1>12, <1>13, <1>14, <1>15 DEF DeliveryInv

\* Only an accepted send is recorded as DELIVERED.
LEMMA RecordStep ==
    DeliveryInv /\ NoLeakage /\ Record => DeliveryInv' /\ NoLeakage'
  <1> SUFFICES ASSUME DeliveryInv, NoLeakage, Record PROVE DeliveryInv' /\ NoLeakage'
    OBVIOUS
  <1> USE DEF outside
  <1>1. /\ pc = "record" /\ chats' = chats \ {target} /\ pc' = "send"
        /\ UNCHANGED <<rows, state, outside, policy, batch, current, target, accepted>>
    BY DEF Record
  <1> DEFINE outcome == IF accepted THEN "DELIVERED" ELSE "RETRY"
  <1>2. delivery' = [delivery EXCEPT ![current] = [@ EXCEPT ![target] = outcome]]
    BY DEF Record
  <1>3. /\ current \in Event /\ state[current] = "PENDING" /\ target \in Chat
        /\ delivery[current][target] # "none"
    BY <1>1 DEF DeliveryInv, TypeOK, InHandIsUnsettled
  <1>4. outcome \in {"RETRY", "DELIVERED"} /\ (outcome = "DELIVERED" => accepted)
    OBVIOUS
  <1>5. delivery \in [Event -> [Chat -> {"none", "PENDING", "RETRY", "DELIVERED"}]]
    BY DEF DeliveryInv, TypeOK
  <1> HIDE DEF outcome
  <1>6. delivery' \in [Event -> [Chat -> {"none", "PENDING", "RETRY", "DELIVERED"}]]
    <2>1. [delivery[current] EXCEPT ![target] = outcome]
            \in [Chat -> {"none", "PENDING", "RETRY", "DELIVERED"}]
      BY <1>3, <1>4, <1>5
    <2> QED
      BY <1>2, <1>3, <1>5, <2>1
  <1>7. /\ delivery'[current][target] = outcome
        /\ \A f \in Event, d \in Chat :
              f # current \/ d # target => delivery'[f][d] = delivery[f][d]
    BY <1>2, <1>3, <1>5
  <1>8. TypeOK'
    BY <1>1, <1>6 DEF DeliveryInv, TypeOK
  <1>9. Known' = Known
    BY <1>1 DEF Known
  <1>10. DeliveredWasTold'
    <2>1. accepted => told[current][target] > 0
      BY <1>1 DEF DeliveryInv, DeliveredWasTold
    <2>2. ASSUME NEW f \in Event, NEW d \in Chat, delivery'[f][d] = "DELIVERED"
          PROVE  told'[f][d] > 0
      <3>1. CASE f = current /\ d = target
        BY <3>1, <2>1, <2>2, <1>1, <1>4, <1>7
      <3>2. CASE f # current \/ d # target
        BY <3>2, <2>2, <1>1, <1>7 DEF DeliveryInv, DeliveredWasTold
      <3> QED
        BY <3>1, <3>2
    <2> QED
      BY <2>2, <1>1 DEF DeliveredWasTold
  <1>11. \A f \in Event, d \in Chat : delivery'[f][d] = "none" <=> delivery[f][d] = "none"
    BY <1>3, <1>4, <1>7
  <1>12. EnlistedAreEntitled' /\ NoLeakage'
    BY <1>1, <1>11 DEF DeliveryInv, EnlistedAreEntitled, NoLeakage
  <1>13. SettledHasNothingLeft'
    <2>1. ASSUME NEW f \in Event, state[f] # "PENDING" PROVE delivery'[f] = delivery[f]
      BY <2>1, <1>2, <1>3, <1>5
    <2> QED
      BY <2>1, <1>1 DEF DeliveryInv, SettledHasNothingLeft, Undelivered
  <1>14. InHandIsUnsettled'
    <2>1. Admin \subseteq Chat /\ chats \subseteq Chat
      BY DEF Chat, DeliveryInv, TypeOK
    <2>2. /\ \A a \in Admin : delivery'[current][a] # "none"
          /\ \A c \in chats' : delivery'[current][c] # "none"
      BY <2>1, <1>1, <1>3, <1>11 DEF DeliveryInv, InHandIsUnsettled
    <2>3. Recipients(current)' = Recipients(current) /\ Recipients(current) \subseteq Chat
      BY <1>1 DEF DeliveryInv, TypeOK, Recipients, Chat
    <2>4. \A c \in Recipients(current) : delivery'[current][c] # "none"
      BY <2>3, <1>1, <1>3, <1>11 DEF DeliveryInv, InHandIsUnsettled
    <2> QED
      BY <2>2, <2>3, <2>4, <1>1, <1>3, <1>9 DEF DeliveryInv, InHandIsUnsettled
  <1> QED
    BY <1>1, <1>8, <1>10, <1>12, <1>13, <1>14 DEF DeliveryInv

\* A row is settled when nothing of it is left to send.
LEMMA SettleStep ==
    DeliveryInv /\ NoLeakage /\ Settle => DeliveryInv' /\ NoLeakage'
  <1> SUFFICES ASSUME DeliveryInv, NoLeakage, Settle PROVE DeliveryInv' /\ NoLeakage'
    OBVIOUS
  <1> USE DEF outside
  <1>1. /\ pc = "send" /\ pc' = "row"
        /\ UNCHANGED <<rows, delivery, outside, policy, batch, current, chats, target, accepted>>
    BY DEF Settle
  <1>2. /\ current \in Event \ batch /\ state[current] = "PENDING"
        /\ \A a \in Admin : delivery[current][a] # "none"
    BY <1>1 DEF DeliveryInv, InHandIsUnsettled
  <1>3. state \in [Event -> {"none", "PENDING", "SUPPRESSED", "DELIVERED"}]
    BY DEF DeliveryInv, TypeOK
  <1>4. \/ state' = state
        \/ /\ state' = [state EXCEPT ![current] = "DELIVERED"]
           /\ Undelivered(delivery[current]) = {}
    BY DEF Settle, AllDelivered
  <1>5. /\ state' \in [Event -> {"none", "PENDING", "SUPPRESSED", "DELIVERED"}]
        /\ \A f \in Event : f # current => state'[f] = state[f]
        /\ state'[current] \in {"PENDING", "DELIVERED"}
        /\ state'[current] = "DELIVERED" => Undelivered(delivery[current]) = {}
    BY <1>2, <1>3, <1>4
  <1>6. TypeOK'
    BY <1>1, <1>5 DEF DeliveryInv, TypeOK
  <1>7. Known' = Known
    BY <1>1 DEF Known
  <1>8. DeliveredWasTold' /\ EnlistedAreEntitled' /\ NoLeakage'
    BY <1>1 DEF DeliveryInv, DeliveredWasTold, EnlistedAreEntitled, NoLeakage
  <1>9. SettledHasNothingLeft'
    BY <1>1, <1>2, <1>5 DEF DeliveryInv, SettledHasNothingLeft, Undelivered
  <1>10. InHandIsUnsettled'
    <2>1. \A f \in Event : state'[f] = "none" <=> f \notin Known
      BY <1>2, <1>5 DEF DeliveryInv, InHandIsUnsettled
    <2>2. batch \subseteq Event
      BY DEF DeliveryInv, TypeOK
    <2> QED
      BY <2>1, <2>2, <1>1, <1>2, <1>5, <1>7 DEF DeliveryInv, InHandIsUnsettled
  <1> QED
    BY <1>1, <1>6, <1>8, <1>9, <1>10 DEF DeliveryInv

\* The history of the list only grows, so nobody loses an entitlement he had.
LEMMA EditStep ==
    ASSUME NEW c \in Subscriber, DeliveryInv, NoLeakage, EditSubscribers(c)
    PROVE  DeliveryInv' /\ NoLeakage'
  <1> USE DEF database, bridge
  <1>1. /\ subscribers' \subseteq subscribers \cup {c}
        /\ everListed' = everListed \cup subscribers'
        /\ UNCHANGED <<database, bridge, told>>
    BY DEF EditSubscribers
  <1>2. spent' \in Budget
    BY SpendType DEF EditSubscribers, DeliveryInv, TypeOK, Budget
  <1>3. TypeOK'
    BY <1>1, <1>2 DEF DeliveryInv, TypeOK, Budget
  <1>4. (subscribers \cup policy \subseteq everListed)'
    BY <1>1 DEF DeliveryInv
  <1>5. Known' = Known
    BY <1>1 DEF Known
  <1>6. DeliveredWasTold' /\ EnlistedAreEntitled' /\ NoLeakage'
    BY <1>1 DEF DeliveryInv, DeliveredWasTold, EnlistedAreEntitled, NoLeakage
  <1>7. SettledHasNothingLeft'
    BY <1>1 DEF DeliveryInv, SettledHasNothingLeft, Undelivered
  <1>8. InHandIsUnsettled'
    BY <1>1, <1>5 DEF DeliveryInv, InHandIsUnsettled, Recipients
  <1> QED
    BY <1>3, <1>4, <1>6, <1>7, <1>8 DEF DeliveryInv

\* Both invariants are preserved by every step.
LEMMA DeliveryStep ==
    DeliveryInv /\ NoLeakage /\ [Next]_vars => DeliveryInv' /\ NoLeakage'
  <1> SUFFICES ASSUME DeliveryInv, NoLeakage, [Next]_vars PROVE DeliveryInv' /\ NoLeakage'
    OBVIOUS
  <1>1. CASE BeginLoop \/ EndLoop \/ Crash
    BY <1>1, ForgetStep
  <1>2. CASE BeginDelivery
    BY <1>2, BeginDeliveryStep
  <1>3. CASE \E e \in Event : Suppress(e) \/ Enlist(e)
    BY <1>3, SuppressStep, EnlistStep
  <1>4. CASE \E c \in Chat, arrives, returns \in BOOLEAN : Send(c, arrives, returns)
    BY <1>4, SendStep
  <1>5. CASE Record \/ Settle
    BY <1>5, RecordStep, SettleStep
  <1>6. CASE \E e \in Event : Arrive(e)
    BY <1>6, ArriveStep
  <1>7. CASE \E c \in Subscriber : EditSubscribers(c)
    BY <1>7, EditStep
  <1>8. CASE UNCHANGED vars
    <2> USE <1>8 DEF vars, database, bridge, outside
    <2>1. TypeOK' /\ Known' = Known
      BY DEF DeliveryInv, TypeOK, Known
    <2>2. DeliveredWasTold' /\ EnlistedAreEntitled' /\ NoLeakage'
      BY DEF DeliveryInv, DeliveredWasTold, EnlistedAreEntitled, NoLeakage
    <2>3. SettledHasNothingLeft'
      BY DEF DeliveryInv, SettledHasNothingLeft, Undelivered
    <2>4. InHandIsUnsettled'
      BY <2>1 DEF DeliveryInv, InHandIsUnsettled, Recipients
    <2> QED
      BY <2>1, <2>2, <2>3, <2>4 DEF DeliveryInv
  <1> QED
    BY <1>1, <1>2, <1>3, <1>4, <1>5, <1>6, <1>7, <1>8 DEF Next, Bridge

-----------------------------------------------------------------------------
\* The delivery state of the database, the messages sent and the row the bridge
\* has in hand agree in every reachable state.
THEOREM DeliveryInvariant == Spec => []DeliveryInv
  <1>1. Init => DeliveryInv /\ NoLeakage
    BY InitDelivery
  <1>2. DeliveryInv /\ NoLeakage /\ [Next]_vars => (DeliveryInv /\ NoLeakage)'
    BY DeliveryStep
  <1> QED
    BY <1>1, <1>2, PTL DEF Spec

\* RecipientPolicy keeps admin-only and internal events from everybody else,
\* whatever the subscriber list is edited to between two attempts.
THEOREM NobodyElseIsTold == Spec => []NoLeakage
  <1>1. Init => DeliveryInv /\ NoLeakage
    BY InitDelivery
  <1>2. DeliveryInv /\ NoLeakage /\ [Next]_vars => (DeliveryInv /\ NoLeakage)'
    BY DeliveryStep
  <1> QED
    BY <1>1, <1>2, PTL DEF Spec

\* deliver_pending settles no row that somebody whom the event is for, by the
\* list of this loop or of the loops that enlisted it, was not sent.
THEOREM SettledRowsWereSent == Spec => SettledMeansTold
  <1> DEFINE Missed(e, c) ==
                /\ c \in Recipients(e) \cup Admin \/ delivery[e][c] # "none"
                /\ told[e][c] = 0
  <1>1. ASSUME DeliveryInv, Next, NEW e \in Event, state[e] = "PENDING"
        PROVE  /\ state'[e] = "DELIVERED" => \A c \in Chat : ~Missed(e, c)
               /\ state'[e] = "SUPPRESSED" => e \in Internal
    <2> USE <1>1
    <2> USE DEF database, outside, bridge
    <2>1. state \in [Event -> {"none", "PENDING", "SUPPRESSED", "DELIVERED"}]
      BY DEF DeliveryInv, TypeOK
    <2>2. CASE Settle
      <3>1. ASSUME state'[e] = "DELIVERED", NEW c \in Chat, Missed(e, c) PROVE FALSE
        <4>1. e = current /\ Undelivered(delivery[e]) = {} /\ pc = "send"
          BY <2>1, <2>2, <3>1 DEF Settle, AllDelivered
        <4>2. delivery[e][c] # "none"
          BY <3>1, <4>1 DEF DeliveryInv, InHandIsUnsettled
        <4>3. delivery[e][c] = "DELIVERED"
          BY <4>1, <4>2 DEF Undelivered
        <4>4. told[e][c] > 0
          BY <4>3 DEF DeliveryInv, DeliveredWasTold
        <4> QED
          BY <3>1, <4>4
      <3>2. state'[e] # "SUPPRESSED"
        BY <2>1, <2>2 DEF Settle
      <3> QED
        BY <3>1, <3>2
    <2>3. ASSUME NEW f \in Event, Suppress(f)
          PROVE  /\ state'[e] # "DELIVERED"
                 /\ state'[e] = "SUPPRESSED" => e \in Internal
      <3>1. Recipients(f) = {} => f \in Internal
        BY ChatAssumption DEF Recipients
      <3> QED
        BY <2>1, <2>3, <3>1 DEF Suppress
    <2>4. ASSUME NEW f \in Event, Arrive(f) PROVE state'[e] = "PENDING"
      BY <2>1, <2>4 DEF Arrive
    <2>5. CASE \/ BeginLoop \/ EndLoop \/ Crash \/ BeginDelivery \/ Record
               \/ \E f \in Event : Enlist(f)
               \/ \E c \in Chat, arrives, returns \in BOOLEAN : Send(c, arrives, returns)
               \/ \E c \in Subscriber : EditSubscribers(c)
      BY <2>5 DEF BeginLoop, EndLoop, Crash, BeginDelivery, Record, Enlist, Send,
                  EditSubscribers
    <2> QED
      BY <2>2, <2>3, <2>4, <2>5 DEF Next, Bridge
  <1>2. ASSUME DeliveryInv, Next, NEW e \in Event, NEW c \in Chat
        PROVE  told[e][c] > 0 <=> told[e][c] # 0
    BY <1>2 DEF DeliveryInv, TypeOK
  <1>3. DeliveryInv /\ [Next]_vars =>
          [\A e \in Event : state[e] = "PENDING" =>
              /\ state'[e] = "DELIVERED" =>
                    \A c \in Chat : c \in Recipients(e) \cup Admin \/ delivery[e][c] # "none"
                                       => told[e][c] > 0
              /\ state'[e] = "SUPPRESSED" => e \in Internal]_vars
    BY <1>1, <1>2
  <1> QED
    BY <1>3, DeliveryInvariant, PTL DEF Spec, SettledMeansTold

\* No retry, restart or change of the list makes deliver_pending touch a settled
\* row again.
THEOREM SettledRowsStaySettled == Spec => SettledIsFinal
  <1>1. DeliveryInv /\ [Next]_vars =>
          [\A e \in Event : state[e] \in {"SUPPRESSED", "DELIVERED"} =>
              state'[e] = state[e] /\ told'[e] = told[e]]_vars
    <2> SUFFICES ASSUME DeliveryInv, Next, NEW e \in Event,
                        state[e] \in {"SUPPRESSED", "DELIVERED"}
                 PROVE  state'[e] = state[e] /\ told'[e] = told[e]
      OBVIOUS
    <2> USE DEF database, outside, bridge
    <2>1. /\ state \in [Event -> {"none", "PENDING", "SUPPRESSED", "DELIVERED"}]
          /\ told \in [Event -> [Chat -> Nat]]
      BY DEF DeliveryInv, TypeOK
    <2>2. e \notin batch /\ (pc \in {"send", "record"} => e # current) /\ e \in Known
      BY DEF DeliveryInv, InHandIsUnsettled
    <2>3. CASE BeginLoop \/ EndLoop \/ Crash \/ BeginDelivery \/ Record
      BY <2>3 DEF BeginLoop, EndLoop, Crash, BeginDelivery, Record
    <2>4. CASE \E f \in Event : Suppress(f) \/ Enlist(f)
      BY <2>1, <2>2, <2>4 DEF Suppress, Enlist, Oldest
    <2>5. CASE \E c \in Chat, arrives, returns \in BOOLEAN : Send(c, arrives, returns)
      BY <2>1, <2>2, <2>5 DEF Send
    <2>6. CASE Settle
      BY <2>1, <2>2, <2>6 DEF Settle
    <2>7. CASE \E f \in Event : Arrive(f)
      BY <2>1, <2>2, <2>7 DEF Arrive
    <2>8. CASE \E c \in Subscriber : EditSubscribers(c)
      BY <2>8 DEF EditSubscribers
    <2> QED
      BY <2>3, <2>4, <2>5, <2>6, <2>7, <2>8 DEF Next, Bridge
  <1> QED
    BY <1>1, DeliveryInvariant, PTL DEF Spec, SettledIsFinal

-----------------------------------------------------------------------------
\* The chat was sent the event and the database does not say so, nor will the
\* commit the bridge is about to make.
Unrecorded(e, c) ==
    /\ told[e][c] > 0
    /\ delivery[e][c] # "DELIVERED"
    /\ ~(pc = "record" /\ accepted /\ current = e /\ target = c)

\* What has to be excused by a fault: each repeat, and (numbered 1) each message
\* that may be repeated because it is not recorded.
Excused ==
    {r \in (Event \X Chat) \X Nat :
        \/ r[2] \in 2 .. told[r[1][1]][r[1][2]]
        \/ r[2] = 1 /\ Unrecorded(r[1][1], r[1][2])}

Faults == spent.crashes + spent.faults

RepeatInv ==
    /\ IsFiniteSet(Excused)
    /\ Cardinality(Excused) <= Faults
    /\ pc \in {"send", "record"} => \A c \in chats : delivery[current][c] # "DELIVERED"

\* The faults are counted.
LEMMA FaultsAreCounted == spent \in Budget => Faults \in Nat
  <1> SUFFICES ASSUME spent \in Budget PROVE Faults \in Nat
    OBVIOUS
  <1>1. spent["crashes"] \in Nat /\ spent["faults"] \in Nat
    BY DEF Budget
  <1> QED
    BY <1>1 DEF Faults

\* The same after a step.
LEMMA FaultsAreCountedNext == spent' \in Budget => Faults' \in Nat
  <1> SUFFICES ASSUME spent' \in Budget PROVE Faults' \in Nat
    OBVIOUS
  <1>1. spent'["crashes"] \in Nat /\ spent'["faults"] \in Nat
    BY DEF Budget
  <1> QED
    BY <1>1 DEF Faults

\* A step that needs no new excuse.
LEMMA NoNewExcuse ==
    ASSUME TypeOK, TypeOK', IsFiniteSet(Excused), Cardinality(Excused) <= Faults,
           Excused' \subseteq Excused, Faults' >= Faults
    PROVE  IsFiniteSet(Excused') /\ Cardinality(Excused') <= Faults'
  <1>1. /\ IsFiniteSet(Excused')
        /\ Cardinality(Excused') <= Cardinality(Excused)
    BY FS_Subset, Zenon
  <1>2. Cardinality(Excused) \in Nat /\ Cardinality(Excused') \in Nat
    BY <1>1, FS_CardinalityType
  <1>3. Faults \in Nat /\ Faults' \in Nat
    BY FaultsAreCounted, FaultsAreCountedNext DEF TypeOK, Budget
  <1> QED
    BY <1>1, <1>2, <1>3

\* A step that needs one and has its fault.
LEMMA OneNewExcuse ==
    ASSUME TypeOK, TypeOK', IsFiniteSet(Excused), Cardinality(Excused) <= Faults,
           NEW r, Excused' \subseteq Excused \cup {r}, Faults' = Faults + 1
    PROVE  IsFiniteSet(Excused') /\ Cardinality(Excused') <= Faults'
  <1>1. /\ IsFiniteSet(Excused \cup {r})
        /\ Cardinality(Excused \cup {r}) <= Cardinality(Excused) + 1
    <2>1. Cardinality(Excused) \in Nat
      BY FS_CardinalityType
    <2> QED
      BY <2>1, FS_AddElement
  <1>2. /\ IsFiniteSet(Excused')
        /\ Cardinality(Excused') <= Cardinality(Excused \cup {r})
    BY <1>1, FS_Subset, Zenon
  <1>3. /\ Cardinality(Excused) \in Nat /\ Cardinality(Excused') \in Nat
        /\ Cardinality(Excused \cup {r}) \in Nat
    BY <1>1, <1>2, FS_CardinalityType
  <1>4. Faults \in Nat /\ Faults' \in Nat
    BY FaultsAreCounted, FaultsAreCountedNext DEF TypeOK, Budget
  <1> QED
    BY <1>1, <1>2, <1>3, <1>4

\* A repeat takes over the excuse of the message it repeats.
LEMMA ExcuseMoves ==
    ASSUME TypeOK, TypeOK', IsFiniteSet(Excused), Cardinality(Excused) <= Faults,
           NEW r \in Excused, NEW q, Excused' \subseteq (Excused \ {r}) \cup {q},
           Faults' >= Faults
    PROVE  IsFiniteSet(Excused') /\ Cardinality(Excused') <= Faults'
  <1>1. Cardinality(Excused) \in Nat
    BY FS_CardinalityType
  <1>2. IsFiniteSet(Excused \ {r}) /\ Cardinality(Excused \ {r}) = Cardinality(Excused) - 1
    BY FS_RemoveElement
  <1>3. /\ IsFiniteSet((Excused \ {r}) \cup {q})
        /\ Cardinality((Excused \ {r}) \cup {q}) <= Cardinality(Excused)
    BY <1>1, <1>2, FS_AddElement
  <1>4. /\ IsFiniteSet(Excused')
        /\ Cardinality(Excused') <= Cardinality((Excused \ {r}) \cup {q})
    BY <1>3, FS_Subset, Zenon
  <1>5. Cardinality(Excused') \in Nat /\ Cardinality((Excused \ {r}) \cup {q}) \in Nat
    BY <1>3, <1>4, FS_CardinalityType
  <1>6. Faults \in Nat /\ Faults' \in Nat
    BY FaultsAreCounted, FaultsAreCountedNext DEF TypeOK, Budget
  <1> QED
    BY <1>1, <1>3, <1>4, <1>5, <1>6

\* Nothing needs an excuse as long as nothing was sent.
LEMMA InitRepeats == Init => RepeatInv
  <1> SUFFICES ASSUME Init PROVE RepeatInv
    OBVIOUS
  <1>1. \A e \in Event, c \in Chat : told[e][c] = 0
    BY DEF Init
  <1>2. Excused = {}
    BY <1>1 DEF Excused, Unrecorded
  <1>3. Faults = 0
    BY DEF Init, Faults
  <1> QED
    BY <1>2, <1>3, FS_EmptySet DEF RepeatInv, Init

\* What is sent to was chosen among the chats that are not DELIVERED, and every
\* message beyond the first has its fault.
LEMMA RepeatStep ==
    DeliveryInv /\ DeliveryInv' /\ RepeatInv /\ [Next]_vars => RepeatInv'
  <1> SUFFICES ASSUME DeliveryInv, DeliveryInv', RepeatInv, [Next]_vars PROVE RepeatInv'
    OBVIOUS
  <1>1. TypeOK /\ TypeOK' /\ spent \in Budget /\ Faults \in Nat
    BY FaultsAreCounted DEF DeliveryInv, TypeOK, Budget
  <1>2. /\ told \in [Event -> [Chat -> Nat]]
        /\ delivery \in [Event -> [Chat -> {"none", "PENDING", "RETRY", "DELIVERED"}]]
    BY DEF DeliveryInv, TypeOK
  <1>3. IsFiniteSet(Excused) /\ Cardinality(Excused) <= Faults
    BY DEF RepeatInv
  <1> DEFINE Undone == pc \in {"send", "record"} =>
                          \A c \in chats : delivery[current][c] # "DELIVERED"
             Fine == (IsFiniteSet(Excused) /\ Cardinality(Excused) <= Faults)'
  <1>4. Undone
    BY DEF RepeatInv
  <1>5. ASSUME Fine, Undone' PROVE RepeatInv'
    BY <1>5 DEF RepeatInv
  <1>6. ASSUME UNCHANGED <<told, delivery, spent>>, pc' \notin {"send", "record"},
               pc # "record"
        PROVE  RepeatInv'
    <2>1. Excused' \subseteq Excused /\ Faults' = Faults
      BY <1>6 DEF Excused, Unrecorded, Faults
    <2>2. Fine
      BY <2>1, <1>1, <1>3, NoNewExcuse
    <2> QED
      BY <1>5, <1>6, <2>2
  <1>7. ASSUME BeginLoop \/ EndLoop \/ BeginDelivery PROVE RepeatInv'
    BY <1>6, <1>7 DEF BeginLoop, EndLoop, BeginDelivery, database, outside
  <1>8. ASSUME NEW e \in Event, Suppress(e) \/ Arrive(e) PROVE RepeatInv'
    BY <1>6, <1>8 DEF Suppress, Arrive, bridge, outside
  <1>9. ASSUME Settle PROVE RepeatInv'
    BY <1>6, <1>9 DEF Settle, outside
  <1>10. ASSUME NEW e \in Event, Enlist(e) PROVE RepeatInv'
    <2>1. /\ pc = "row" /\ pc' = "send" /\ current' = e /\ UNCHANGED <<told, spent>>
          /\ delivery' = Enlisted(e) /\ chats' = Undelivered(delivery'[e])
      BY <1>10 DEF Enlist, outside
    <2>2. \A f \in Event, c \in Chat :
             delivery[f][c] = "DELIVERED" => delivery'[f][c] = "DELIVERED"
      BY <2>1, <1>2 DEF Enlisted
    <2>3. Excused' \subseteq Excused /\ Faults' = Faults
      BY <2>1, <2>2 DEF Excused, Unrecorded, Faults
    <2>4. Fine
      BY <2>3, <1>1, <1>3, NoNewExcuse
    <2>5. Undone'
      BY <2>1 DEF Undelivered
    <2> QED
      BY <1>5, <2>4, <2>5
  <1>11. ASSUME NEW c \in Chat, NEW arrives \in BOOLEAN, NEW returns \in BOOLEAN,
                Send(c, arrives, returns)
         PROVE  RepeatInv'
    <2>1. /\ pc = "send" /\ c \in chats /\ (returns => arrives) /\ (c \in Broken => ~arrives)
          /\ told' = [told EXCEPT ![current][c] = @ + IF arrives THEN 1 ELSE 0]
          /\ target' = c /\ accepted' = returns /\ pc' = "record"
          /\ UNCHANGED <<delivery, current, chats>>
      BY <1>11 DEF Send, database
    <2>2. current \in Event /\ delivery[current][c] # "DELIVERED"
      BY <2>1, <1>4 DEF DeliveryInv, InHandIsUnsettled
    <2>3. /\ \A f \in Event, d \in Chat : f # current \/ d # c => told'[f][d] = told[f][d]
          /\ told'[current][c] = told[current][c] + IF arrives THEN 1 ELSE 0
      BY <2>1, <2>2, <1>2
    <2>4. Undone'
      BY <2>1, <1>4
    <2>5. Faults' = Faults \/ Faults' = Faults + 1
      BY <1>1, <1>11 DEF Send, Spend, Faults, Budget
    <2>6. arrives /\ ~returns => Faults' = Faults + 1
      BY <1>1, <1>11, <2>1 DEF Send, Spend, Faults, Budget
    <2> DEFINE first == <<<<current, c>>, 1>>
               again == <<<<current, c>>, told[current][c] + 1>>
    <2>7. told[current][c] \in Nat
      BY <1>2, <2>2
    <2>8. told[current][c] > 0 => first \in Excused
      BY <2>1, <2>2 DEF Excused, Unrecorded
    <2>9. ASSUME NEW r \in Excused', r # first, r # again PROVE r \in Excused
      <3>1. PICK e \in Event, d \in Chat, n \in Nat : r = <<<<e, d>>, n>>
        BY <2>9 DEF Excused
      <3>2. n \in 2 .. told'[e][d] \/ (n = 1 /\ Unrecorded(e, d)')
        BY <2>9, <3>1 DEF Excused
      <3>3. CASE e # current \/ d # c
        <4>1. told'[e][d] = told[e][d]
          BY <2>3, <3>3
        <4>2. Unrecorded(e, d)' => Unrecorded(e, d)
          BY <4>1, <2>1 DEF Unrecorded
        <4> QED
          BY <3>1, <3>2, <4>1, <4>2 DEF Excused
      <3>4. CASE e = current /\ d = c
        <4>1. n \in 2 .. told[current][c]
          BY <3>1, <3>2, <3>4, <2>3, <2>7, <2>9
        <4> QED
          BY <3>1, <3>4, <4>1 DEF Excused
      <3> QED
        BY <3>3, <3>4
    <2>10. CASE ~arrives
      <3>1. again \notin Excused'
        BY <2>3, <2>7, <2>10 DEF Excused, Unrecorded
      <3>2. first \in Excused' => first \in Excused
        BY <2>3, <2>7, <2>8, <2>10 DEF Excused, Unrecorded
      <3>3. Excused' \subseteq Excused
        BY <2>9, <3>1, <3>2
      <3>4. Fine
        BY <3>3, <2>5, <1>1, <1>3, NoNewExcuse
      <3> QED
        BY <1>5, <2>4, <3>4
    <2>11. CASE arrives /\ returns
      <3>1. first \notin Excused'
        BY <2>1, <2>11 DEF Excused, Unrecorded
      <3>2. CASE told[current][c] = 0
        <4>1. Excused' \subseteq Excused
          BY <2>9, <3>1, <3>2
        <4>2. Fine
          BY <4>1, <2>5, <1>1, <1>3, NoNewExcuse
        <4> QED
          BY <1>5, <2>4, <4>2
      <3>3. CASE told[current][c] > 0
        <4>1. Excused' \subseteq (Excused \ {first}) \cup {again}
          BY <2>9, <3>1
        <4>2. first \in Excused /\ Faults' >= Faults
          BY <2>5, <2>8, <3>3, <1>1
        <4> HIDE DEF first, again
        <4>3. Fine
          BY <4>1, <4>2, <1>1, <1>3, ExcuseMoves
        <4> QED
          BY <1>5, <2>4, <4>3
      <3> QED
        BY <2>7, <3>2, <3>3
    <2>12. CASE arrives /\ ~returns
      <3>1. CASE told[current][c] = 0
        <4>1. Excused' \subseteq Excused \cup {first}
          BY <2>9, <3>1
        <4> HIDE DEF first, again
        <4>2. Fine
          BY <4>1, <2>6, <2>12, <1>1, <1>3, OneNewExcuse
        <4> QED
          BY <1>5, <2>4, <4>2
      <3>2. CASE told[current][c] > 0
        <4>1. Excused' \subseteq Excused \cup {again}
          BY <2>8, <2>9, <3>2
        <4> HIDE DEF first, again
        <4>2. Fine
          BY <4>1, <2>6, <2>12, <1>1, <1>3, OneNewExcuse
        <4> QED
          BY <1>5, <2>4, <4>2
      <3> QED
        BY <2>7, <3>1, <3>2
    <2> QED
      BY <2>10, <2>11, <2>12
  <1>12. ASSUME Record PROVE RepeatInv'
    <2>1. /\ pc = "record" /\ pc' = "send" /\ chats' = chats \ {target}
          /\ delivery' = [delivery EXCEPT ![current][target] =
                            IF accepted THEN "DELIVERED" ELSE "RETRY"]
          /\ UNCHANGED <<told, spent, current, target, accepted>>
      BY <1>12 DEF Record, outside
    <2>2. current \in Event /\ target \in chats /\ chats \subseteq Chat
      BY <2>1 DEF DeliveryInv, InHandIsUnsettled, TypeOK
    <2>3. /\ delivery'[current][target] = IF accepted THEN "DELIVERED" ELSE "RETRY"
          /\ \A f \in Event, d \in Chat :
                f # current \/ d # target => delivery'[f][d] = delivery[f][d]
      BY <2>1, <2>2, <1>2
    <2>4. delivery[current][target] # "DELIVERED"
      BY <2>1, <2>2, <1>4
    <2>5. ASSUME NEW e \in Event, NEW d \in Chat, Unrecorded(e, d)' PROVE Unrecorded(e, d)
      BY <2>1, <2>3, <2>4, <2>5 DEF Unrecorded
    <2>6. Excused' \subseteq Excused /\ Faults' = Faults
      BY <2>1, <2>5 DEF Excused, Faults
    <2>7. Fine
      BY <2>6, <1>1, <1>3, NoNewExcuse
    <2>8. Undone'
      BY <2>1, <2>2, <2>3, <1>4
    <2> QED
      BY <1>5, <2>7, <2>8
  <1>13. ASSUME Crash PROVE RepeatInv'
    <2>1. pc' = "loop" /\ UNCHANGED <<told, delivery, current, target, accepted>>
      BY <1>13 DEF Crash, database
    <2>2. Faults' = Faults + 1
      BY <1>1, <1>13 DEF Crash, Spend, Faults, Budget
    <2> DEFINE lost == <<<<current, target>>, 1>>
    <2>3. Excused' \subseteq Excused \cup {lost}
      BY <2>1 DEF Excused, Unrecorded
    <2> HIDE DEF lost
    <2>4. Fine
      BY <2>2, <2>3, <1>1, <1>3, OneNewExcuse
    <2> QED
      BY <1>5, <2>1, <2>4
  <1>14. ASSUME NEW c \in Subscriber, EditSubscribers(c) PROVE RepeatInv'
    <2>1. UNCHANGED <<told, delivery, current, target, accepted, pc, chats>>
      BY <1>14 DEF EditSubscribers, database, bridge
    <2>2. Faults' = Faults
      BY <1>1, <1>14 DEF EditSubscribers, Spend, Faults, Budget
    <2>3. Excused' \subseteq Excused
      BY <2>1 DEF Excused, Unrecorded
    <2>4. Fine
      BY <2>2, <2>3, <1>1, <1>3, NoNewExcuse
    <2> QED
      BY <1>4, <1>5, <2>1, <2>4
  <1>15. ASSUME UNCHANGED vars PROVE RepeatInv'
    <2>1. UNCHANGED <<told, delivery, current, target, accepted, pc, chats, spent>>
      BY <1>15 DEF vars, database, bridge, outside
    <2>2. Excused' \subseteq Excused /\ Faults' = Faults
      BY <2>1 DEF Excused, Unrecorded, Faults
    <2>3. Fine
      BY <2>2, <1>1, <1>3, NoNewExcuse
    <2> QED
      BY <1>4, <1>5, <2>1, <2>3
  <1> QED
    BY <1>7, <1>8, <1>9, <1>10, <1>11, <1>12, <1>13, <1>14, <1>15 DEF Next, Bridge

\* deliver_pending sends nothing twice without a crash between the send and its
\* commit, or a lost answer, for each message sent again.
THEOREM RepeatsHaveTheirFault == Spec => []RepeatsAreExplained
  <1>1. Init => DeliveryInv /\ NoLeakage /\ RepeatInv
    BY InitDelivery, InitRepeats
  <1>2. DeliveryInv /\ NoLeakage /\ RepeatInv /\ [Next]_vars
          => (DeliveryInv /\ NoLeakage /\ RepeatInv)'
    BY DeliveryStep, RepeatStep
  <1>3. DeliveryInv /\ RepeatInv => RepeatsAreExplained
    <2> SUFFICES ASSUME DeliveryInv, RepeatInv PROVE RepeatsAreExplained
      OBVIOUS
    <2>1. Repeats \subseteq Excused
      <3> SUFFICES ASSUME NEW r \in Repeats PROVE r \in Excused
        OBVIOUS
      <3>1. PICK e \in Event, c \in Chat : r \in {<<e, c>>} \X (2 .. told[e][c])
        BY DEF Repeats
      <3>2. told[e][c] \in Nat
        BY DEF DeliveryInv, TypeOK
      <3>3. PICK n \in 2 .. told[e][c] : r = <<<<e, c>>, n>>
        BY <3>1
      <3> QED
        BY <3>2, <3>3 DEF Excused
    <2>2. Cardinality(Repeats) <= Cardinality(Excused) /\ IsFiniteSet(Repeats)
      BY <2>1, FS_Subset, Zenon DEF RepeatInv
    <2>3. Cardinality(Repeats) \in Nat /\ Cardinality(Excused) \in Nat /\ Faults \in Nat
      BY <2>2, FS_CardinalityType, FaultsAreCounted DEF RepeatInv, DeliveryInv, TypeOK, Budget
    <2> QED
      BY <2>2, <2>3 DEF RepeatInv, RepeatsAreExplained, Faults
  <1> QED
    BY <1>1, <1>2, <1>3, PTL DEF Spec

=============================================================================
