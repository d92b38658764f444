------------------------- MODULE PositionStore_proofs -----------------------
(***************************************************************************)
(* Proofs about the two-file position store, for every set of states and   *)
(* every bound on the generation.                                          *)
(***************************************************************************)
EXTENDS PositionStore, TLAPS

(***************************************************************************)
(* What Load returns, from the two files alone: the lemma the rest rests   *)
(* on.  A valid file wins over one that is not; of two valid files, the    *)
(* one of the higher generation.                                           *)
(***************************************************************************)
LEMMA LoadFacts ==
    ASSUME NEW f \in [Slots -> Slot]
    PROVE  /\ LoadOf(f) \in Slot
           /\ IsValid(LoadOf(f)) <=> \E i \in Slots : IsValid(f[i])
           /\ \A i \in Slots : IsValid(f[i]) /\ ~IsValid(f[1 - i]) => LoadOf(f) = f[i]
           /\ \A i \in Slots : IsValid(f[i]) /\ IsValid(f[1 - i])
                                  /\ f[i].generation > f[1 - i].generation => LoadOf(f) = f[i]
           /\ IsValid(LoadOf(f)) => \E i \in Slots : LoadOf(f) = f[i]
           /\ \A i \in Slots : IsValid(f[i]) => LoadOf(f).generation >= f[i].generation
           /\ ~IsValid(LoadOf(f)) => LoadOf(f) \in {MissingSlot, InvalidSlot}
           /\ (\E i \in Slots : f[i] = InvalidSlot) => ~IsMissing(LoadOf(f))
<1>1. /\ f[0] \in Slot /\ f[1] \in Slot
      /\ 0 \in Slots /\ 1 \in Slots /\ \A i \in Slots : i = 0 \/ i = 1
  BY DEF Slots
<1>2. MissingSlot \in Slot /\ InvalidSlot \in Slot
  BY DEF MissingSlot, InvalidSlot, Slot
<1>3. f[0].generation \in Nat /\ f[1].generation \in Nat
  BY <1>1 DEF Slot
<1>4. CASE IsValid(f[0]) /\ (IsValid(f[1]) => f[0].generation >= f[1].generation)
  <2>1. LoadOf(f) = f[0]
    BY <1>4, <1>3 DEF LoadOf, IsValid, IsMissing
  <2>2. QED BY <2>1, <1>4, <1>1, <1>3 DEF IsValid, IsMissing, InvalidSlot
<1>5. CASE IsValid(f[1]) /\ (IsValid(f[0]) => f[0].generation < f[1].generation)
  <2>1. LoadOf(f) = f[1]
    BY <1>5, <1>3 DEF LoadOf, IsValid, IsMissing
  <2>2. QED BY <2>1, <1>5, <1>1, <1>3 DEF IsValid, IsMissing, InvalidSlot
<1>6. CASE ~IsValid(f[0]) /\ ~IsValid(f[1])
  <2>1. LoadOf(f) = IF IsMissing(f[0]) /\ IsMissing(f[1]) THEN MissingSlot ELSE InvalidSlot
    BY <1>6 DEF LoadOf, IsValid, IsMissing
  <2>2. QED BY <2>1, <1>6, <1>1, <1>2 DEF IsValid, IsMissing, InvalidSlot, MissingSlot
<1>7. QED BY <1>3, <1>4, <1>5, <1>6

(* Consecutive generations go to different files. *)
LEMMA SlotForParity ==
    ASSUME NEW g \in Nat
    PROVE  /\ SlotFor(g) \in Slots
           /\ SlotFor(g + 1) = 1 - SlotFor(g)
BY DEF SlotFor, Slots

(* No file and no call: the invariant holds before the first Save. *)
LEMMA InitStoreInv == Init => StoreInv
<1> SUFFICES ASSUME Init PROVE StoreInv
  OBVIOUS
<1>1. slot \in [Slots -> Slot] /\ \A i \in Slots : ~IsValid(slot[i])
  BY DEF Init, Slots, Slot, MissingSlot, IsValid
<1>2. call \in Call
  BY DEF Init, Call
<1>3. QED
  BY <1>1, <1>2 DEF Init, StoreInv, TypeOK, ParityInv, InProgressInv, SaveContract

(* What OpenSlot truncates is not what Load returns. *)
LEMMA NextSlotIsOld ==
    ASSUME TypeOK, ParityInv
    PROVE  /\ NextGeneration \in Nat /\ NextGeneration >= 1
           /\ SlotFor(NextGeneration) \in Slots
           /\ IsValid(Load) => /\ Load = slot[1 - SlotFor(NextGeneration)]
                               /\ NextGeneration = Load.generation + 1
                               /\ Load.value \in Value
           /\ ~IsValid(Load) => /\ NextGeneration = 1
                                /\ \A i \in Slots : ~IsValid(slot[i])
<1>1. slot \in [Slots -> Slot]
  BY DEF TypeOK
<1>2. CASE IsValid(Load)
  <2>1. PICK i \in Slots : Load = slot[i]
    BY <1>1, <1>2, LoadFacts DEF Load
  <2>2. /\ slot[i].generation \in Nat /\ slot[i].generation >= 1
        /\ SlotFor(slot[i].generation) = i
        /\ slot[i].value \in Value
    BY <1>1, <1>2, <2>1 DEF ParityInv, Slot
  <2>3. NextGeneration = slot[i].generation + 1
    BY <1>2, <2>1 DEF NextGeneration, GenerationAfter
  <2>4. SlotFor(NextGeneration) = 1 - i
    BY <2>2, <2>3, SlotForParity
  <2>5. i = 1 - (1 - i) /\ 1 - i \in Slots
    BY <2>1 DEF Slots
  <2>6. QED BY <1>2, <2>1, <2>2, <2>3, <2>4, <2>5
<1>3. CASE ~IsValid(Load)
  <2>1. NextGeneration = 1
    BY <1>3 DEF NextGeneration, GenerationAfter
  <2>2. QED BY <1>1, <1>3, <2>1, LoadFacts, SlotForParity DEF Load
<1>4. QED BY <1>2, <1>3

(* Whatever Save sees, it opens one of the two files, for a generation from 1. *)
LEMMA AnyGeneration ==
    ASSUME TypeOK, NEW hidden \in SUBSET Slots
    PROVE  /\ GenerationAfter(LoadOf(Seen(hidden))) \in Nat
           /\ GenerationAfter(LoadOf(Seen(hidden))) >= 1
           /\ SlotFor(GenerationAfter(LoadOf(Seen(hidden)))) \in Slots
<1>1. MissingSlot \in Slot /\ slot \in [Slots -> Slot]
  BY DEF MissingSlot, Slot, TypeOK
<1>2. Seen(hidden) \in [Slots -> Slot]
  BY <1>1 DEF Seen
<1>3. LoadOf(Seen(hidden)) \in Slot
  BY <1>2, LoadFacts
<1>4. LoadOf(Seen(hidden)).generation \in Nat
  BY <1>3 DEF Slot
<1>5. QED BY <1>4, SlotForParity DEF GenerationAfter

(* Truncating a file changes nothing that Load returns, unless Save is misled. *)
LEMMA OpenSlotStep ==
    ASSUME StoreInv, NEW v \in Value, NEW hidden \in SUBSET Slots, OpenSlot(v, hidden)
    PROVE  StoreInv' /\ (IsValid(Load) /\ ~call'.misled => Load' = Load)
<1> DEFINE g == GenerationAfter(LoadOf(Seen(hidden)))
           k == SlotFor(g)
<1>1. slot \in [Slots -> Slot] /\ ParityInv /\ TypeOK
  BY DEF StoreInv, TypeOK
<1>2. /\ g \in Nat /\ g >= 1 /\ k \in Slots
      /\ 1 - k \in Slots /\ 1 - k # k /\ 1 - (1 - k) = k
      /\ \A i \in Slots : i = k \/ i = 1 - k
  <2>1. g \in Nat /\ g >= 1 /\ k \in Slots
    BY <1>1, AnyGeneration
  <2>2. QED BY <2>1 DEF Slots
<1>7. /\ call' = [phase |-> "opened", from |-> ContentOf(Load), value |-> v,
                  generation |-> g, ok |-> FALSE, misled |-> LoadOf(Seen(hidden)) # Load]
      /\ slot' = [slot EXCEPT ![k] = InvalidSlot]
  BY DEF OpenSlot
<1>15. /\ call'.phase = "opened" /\ call'.from = ContentOf(Load) /\ call'.value = v
       /\ call'.generation = g /\ call'.ok = FALSE
       /\ call'.misled = (LoadOf(Seen(hidden)) # Load)
  BY <1>7
<1>16. ~call'.misled => g = NextGeneration
  BY <1>15 DEF NextGeneration
<1>3. /\ slot' \in [Slots -> Slot]
      /\ slot'[k] = InvalidSlot /\ ~IsValid(slot'[k])
      /\ slot'[1 - k] = slot[1 - k]
  BY <1>1, <1>2, <1>7 DEF Slot, InvalidSlot, IsValid
<1> HIDE DEF g, k
<1>4. ParityInv'
  BY <1>1, <1>2, <1>3 DEF ParityInv
<1>5. IsValid(Load) /\ ~call'.misled => Load' = Load
  <2> SUFFICES ASSUME IsValid(Load), ~call'.misled PROVE Load' = Load
    OBVIOUS
  <2>1. Load = slot[1 - k]
    BY <1>1, <1>16, NextSlotIsOld DEF k
  <2>2. IsValid(slot'[1 - k]) /\ ~IsValid(slot'[1 - (1 - k)])
    BY <1>2, <1>3, <2>1
  <2>3. LoadOf(slot') = slot'[1 - k]
    BY <1>2, <1>3, <2>2, LoadFacts
  <2>4. QED BY <1>3, <2>1, <2>3 DEF Load
<1>6. ~IsValid(Load) /\ ~call'.misled => Load' = InvalidSlot
  <2> SUFFICES ASSUME ~IsValid(Load), ~call'.misled PROVE Load' = InvalidSlot
    OBVIOUS
  <2>1. \A i \in Slots : ~IsValid(slot'[i])
    BY <1>1, <1>2, <1>3, NextSlotIsOld
  <2>2. LoadOf(slot') \in {MissingSlot, InvalidSlot} /\ ~IsMissing(LoadOf(slot'))
    BY <1>2, <1>3, <2>1, LoadFacts
  <2>3. QED BY <2>2 DEF Load, IsMissing, MissingSlot
<1>8. ContentOf(Load) \in Value \cup {"MISSING", "INVALID"}
      /\ (ContentOf(Load) \in Value <=> IsValid(Load))
  BY <1>1, NextSlotIsOld, LoadFacts, ValueAssumption
     DEF ContentOf, Load, MissingSlot, InvalidSlot, IsValid
<1>9. TypeOK'
  BY <1>2, <1>3, <1>7, <1>8 DEF TypeOK, Call
<1>10. ~call'.misled =>
         ContentOf(Load') = IF IsValid(Load) THEN ContentOf(Load) ELSE "INVALID"
  BY <1>5, <1>6 DEF ContentOf, IsValid, InvalidSlot
<1>11. ~call'.misled => NextGeneration' = NextGeneration
  BY <1>1, <1>5, <1>6, NextSlotIsOld
     DEF NextGeneration, GenerationAfter, IsValid, InvalidSlot
<1>12. InProgressInv'
  <2>1. slot'[SlotFor(call'.generation)] = InvalidSlot
    BY <1>3, <1>15 DEF k
  <2>2. ~call'.misled =>
          /\ ContentOf(Load') # "MISSING"
          /\ call'.generation = NextGeneration'
          /\ call'.from \in Value => ContentOf(Load') = call'.from
          /\ call'.from \notin Value => ContentOf(Load') = "INVALID"
    BY <1>8, <1>10, <1>11, <1>15, <1>16, ValueAssumption
  <2>3. QED BY <1>2, <1>15, <2>1, <2>2 DEF InProgressInv
<1>13. SaveContract'
  BY <1>8, <1>10, <1>15 DEF SaveContract, Register!AfterSave
<1>14. QED BY <1>4, <1>5, <1>9, <1>12, <1>13 DEF StoreInv

(* The completed write makes the new state the one Load returns, unless Save was
   misled. *)
LEMMA WriteSlotStep ==
    ASSUME StoreInv, WriteSlot
    PROVE  /\ StoreInv'
           /\ ~call.misled => Load' = ValidSlot(call.generation, call.value)
           /\ IsValid(Load')
<1> DEFINE k == SlotFor(call.generation)
<1>1. /\ slot \in [Slots -> Slot] /\ ParityInv /\ TypeOK
      /\ call.phase = "opened" /\ call.value \in Value /\ ~call.ok
      /\ call.generation \in Nat /\ call.generation >= 1
      /\ ~call.misled => call.generation = NextGeneration
  BY DEF StoreInv, TypeOK, InProgressInv, WriteSlot, Call
<1>2. /\ k \in Slots /\ 1 - k \in Slots /\ 1 - k # k /\ 1 - (1 - k) = k
      /\ \A i \in Slots : i = k \/ i = 1 - k
  BY <1>1, SlotForParity DEF Slots
<1>3. /\ slot' \in [Slots -> Slot]
      /\ slot'[k] = ValidSlot(call.generation, call.value)
      /\ slot'[1 - k] = slot[1 - k]
  BY <1>1, <1>2 DEF WriteSlot, Slot, ValidSlot
<1>4. IsValid(slot'[k]) /\ slot'[k].generation = call.generation
      /\ slot'[k].value = call.value
  BY <1>3 DEF ValidSlot, IsValid
<1>5. ~call.misled /\ IsValid(slot[1 - k]) => slot[1 - k].generation < call.generation
  <2> SUFFICES ASSUME ~call.misled, IsValid(slot[1 - k])
               PROVE  slot[1 - k].generation < call.generation
    OBVIOUS
  <2>1. IsValid(Load) /\ Load = slot[1 - k]
    BY <1>1, <1>2, NextSlotIsOld
  <2>2. QED BY <1>1, <1>2, <2>1, NextSlotIsOld DEF Slot
<1>6. ~call.misled => LoadOf(slot') = slot'[k]
  <2>1. CASE IsValid(slot[1 - k])
    BY <1>2, <1>3, <1>4, <1>5, <2>1, LoadFacts
  <2>2. CASE ~IsValid(slot[1 - k])
    BY <1>2, <1>3, <1>4, <2>2, LoadFacts
  <2>3. QED BY <2>1, <2>2
<1>7. /\ ~call.misled => Load' = ValidSlot(call.generation, call.value)
      /\ IsValid(Load')
  BY <1>2, <1>3, <1>4, <1>6, LoadFacts DEF Load
<1>8. ParityInv'
  BY <1>1, <1>2, <1>3, <1>4 DEF ParityInv
<1>9. call' = [call EXCEPT !.phase = "written"] /\ call' \in Call
      /\ call'.phase = "written" /\ call'.value = call.value
      /\ call'.generation = call.generation /\ call'.from = call.from /\ call'.ok = call.ok
      /\ call'.misled = call.misled
  BY <1>1 DEF WriteSlot, TypeOK, Call
<1>10. TypeOK'
  BY <1>3, <1>9 DEF TypeOK
<1>11. InProgressInv'
  BY <1>1, <1>3, <1>7, <1>9 DEF InProgressInv
<1>12. ~call.misled => ContentOf(Load') = call.value
  BY <1>7 DEF ContentOf, ValidSlot, IsValid
<1>13. SaveContract'
  BY <1>1, <1>9, <1>12 DEF SaveContract, Register!AfterSave
<1>14. QED BY <1>7, <1>8, <1>10, <1>11, <1>13 DEF StoreInv

(* What Load returns is a state exactly when one of the files is readable. *)
LEMMA LoadContent ==
    StoreInv => /\ ContentOf(Load) \in Value \cup {"MISSING", "INVALID"}
                /\ (ContentOf(Load) \in Value <=> IsValid(Load))
BY NextSlotIsOld, LoadFacts, ValueAssumption
   DEF StoreInv, TypeOK, ContentOf, Load, MissingSlot, InvalidSlot, IsValid

(* The file that was truncated is there. *)
LEMMA OpenedIsThere ==
    StoreInv /\ call.phase = "opened" => ContentOf(Load) # "MISSING"
<1> SUFFICES ASSUME StoreInv, call.phase = "opened" PROVE ContentOf(Load) # "MISSING"
  OBVIOUS
<1>1. slot \in [Slots -> Slot] /\ slot[SlotFor(call.generation)] = InvalidSlot
  BY DEF StoreInv, TypeOK, InProgressInv
<1>2. SlotFor(call.generation) \in Slots
  BY SlotForParity DEF StoreInv, TypeOK, Call
<1>3. ~IsMissing(Load)
  BY <1>1, <1>2, LoadFacts DEF Load
<1>4. IsValid(Load) => ContentOf(Load) # "MISSING"
  BY LoadContent, ValueAssumption
<1>5. QED BY <1>3, <1>4 DEF ContentOf, IsMissing

(* The steps that leave the files alone: the call ends, or never opens one. *)
LEMMA OtherSteps ==
    ASSUME StoreInv,
           \/ \E v \in Value : OpenFails(v)
           \/ \E readable \in BOOLEAN : Return(readable)
           \/ Crash
           \/ UNCHANGED vars
    PROVE  StoreInv' /\ Load' = Load
<1>1. slot' = slot /\ Load' = Load /\ ParityInv'
  BY DEF OpenFails, Return, Crash, vars, Load, StoreInv, ParityInv
<1>2. ContentOf(Load) \in Value \cup {"MISSING", "INVALID"} /\ NextGeneration \in Nat
  BY NextSlotIsOld, LoadFacts, ValueAssumption
     DEF StoreInv, TypeOK, ContentOf, Load, MissingSlot, InvalidSlot, IsValid
<1>3. ASSUME NEW v \in Value, OpenFails(v) PROVE StoreInv'
  <2>1. TypeOK' /\ InProgressInv'
    BY <1>1, <1>2, <1>3 DEF OpenFails, StoreInv, TypeOK, Call, InProgressInv
  <2>2. SaveContract'
    BY <1>1, <1>3 DEF OpenFails, SaveContract, Register!AfterSave
  <2>3. QED BY <1>1, <2>1, <2>2 DEF StoreInv
<1>4. ASSUME NEW readable \in BOOLEAN, Return(readable) PROVE StoreInv'
  <2>1. TypeOK' /\ InProgressInv'
    BY <1>1, <1>4 DEF Return, StoreInv, TypeOK, Call, InProgressInv, Verified
  <2>2. CASE call.phase = "written"
    <3>1. call.misled \/ ContentOf(Load) = call.value
      BY <2>2 DEF StoreInv, InProgressInv, ContentOf, ValidSlot, IsValid
    <3>2. SaveContract'
      BY <1>1, <1>4, <3>1 DEF Return, StoreInv, TypeOK, Call, SaveContract, Register!AfterSave
    <3>3. QED BY <1>1, <2>1, <3>2 DEF StoreInv
  <2>3. CASE call.phase = "opened"
    <3>1. ~Verified /\ ~call.ok
      BY <2>3 DEF Verified, StoreInv, InProgressInv, InvalidSlot, IsValid
    <3>2. SaveContract'
      BY <1>1, <1>4, <3>1 DEF Return, StoreInv, TypeOK, Call, SaveContract, Register!AfterSave
    <3>3. QED BY <1>1, <2>1, <3>2 DEF StoreInv
  <2>4. QED BY <1>4, <2>2, <2>3 DEF Return
<1>5. ASSUME Crash PROVE StoreInv'
  <2>1. TypeOK' /\ InProgressInv'
    BY <1>1, <1>5 DEF Crash, StoreInv, TypeOK, Call, InProgressInv
  <2>2. SaveContract'
    BY <1>1, <1>5 DEF Crash, StoreInv, TypeOK, Call, InProgressInv, SaveContract, Register!AfterSave
  <2>3. QED BY <1>1, <2>1, <2>2 DEF StoreInv
<1>6. ASSUME UNCHANGED vars PROVE StoreInv'
  BY <1>1, <1>6, <1>2
     DEF vars, StoreInv, TypeOK, InProgressInv, SaveContract, NextGeneration
<1>7. QED BY <1>1, <1>3, <1>4, <1>5, <1>6

(***************************************************************************)
(* The store's inductive invariant, for every set of states.               *)
(***************************************************************************)
THEOREM StoreInvariant == Spec => []StoreInv
<1>1. StoreInv /\ [Next]_vars => StoreInv'
  BY OpenSlotStep, WriteSlotStep, OtherSteps DEF Next
<1>2. QED BY InitStoreInv, <1>1, PTL DEF Spec

(***************************************************************************)
(* Load never returns anything but the state before the last Save or the   *)
(* state that Save was given, whatever failed or crashed in between.       *)
(***************************************************************************)
THEOREM SaveContractHolds == Spec => []SaveContract
<1>1. StoreInv => SaveContract
  BY DEF StoreInv
<1>2. QED BY StoreInvariant, <1>1, PTL

(* Once something was stored, the store never becomes unreadable again, unless a Save
   is misled. *)
THEOREM StateIsNeverLost == Spec => NeverLosesState
<1>1. StoreInv /\ [Next]_vars => (IsValid(Load) /\ ~call'.misled => IsValid(Load'))
  BY OpenSlotStep, WriteSlotStep, OtherSteps DEF Next
<1>2. StoreInv /\ [Next]_vars => [IsValid(Load) /\ ~call'.misled => IsValid(Load')]_vars
  BY <1>1
<1>3. QED BY StoreInvariant, <1>2, PTL DEF Spec, NeverLosesState

(***************************************************************************)
(* The two files implement one register that is overwritten atomically:    *)
(* the truncated file changes nothing a reader sees (or, before the first  *)
(* state, makes the register unreadable), the completed write is the       *)
(* commit, the answer or the crash ends the call.  A misled Save maps to a  *)
(* misled call of the register, and the next one is not excused by it.     *)
(***************************************************************************)
THEOREM StoreImplementsRegister == Spec => ImplementsRegister
<1> DEFINE reg == ContentOf(Load)
           pending == IF call.phase = "idle" THEN NoValue ELSE call.value
           answer == call.ok
           misled == call.misled
<1>1. Init => Register!Init
  <2> SUFFICES ASSUME Init PROVE Register!Init
    OBVIOUS
  <2>1. IsMissing(slot[0]) /\ IsMissing(slot[1]) /\ ~IsValid(slot[0]) /\ ~IsValid(slot[1])
    BY DEF Init, Slots, MissingSlot, IsMissing, IsValid
  <2>2. reg = "MISSING"
    BY <2>1 DEF Load, LoadOf, ContentOf, MissingSlot, IsValid
  <2>3. QED BY <2>2 DEF Init, Register!Init
<1>4. (StoreInv => /\ ContentOf(Load) \in Value \cup {"MISSING", "INVALID"}
                   /\ (ContentOf(Load) \in Value <=> IsValid(Load)))'
  BY LoadContent, PTL
<1>5. (StoreInv /\ call.phase = "opened" => ContentOf(Load) # "MISSING")'
  BY OpenedIsThere, PTL
<1>2. StoreInv /\ [Next]_vars => [Register!Next]_<<reg, pending, answer, misled>>
  <2> SUFFICES ASSUME StoreInv, [Next]_vars
               PROVE  Register!Next \/ UNCHANGED <<reg, pending, answer, misled>>
    OBVIOUS
  <2> USE DEF StoreInv
  <2>8. /\ reg \in Value \cup {"MISSING", "INVALID"}
        /\ (reg \in Value <=> IsValid(Load))
    BY LoadContent
  <2>1. ASSUME NEW v \in Value, NEW hidden \in SUBSET Slots, OpenSlot(v, hidden)
        PROVE  Register!Begin(v) \/ Register!BeginMisled(v)
    <3>1. pending = NoValue /\ pending' = v /\ answer' = FALSE /\ call'.phase = "opened"
      BY <2>1 DEF OpenSlot
    <3>2. StoreInv'
      BY <2>1, OpenSlotStep
    <3>3. reg' \in Value \cup {"MISSING", "INVALID"}
      BY <3>2, <1>4
    <3>4. CASE call'.misled
      <4>1. reg' # "MISSING"
        BY <3>1, <3>2, <1>5
      <4>2. misled' = TRUE
        BY <2>1, <3>4 DEF OpenSlot
      <4>3. QED BY <3>1, <3>3, <4>1, <4>2 DEF Register!BeginMisled, Register!Content
    <3>5. CASE ~call'.misled
      <4>1. misled' = FALSE
        BY <2>1, <3>5 DEF OpenSlot
      <4>2. call'.from = reg
        BY <2>1 DEF OpenSlot
      <4>3. /\ reg \in Value => reg' = reg
            /\ reg \notin Value => reg' = "INVALID"
        BY <3>1, <3>2, <3>5, <4>2 DEF InProgressInv
      <4>4. QED BY <3>1, <4>1, <4>3 DEF Register!Begin
    <3>6. QED BY <3>4, <3>5
  <2>2. ASSUME WriteSlot PROVE Register!Commit
    <3>1. /\ pending = call.value /\ pending' = call.value /\ call.value \in Value
          /\ answer' = answer /\ misled' = misled /\ misled \in BOOLEAN
      BY <2>2 DEF WriteSlot, InProgressInv, TypeOK, Call
    <3>2. ~misled => reg' = call.value
      BY <2>2, WriteSlotStep DEF ContentOf, ValidSlot, IsValid
    <3>3. reg' \in Value
      BY <2>2, WriteSlotStep, <1>4
    <3>4. QED BY <3>1, <3>2, <3>3, ValueAssumption DEF Register!Commit
  <2>3. ASSUME NEW readable \in BOOLEAN, Return(readable)
        PROVE  Register!End(readable /\ Verified)
    <3>1. pending = call.value /\ call.value \in Value
      BY <2>3 DEF Return, StoreInv, InProgressInv
    <3>2. pending' = NoValue /\ answer' = (readable /\ Verified)
      BY <2>3 DEF Return, StoreInv, TypeOK, Call
    <3>3. reg' = reg
      BY <2>3, OtherSteps
    <3>6. misled' = misled
      BY <2>3 DEF Return, TypeOK, Call
    <3>4. Verified => reg = pending \/ misled
      <4>1. call.phase = "opened" => ~Verified
        BY DEF Verified, StoreInv, InProgressInv, InvalidSlot, IsValid
      <4>2. call.phase = "written" => reg = call.value \/ misled
        BY DEF StoreInv, InProgressInv, ContentOf, ValidSlot, IsValid
      <4>3. QED BY <2>3, <3>1, <4>1, <4>2 DEF Return
    <3>5. QED BY <3>1, <3>2, <3>3, <3>4, <3>6, ValueAssumption DEF Register!End
  <2>4. ASSUME Crash PROVE Register!End(FALSE)
    <3>1. pending = call.value /\ call.value \in Value
      BY <2>4 DEF Crash, StoreInv, InProgressInv
    <3>2. pending' = NoValue /\ answer' = FALSE /\ misled' = misled
      BY <2>4 DEF Crash, StoreInv, TypeOK, Call
    <3>3. QED BY <2>4, <3>1, <3>2, OtherSteps, ValueAssumption DEF Register!End
  <2>5. ASSUME NEW v \in Value, OpenFails(v) PROVE Register!Refuse
    BY <2>5, OtherSteps DEF OpenFails, Register!Refuse
  <2>6. ASSUME UNCHANGED vars PROVE UNCHANGED <<reg, pending, answer, misled>>
    BY <2>6 DEF vars, Load
  <2>7. QED BY <2>1, <2>2, <2>3, <2>4, <2>5, <2>6 DEF Next, Register!Next, Verified
<1>3. QED BY StoreInvariant, <1>1, <1>2, PTL DEF Spec, ImplementsRegister, Register!Spec
=============================================================================
