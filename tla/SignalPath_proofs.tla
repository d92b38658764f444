-------------------------- MODULE SignalPath_proofs --------------------------
(***************************************************************************)
(* Theorems about the way from closed bars to signals, for any periods and *)
(* windows and any number of bars, failed saves, stops and crashes.        *)
(***************************************************************************)
EXTENDS SignalPath, Integers, FiniteSetTheorems, TLAPS

(* The bar of frame f that had closed last at time n. *)
ClosedAt(n, f) == n - (n % Period[f])

(* What a remainder is. *)
LEMMA Remainder ==
    ASSUME NEW n \in Nat, NEW p \in Nat \ {0}
    PROVE  n % p \in 0 .. (p - 1) /\ n \div p \in Nat /\ n = (p * (n \div p)) + (n % p)
OBVIOUS

(* A remainder is at most what was divided. *)
LEMMA RemainderBound ==
    ASSUME NEW n \in Nat, NEW p \in Nat \ {0}
    PROVE  n % p \in 0 .. n
<1> DEFINE q == n \div p
           r == n % p
<1>1. r \in 0 .. (p - 1) /\ q \in Nat /\ n = (p * q) + r
  BY Remainder
<1> HIDE DEF q, r
<1>2. p * q \in Nat
  BY <1>1
<1>3. r \in 0 .. n
  BY <1>1, <1>2
<1>4. QED BY <1>3 DEF r

(* From one moment to the next a remainder grows by one or starts again. *)
LEMMA NextRemainder ==
    ASSUME NEW n \in Nat, NEW p \in Nat \ {0}
    PROVE  (n + 1) % p \in {(n % p) + 1, 0}
<1> DEFINE q == n \div p
           r == n % p
           q1 == (n + 1) \div p
           r1 == (n + 1) % p
<1>1. r \in 0 .. (p - 1) /\ q \in Nat /\ n = (p * q) + r
  BY Remainder
<1>2. n + 1 \in Nat
  OBVIOUS
<1>3. r1 \in 0 .. (p - 1) /\ q1 \in Nat /\ n + 1 = (p * q1) + r1
  BY <1>2, Remainder
<1> HIDE DEF q, r, q1, r1
<1>4. p * (q1 - q) = (r + 1) - r1
  BY <1>1, <1>3
<1>5. CASE q1 < q
  <2>1. p * (q - q1) = p + (p * (q - q1 - 1))
    BY <1>1, <1>3
  <2>2. p * (q - q1 - 1) \in Nat
    BY <1>1, <1>3, <1>5
  <2>3. QED BY <2>1, <2>2, <1>1, <1>3, <1>4
<1>6. CASE q1 = q
  BY <1>1, <1>3, <1>6 DEF r, r1
<1>7. CASE q < q1
  <2>1. p * (q1 - q) = p + (p * (q1 - q - 1))
    BY <1>1, <1>3
  <2>2. p * (q1 - q - 1) \in Nat
    BY <1>1, <1>3, <1>7
  <2>3. r1 = 0
    BY <2>1, <2>2, <1>1, <1>3, <1>4
  <2>4. QED BY <2>3 DEF r1
<1>8. QED BY <1>1, <1>3, <1>5, <1>6, <1>7

(* A bar closes at the next moment, or the last one stays the last. *)
LEMMA NextClosed ==
    ASSUME NEW n \in Nat, NEW f \in Frame
    PROVE  /\ ClosedAt(n, f) \in 0 .. n
           /\ ClosedAt(n + 1, f) \in {ClosedAt(n, f), n + 1}
           /\ ClosedAt(0, f) = 0
<1>1. Period[f] \in Nat \ {0}
  BY PeriodAssumption
<1>2. n % Period[f] \in 0 .. n /\ 0 % Period[f] = 0
  <2>1. 0 \in Nat
    OBVIOUS
  <2>2. n % Period[f] \in 0 .. n /\ 0 % Period[f] \in 0 .. 0
    BY <1>1, <2>1, RemainderBound
  <2>3. QED BY <2>2
<1>3. (n + 1) % Period[f] \in {(n % Period[f]) + 1, 0}
  BY <1>1, NextRemainder
<1>4. QED BY <1>2, <1>3 DEF ClosedAt

-----------------------------------------------------------------------------
(* The Bear machine.                                                       *)

BarType == [frame : Frame, t : Time]

(* Bars that are not empty have a newest one. *)
HasNewest(bars) == bars = {} \/ \E t \in bars : \A u \in bars : u <= t

(* Nothing is named by the time at which the clock had not begun. *)
LEMMA ZeroIsATime == 0 \in Time
BY BoundsAssumption DEF Time

(* The cursor is a bar of the machine, or 0 where there is none. *)
LEMMA CursorIsABar ==
    ASSUME NEW b, NEW f, HasNewest(b.bars[f])
    PROVE  Cursor(b, f) \in b.bars[f] \cup {0}
<1>1. CASE b.bars[f] = {}
  BY <1>1 DEF Cursor
<1>2. CASE \E t \in b.bars[f] : \A u \in b.bars[f] : u <= t
  <2>1. (CHOOSE t \in b.bars[f] : \A u \in b.bars[f] : u <= t) \in b.bars[f]
    BY <1>2
  <2>2. QED BY <2>1 DEF Cursor
<1>3. QED BY <1>1, <1>2 DEF HasNewest

(* The two windows are counted in natural numbers. *)
LEMMA WindowsAreCounted ==
    ASSUME NEW b \in Machine
    PROVE  M5Candidates(b) \in Nat /\ Cardinality(M1Candidates(b)) \in Nat
<1>1. IsFiniteSet(Time)
  BY FS_Interval, BoundsAssumption DEF Time
<1>2. b.bars \in [Frame -> SUBSET Time] /\ "M5" \in Frame /\ "M1" \in Frame
  BY DEF Machine, Frame
<1>3. {t \in b.bars["M5"] : t - Period["M5"] >= b.setup} \subseteq Time
  BY <1>2
<1>4. M1Candidates(b) \subseteq Time
  BY <1>2 DEF M1Candidates
<1>5. QED BY <1>1, <1>3, <1>4, FS_Subset, FS_CardinalityType, WindowAssumption
          DEF M5Candidates

(* A machine in memory or in a file. *)
Sound(b) == b \in Machine /\ \A f \in Frame : HasNewest(b.bars[f])

(* With one more bar there is still a newest one. *)
LEMMA NewestStays ==
    ASSUME NEW bars \in SUBSET Time, HasNewest(bars), NEW t \in Time
    PROVE  HasNewest(bars \cup {t})
<1>1. CASE bars = {}
  BY <1>1 DEF HasNewest, Time
<1>2. CASE \E m \in bars : \A u \in bars : u <= m
  <2>1. PICK m \in bars : \A u \in bars : u <= m
    BY <1>2
  <2>2. CASE m <= t
    <3>1. \A u \in bars \cup {t} : u <= t
      BY <2>1, <2>2 DEF Time
    <3>2. QED BY <3>1 DEF HasNewest
  <2>3. CASE t <= m
    <3>1. \A u \in bars \cup {t} : u <= m
      BY <2>1, <2>3 DEF Time
    <3>2. QED BY <3>1 DEF HasNewest
  <2>4. QED BY <2>2, <2>3 DEF Time
<1>3. QED BY <1>1, <1>2 DEF HasNewest

(* A machine that takes a bar in. *)
LEMMA FedFacts ==
    ASSUME NEW b, Sound(b), NEW bar \in BarType
    PROVE  /\ Sound(Fed(b, bar))
           /\ Fed(b, bar).bars = [b.bars EXCEPT ![bar.frame] = @ \cup {bar.t}]
           /\ \/ /\ b.phase \in Watching \cup {"IDLE"}
                 /\ Fed(b, bar).phase = b.phase
                 /\ Fed(b, bar).setup = b.setup
              \/ Fed(b, bar).phase = "IDLE"
<1>1. ResetTerminal(b) \in Machine /\ ResetTerminal(b).bars = b.bars
  BY ZeroIsATime DEF ResetTerminal, Machine, Phase, Sound
<1>2. bar.frame \in Frame /\ bar.t \in Time
  BY DEF BarType
<1> DEFINE r == ResetTerminal(b)
<1>3. /\ Fed(b, bar) \in Machine
      /\ Fed(b, bar).bars = [b.bars EXCEPT ![bar.frame] = @ \cup {bar.t}]
      /\ Fed(b, bar).phase = r.phase /\ Fed(b, bar).setup = r.setup
  <2> HIDE DEF r
  <2> DEFINE bars == [r.bars EXCEPT ![bar.frame] = @ \cup {bar.t}]
  <2>1. r \in Machine /\ r.bars = b.bars
    BY <1>1 DEF r
  <2>2. Fed(b, bar) = [r EXCEPT !.bars = bars, !.seq = @ + 1, !.asOf = Larger(@, bar.t)]
    BY <2>1 DEF Fed, r, Machine
  <2>3. Larger(r.asOf, bar.t) \in Time
    BY <2>1, <1>2 DEF Machine, Larger
  <2>4. bars \in [Frame -> SUBSET Time]
    BY <2>1, <1>2 DEF Machine
  <2>5. r.seq + 1 \in Nat
    BY <2>1 DEF Machine
  <2>6. bars = [b.bars EXCEPT ![bar.frame] = @ \cup {bar.t}]
    BY <2>1
  <2> HIDE DEF bars
  <2>7. /\ Fed(b, bar) \in Machine /\ Fed(b, bar).bars = bars
        /\ Fed(b, bar).phase = r.phase /\ Fed(b, bar).setup = r.setup
    BY <2>1, <2>2, <2>3, <2>4, <2>5 DEF Machine
  <2>8. QED BY <2>6, <2>7
<1>4. \A f \in Frame : HasNewest(Fed(b, bar).bars[f])
  <2> SUFFICES ASSUME NEW f \in Frame PROVE HasNewest(Fed(b, bar).bars[f])
    OBVIOUS
  <2>1. b.bars[f] \in SUBSET Time /\ HasNewest(b.bars[f]) /\ b.bars \in [Frame -> SUBSET Time]
    BY DEF Sound, Machine
  <2>2. Fed(b, bar).bars[f] \in {b.bars[f], b.bars[f] \cup {bar.t}}
    BY <1>2, <1>3, <2>1
  <2>3. QED BY <2>1, <2>2, <1>2, NewestStays
<1>5. QED BY <1>3, <1>4 DEF ResetTerminal, Sound

(* A setup is accepted, or not. *)
LEMMA AcceptFacts ==
    ASSUME NEW b, Sound(b), NEW bar \in BarType, NEW s \in Accept(b, bar)
    PROVE  /\ Sound(s) /\ s.bars = b.bars
           /\ \/ s = b
              \/ s.phase \in {"WATCH_M5", "CANCELLED"} /\ s.setup = bar.t
<1>1. CASE s = b
  BY <1>1
<1>2. CASE \E p \in {"WATCH_M5", "CANCELLED"} :
             s = [b EXCEPT !.phase = p, !.setup = bar.t, !.last = bar.t]
  <2>1. b \in Machine /\ bar.t \in Time
    BY DEF Sound, BarType
  <2>2. s \in Machine /\ s.bars = b.bars /\ s.phase \in {"WATCH_M5", "CANCELLED"} /\ s.setup = bar.t
    BY <1>2, <2>1 DEF Machine, Phase
  <2>3. QED BY <2>2 DEF Sound
<1>3. QED BY <1>1, <1>2 DEF Accept

(* The watch on M5 goes on within its window, arms, or ends. *)
LEMMA ArmFacts ==
    ASSUME NEW b, Sound(b), NEW bar \in BarType, NEW a \in Arm(b, bar)
    PROVE  /\ Sound(a) /\ a.bars = b.bars /\ a.setup = b.setup
           /\ \/ a = b /\ (b.phase = "WATCH_M5" => M5Candidates(b) < WatchM5)
              \/ b.phase = "WATCH_M5" /\ a.phase \in {"WATCH_M1", "CANCELLED"}
<1>1. b \in Machine /\ "M5" \in Frame /\ b.bars \in [Frame -> SUBSET Time]
  BY DEF Sound, Machine, Frame
<1>2. Cursor(b, "M5") \in Time
  <2>1. Cursor(b, "M5") \in b.bars["M5"] \cup {0}
    BY CursorIsABar, <1>1 DEF Sound
  <2>2. QED BY <2>1, <1>1, BoundsAssumption DEF Time
<1>3. Larger(b.setup, Cursor(b, "M5")) \in Time
  BY <1>1, <1>2 DEF Larger, Machine
<1>4. M5Candidates(b) \in Nat /\ WatchM5 \in Nat
  BY <1>1, WindowsAreCounted, WindowAssumption
<1>5. CASE b.phase # "WATCH_M5"
  BY <1>5 DEF Arm
<1>6. CASE b.phase = "WATCH_M5" /\ a = [b EXCEPT !.phase = "CANCELLED"]
  BY <1>1, <1>6 DEF Sound, Machine, Phase
<1>7. CASE b.phase = "WATCH_M5" /\ a = b /\ ~Expired(M5Candidates(b), WatchM5)
  BY <1>4, <1>7 DEF Expired
<1>8. CASE /\ b.phase = "WATCH_M5"
           /\ a = [b EXCEPT !.phase = "WATCH_M1", !.armed = Larger(b.setup, Cursor(b, "M5"))]
  BY <1>1, <1>3, <1>8 DEF Sound, Machine, Phase
<1>9. QED BY <1>5, <1>6, <1>7, <1>8 DEF Arm

(* The watch on M1 goes on within its window, enters, or ends. *)
LEMMA EnterFacts ==
    ASSUME NEW b, Sound(b), NEW bar, NEW before, NEW e \in Enter(b, bar, before)
    PROVE  /\ Sound(e) /\ e.bars = b.bars /\ e.setup = b.setup
           /\ \/ e = b /\ (b.phase = "WATCH_M1" => Cardinality(M1Candidates(b)) < EntryM1)
              \/ b.phase = "WATCH_M1" /\ e.phase \in {"ENTRY_READY", "CANCELLED"}
<1>1. b \in Machine
  BY DEF Sound
<1>2. Cardinality(M1Candidates(b)) \in Nat /\ EntryM1 \in Nat
  BY <1>1, WindowsAreCounted, WindowAssumption
<1>3. CASE b.phase # "WATCH_M1"
  BY <1>3 DEF Enter
<1>4. CASE b.phase = "WATCH_M1" /\ \E p \in {"ENTRY_READY", "CANCELLED"} : e = [b EXCEPT !.phase = p]
  BY <1>1, <1>4 DEF Sound, Machine, Phase
<1>5. CASE b.phase = "WATCH_M1" /\ e = b /\ ~Expired(Cardinality(M1Candidates(b)), EntryM1)
  BY <1>2, <1>5 DEF Expired
<1>6. QED BY <1>3, <1>4, <1>5 DEF Enter

(* One bar: the windows hold afterwards whatever the verdicts, the bar is taken in or *)
(* was known, and what is watched or entered is the setup that was or one of the bar. *)
LEMMA OnBarCloseFacts ==
    ASSUME NEW b, Sound(b), WindowsHold(b), NEW bar \in BarType,
           NEW e \in OnBarClose(b, bar)
    PROVE  /\ Sound(e) /\ WindowsHold(e)
           /\ e.bars \in {b.bars, [b.bars EXCEPT ![bar.frame] = @ \cup {bar.t}]}
           /\ \/ e = b
              \/ e.phase \in {"IDLE", "CANCELLED"}
              \/ e.setup = bar.t
              \/ b.phase \in Watching /\ e.setup = b.setup
<1>1. CASE e = b
  BY <1>1
<1>2. CASE e \in Advance(Fed(b, bar), bar)
  <2> DEFINE d == Fed(b, bar)
  <2>0. PICK s \in Accept(d, bar) : \E a \in Arm(s, bar) : e \in Enter(a, bar, d.phase)
    BY <1>2 DEF Advance
  <2>1. PICK a \in Arm(s, bar) : e \in Enter(a, bar, d.phase)
    BY <2>0
  <2> HIDE DEF d
  <2>2. /\ Sound(d) /\ d.bars = [b.bars EXCEPT ![bar.frame] = @ \cup {bar.t}]
        /\ \/ b.phase \in Watching \cup {"IDLE"} /\ d.phase = b.phase /\ d.setup = b.setup
           \/ d.phase = "IDLE"
    BY FedFacts DEF d
  <2>3. /\ Sound(s) /\ s.bars = d.bars
        /\ \/ s = d
           \/ s.phase \in {"WATCH_M5", "CANCELLED"} /\ s.setup = bar.t
    BY <2>0, <2>2, AcceptFacts
  <2>4. /\ Sound(a) /\ a.bars = s.bars /\ a.setup = s.setup
        /\ \/ a = s /\ (s.phase = "WATCH_M5" => M5Candidates(s) < WatchM5)
           \/ s.phase = "WATCH_M5" /\ a.phase \in {"WATCH_M1", "CANCELLED"}
    BY <2>1, <2>3, ArmFacts
  <2>5. /\ Sound(e) /\ e.bars = a.bars /\ e.setup = a.setup
        /\ \/ e = a /\ (a.phase = "WATCH_M1" => Cardinality(M1Candidates(a)) < EntryM1)
           \/ a.phase = "WATCH_M1" /\ e.phase \in {"ENTRY_READY", "CANCELLED"}
    BY <2>1, <2>4, EnterFacts
  <2>6. WindowsHold(e)
    BY <2>4, <2>5 DEF WindowsHold
  <2>7. QED BY <2>2, <2>3, <2>4, <2>5, <2>6 DEF Watching
<1>3. QED BY <1>1, <1>2 DEF OnBarClose

-----------------------------------------------------------------------------
(* The Revised detector.                                                   *)

OneSided(r) == ~\A s \in Side : r.watch[s] # 0

(* A candidate: each watch stays, ends, or begins with the candidate's bar. *)
LEMMA ProcessFacts ==
    ASSUME NEW r \in Detector, NEW s \in Side, NEW t \in Time, NEW strong \in BOOLEAN
    PROVE  LET p == ProcessCandidate(r, s, t, strong)
           IN  /\ p \in Detector /\ p.classified = r.classified
               /\ OneSided(r) => OneSided(p)
               /\ \A x \in Side : \/ p.watch[x] \in {0, r.watch[x]}
                                  \/ p.watch[x] = t /\ 0 < t
<1> DEFINE p == ProcessCandidate(r, s, t, strong)
<1>1. Other(s) \in Side /\ Other(s) # s /\ Side = {s, Other(s)}
  BY DEF Other, Side
<1>2. CASE p = r
  BY <1>2
<1>3. CASE p # r
  <2> DEFINE w == [r.watch EXCEPT ![Other(s)] = 0, ![s] = IF @ = 0 THEN t ELSE @]
  <2>1. ~(t <= r.consumed[s]) /\ p = [r EXCEPT !.watch[Other(s)] = 0, !.watch[s] = IF @ = 0 THEN t ELSE @]
    BY <1>3 DEF ProcessCandidate
  <2>2. r.watch \in [Side -> Time] /\ r.consumed[s] \in Time
    BY DEF Detector
  <2>3. p = [r EXCEPT !.watch = w]
    BY <2>1, <2>2, <1>1 DEF Detector
  <2>4. w \in [Side -> Time] /\ w[Other(s)] = 0 /\ w[s] \in {r.watch[s], t} /\ 0 < t
    BY <2>1, <2>2, <1>1, ZeroIsATime DEF Time
  <2> HIDE DEF w
  <2>5. p \in Detector /\ p.watch = w /\ p.classified = r.classified
    BY <2>3, <2>4 DEF Detector
  <2>6. QED BY <2>4, <2>5, <1>1 DEF OneSided
<1>4. QED BY <1>2, <1>3

(* A classification: a watch begins only with the newest M5 bar, and only when that *)
(* is newer than what was classified before.                                       *)
LEMMA ClassifyFacts ==
    ASSUME NEW r \in Detector, latest \in [Frame -> Time], NEW c \in Classify(r)
    PROVE  /\ c \in Detector
           /\ r.classified <= c.classified
           /\ OneSided(r) => OneSided(c)
           /\ \A x \in Side : \/ c.watch[x] \in {0, r.watch[x]}
                              \/ /\ c.watch[x] = latest["M5"] /\ c.classified = latest["M5"]
                                 /\ r.classified < latest["M5"]
<1> DEFINE t == latest["M5"]
           d == [r EXCEPT !.classified = t]
<1>1. t \in Time /\ r.classified \in Time
  BY DEF Frame, Detector
<1>2. CASE c = r
  BY <1>1, <1>2 DEF Time
<1>3. CASE c # r
  <2>1. /\ r.classified = 0 \/ ~(t <= r.classified)
        /\ \/ c = d
           \/ \E s \in Side, strong \in BOOLEAN : c = ProcessCandidate(d, s, t, strong)
    BY <1>3 DEF Classify
  <2>2. r.classified <= t /\ (0 < t => r.classified < t)
    BY <2>1, <1>1 DEF Time
  <2>3. d \in Detector /\ d.watch = r.watch /\ d.classified = t
    BY <1>1 DEF Detector
  <2> HIDE DEF d, t
  <2>4. c \in Detector /\ c.classified = t /\ (OneSided(d) => OneSided(c))
        /\ \A x \in Side : c.watch[x] \in {0, d.watch[x]} \/ (c.watch[x] = t /\ 0 < t)
    BY <2>1, <2>3, <1>1, ProcessFacts
  <2>5. QED BY <2>2, <2>3, <2>4 DEF OneSided, t
<1>4. QED BY <1>2, <1>3

(* What a side's evaluation makes of a classified detector. *)
LEMMA EndFacts ==
    ASSUME NEW r \in Detector, NEW s \in Side
    PROVE  /\ [r EXCEPT !.watch[s] = 0] \in Detector
           /\ [r EXCEPT !.watch[s] = 0].classified = r.classified
           /\ [r EXCEPT !.watch[s] = 0].watch = [r.watch EXCEPT ![s] = 0]
           /\ Consume(r, s) \in Detector /\ Consume(r, s).classified = r.classified
           /\ Consume(r, s).watch = [r.watch EXCEPT ![s] = 0]
<1> DEFINE w == [r.watch EXCEPT ![s] = 0]
           k == [r.consumed EXCEPT ![s] = Larger(@, r.watch[s])]
<1>1. r.watch \in [Side -> Time] /\ r.consumed \in [Side -> Time]
  BY DEF Detector
<1>2. w \in [Side -> Time] /\ k \in [Side -> Time]
  BY <1>1, ZeroIsATime DEF Larger
<1>3. [r EXCEPT !.watch[s] = 0] = [r EXCEPT !.watch = w]
  BY DEF Detector
<1>4. Consume(r, s) = [r EXCEPT !.watch = w, !.consumed = k]
  BY DEF Consume, Detector
<1> HIDE DEF w, k
<1>5. /\ [r EXCEPT !.watch = w] \in Detector /\ [r EXCEPT !.watch = w].classified = r.classified
      /\ [r EXCEPT !.watch = w].watch = w
  BY <1>2 DEF Detector
<1>6. /\ Consume(r, s) \in Detector /\ Consume(r, s).classified = r.classified
      /\ Consume(r, s).watch = w
  BY <1>2, <1>4 DEF Detector
<1>7. QED BY <1>3, <1>5, <1>6 DEF w

(* Where nothing is watched, the newest M5 bar is the last one classified. *)
LEMMA SeedFacts ==
    ASSUME NEW r \in Detector, latest \in [Frame -> Time]
    PROVE  /\ SeedWarmup(r) \in Detector
           /\ SeedWarmup(r).watch = r.watch
           /\ \/ SeedWarmup(r) = r /\ \E s \in Side : r.watch[s] # 0
              \/ /\ \A s \in Side : r.watch[s] = 0
                 /\ SeedWarmup(r).classified = latest["M5"]
BY DEF SeedWarmup, Detector, Frame

-----------------------------------------------------------------------------
(* The state files.                                                        *)

Slots == [{0, 1} -> Machine \cup {Missing, Torn}]

(* A file that can be read is a machine's, and those without one cannot. *)
LEMMA ReadableFiles ==
    ASSUME slot \in Slots
    PROVE  /\ ~Complete(Missing) /\ ~Complete(Torn)
           /\ \A i \in {0, 1} : Complete(slot[i]) => slot[i] \in Machine
<1>1. Missing.phase = "MISSING" /\ Torn.phase = "TORN"
  BY DEF Missing, Torn, Empty
<1>2. QED BY <1>1 DEF Complete, Phase, Slots

(* Load picks the readable file of the highest sequence. *)
LEMMA PickedIs ==
    ASSUME slot \in Slots, Readable # {}
    PROVE  \E i \in {0, 1} : /\ Complete(slot[i]) /\ Picked = slot[i]
                             /\ \A j \in {0, 1} : Complete(slot[j]) => slot[j].seq <= slot[i].seq
<1>1. \A i \in Readable : slot[i].seq \in Nat
  BY ReadableFiles DEF Readable, Machine
<1>2. \E i \in Readable : \A j \in Readable : slot[j].seq <= slot[i].seq
  <2>1. CASE Readable = {0, 1} /\ slot[0].seq <= slot[1].seq
    BY <2>1, <1>1
  <2>2. CASE Readable = {0, 1} /\ slot[1].seq <= slot[0].seq
    BY <2>2, <1>1
  <2>3. CASE \E i \in {0, 1} : Readable = {i}
    BY <2>3, <1>1
  <2>4. Readable = {0, 1} \/ \E i \in {0, 1} : Readable = {i}
    BY DEF Readable
  <2>5. QED BY <1>1, <2>1, <2>2, <2>3, <2>4
<1>3. QED BY <1>2 DEF Picked, Readable

(* A start takes a readable file over, or begins anew. *)
LEMMA LoadedFacts ==
    ASSUME slot \in Slots, NEW b \in Loaded
    PROVE  b = Seeded \/ \E i \in {0, 1} : b = slot[i] /\ Complete(slot[i])
<1>1. b = Seeded \/ (Readable # {} /\ b = Picked)
  BY DEF Loaded
<1>2. QED BY <1>1, PickedIs

(* What a start without a file begins with. *)
LEMMA SeededFacts ==
    ASSUME latest \in [Frame -> Time]
    PROVE  /\ Sound(Seeded) /\ Seeded.phase = "IDLE" /\ Seeded.setup = 0
           /\ \A f \in Frame : Seeded.bars[f] \subseteq {latest[f]}
<1>1. Seeded = [phase |-> "IDLE", setup |-> 0, last |-> 0, armed |-> 0, seq |-> 0,
                asOf |-> latest["M1"], bars |-> [f \in Frame |-> {latest[f]} \ {0}]]
  <2> DEFINE seeds == [f \in Frame |-> {latest[f]} \ {0}]
             none == [f \in Frame |-> {}]
  <2>1. Seeded = [Empty EXCEPT !.bars = seeds, !.asOf = latest["M1"]]
    BY DEF Seeded
  <2>2. Empty = [phase |-> "IDLE", setup |-> 0, last |-> 0, armed |-> 0, seq |-> 0,
                 asOf |-> 0, bars |-> none]
    BY DEF Empty
  <2> HIDE DEF seeds, none
  <2>3. Seeded = [phase |-> "IDLE", setup |-> 0, last |-> 0, armed |-> 0, seq |-> 0,
                  asOf |-> latest["M1"], bars |-> seeds]
    BY <2>1, <2>2
  <2>4. QED BY <2>3 DEF seeds
<1>2. Seeded \in Machine
  BY <1>1, ZeroIsATime DEF Machine, Phase, Frame
<1>3. \A f \in Frame : HasNewest(Seeded.bars[f])
  <2> SUFFICES ASSUME NEW f \in Frame PROVE HasNewest({latest[f]} \ {0})
    BY <1>1
  <2>1. latest[f] \in Time
    OBVIOUS
  <2>2. QED BY <2>1 DEF HasNewest, Time
<1>4. QED BY <1>1, <1>2, <1>3 DEF Sound

(* The machine of an expert that is down, and the file of a run long ago. *)
LEMMA EmptyFacts ==
    /\ Sound(Empty) /\ Empty.phase = "IDLE" /\ \A f \in Frame : Empty.bars[f] = {}
    /\ \A i \in {0, 1} : /\ Sound(Old(i)) /\ Old(i).phase = "IDLE" /\ SlotFor(Old(i)) = i
                        /\ \A f \in Frame : Old(i).bars[f] = {}
<1>1. Sound(Empty) /\ Empty.phase = "IDLE" /\ \A f \in Frame : Empty.bars[f] = {}
  <2>1. Empty \in Machine
    BY ZeroIsATime DEF Empty, Machine, Phase
  <2>2. Empty.phase = "IDLE" /\ \A f \in Frame : Empty.bars[f] = {}
    BY DEF Empty
  <2>3. QED BY <2>1, <2>2 DEF Sound, HasNewest
<1>2. ASSUME NEW i \in {0, 1}
      PROVE  /\ Sound(Old(i)) /\ Old(i).phase = "IDLE" /\ SlotFor(Old(i)) = i
             /\ \A f \in Frame : Old(i).bars[f] = {}
  <2>1. Old(i) = [phase |-> "IDLE", setup |-> 0, last |-> 0, armed |-> 0,
                  seq |-> OldSequence + i, asOf |-> 0, bars |-> [f \in Frame |-> {}]]
    BY DEF Old, Empty
  <2>2. OldSequence + i \in Nat /\ (OldSequence + i) % 2 = i
    BY OldAssumption
  <2>3. QED BY <2>1, <2>2, ZeroIsATime DEF Sound, Machine, Phase, HasNewest, SlotFor
<1>3. QED BY <1>1, <1>2

-----------------------------------------------------------------------------
(* Where the expert is in its tick.                                        *)

Busy == {"dispatch", "save"} \cup Side
Polling == {"look", "read"}
Bars == DOMAIN pending

(* A tick's bars are of different frames, those polled already. *)
StageInv ==
    /\ TypeOK
    /\ pc \notin Polling \cup Busy => pending = <<>>
    /\ pc \in Busy => pending # <<>>
    /\ pc \notin Polling => frame = 1 /\ gap = FALSE
    /\ pc \in Polling => healthy
    /\ pc \notin Busy =>
          \A i \in Bars : \E k \in DOMAIN Frames : k < frame /\ pending[i].frame = Frames[k]
    /\ \A i, j \in Bars : pending[i].frame = pending[j].frame => i = j

LEMMA FrameFacts ==
    /\ DOMAIN Frames = 1 .. 4 /\ Len(Frames) = 4
    /\ \A k \in 1 .. 4 : Frames[k] \in Frame
    /\ \A j, k \in 1 .. 4 : Frames[j] = Frames[k] => j = k
BY DEF Frames, Frame

(* A bar that closed is one the clock can name. *)
LEMMA ClosedFacts ==
    ASSUME now \in Time, NEW f \in Frame
    PROVE  Closed(f) = ClosedAt(now, f) /\ Closed(f) \in Time /\ Closed(f) <= now
<1>1. now \in Nat /\ Closed(f) = ClosedAt(now, f)
  BY DEF Time, Closed, ClosedAt
<1>2. ClosedAt(now, f) \in 0 .. now
  BY <1>1, NextClosed
<1>3. QED BY <1>1, <1>2, BoundsAssumption DEF Time

(* A frame of a poll is done: the next one follows, or nothing, or the tick's bars. *)
LEMMA NextFrameFacts ==
    ASSUME frame \in 1 .. 4, NEW bars, NEW hole \in BOOLEAN, NextFrame(bars, hole)
    PROVE  \/ /\ frame # 4 /\ frame' = frame + 1 /\ gap' = hole /\ pending' = bars
              /\ pc' = "look" /\ healthy' = healthy
           \/ /\ frame = 4 /\ frame' = 1 /\ gap' = FALSE /\ pending' = <<>> /\ pc' = "idle"
              /\ hole = FALSE => bars = <<>> /\ healthy' = (healthy /\ TRUE)
              /\ hole = TRUE => healthy' = FALSE
           \/ /\ frame = 4 /\ frame' = 1 /\ gap' = FALSE /\ pending' = bars /\ pc' = "dispatch"
              /\ hole = FALSE /\ bars # <<>>
BY FrameFacts DEF NextFrame, Polled

LEMMA NextFrameType ==
    ASSUME frame \in 1 .. 4, healthy \in BOOLEAN, NEW bars, NEW hole \in BOOLEAN,
           NextFrame(bars, hole)
    PROVE  /\ frame' \in 1 .. 4 /\ gap' \in BOOLEAN /\ healthy' \in BOOLEAN
           /\ pending' \in {bars, <<>>} /\ pc' \in {"look", "idle", "dispatch"}
<1>1. frame' \in 1 .. 4 /\ pending' \in {bars, <<>>} /\ pc' \in {"look", "idle", "dispatch"}
  BY FrameFacts DEF NextFrame, Polled
<1>2. gap' \in BOOLEAN
  BY DEF NextFrame, Polled
<1>3. healthy' \in BOOLEAN
  BY DEF NextFrame, Polled
<1>4. QED BY <1>1, <1>2, <1>3

(* A bar of the tick is done: the next one follows, or nothing. *)
LEMMA NextBarFacts ==
    ASSUME pending \in Seq(BarType), pending # <<>>, NextBar
    PROVE  /\ pending' = Tail(pending) /\ pending' \in Seq(BarType)
           /\ pc' \in {"idle", "dispatch"} /\ (pc' = "idle" <=> pending' = <<>>)
           /\ DOMAIN pending' = 1 .. (Len(pending) - 1)
           /\ \A i \in DOMAIN pending' : i + 1 \in Bars /\ pending'[i] = pending[i + 1]
BY DEF NextBar, Bars

LEMMA InitStage == Init => StageInv
<1> SUFFICES ASSUME Init PROVE StageInv
  OBVIOUS
<1>1. now \in Time /\ 0 \in Time
  BY BoundsAssumption DEF Init, Time
<1>2. latest \in [Frame -> Time] /\ forming \in [Frame -> Time]
  BY <1>1 DEF Init, None
<1>3. Empty \in Machine /\ Old(0) \in Machine /\ Old(1) \in Machine
  BY EmptyFacts DEF Sound
<1>4. slot \in Slots
  <2>1. \A i \in {0, 1} : Old(i) \in Machine
    BY <1>3
  <2>2. slot = [i \in {0, 1} |-> Missing] \/ slot = [i \in {0, 1} |-> Old(i)]
    BY DEF Init
  <2>3. QED BY <2>1, <2>2 DEF Slots
<1>5. revised \in Detector
  BY <1>1 DEF Init, Fresh, Detector
<1>6. sent \in [Strategy -> [Time -> Nat]]
  BY DEF Init
<1>7. pending \in Seq(BarType) /\ Bars = {}
  BY DEF Init, Bars
<1>8. TypeOK
  <2>1. {gap, healthy, late, wentOn} \subseteq BOOLEAN /\ {lost, stops} \subseteq Nat
    BY DEF Init
  <2>2. pc = "down" /\ frame = 1 /\ seen \in Time /\ started \in Time /\ bear \in Machine
    BY <1>1, <1>3 DEF Init
  <2>3. QED BY <1>1, <1>2, <1>4, <1>5, <1>6, <1>7, <2>1, <2>2, FrameFacts
            DEF TypeOK, Slots, BarType
<1>9. QED BY <1>7, <1>8 DEF Init, StageInv, Polling, Busy, Side

(* The first bar of a tick's is a bar. *)
LEMMA HeadIsABar ==
    ASSUME pending \in Seq(BarType), pending # <<>>
    PROVE  /\ Bar = pending[1] /\ 1 \in Bars /\ Bar \in BarType
           /\ Bar.frame \in Frame /\ Bar.t \in Time
<1>1. Bar = pending[1] /\ 1 \in Bars
  BY DEF Bar, Bars
<1>2. pending[1] \in BarType
  BY <1>1 DEF Bars
<1>3. QED BY <1>1, <1>2 DEF BarType

(* A submission counts for one setup of one strategy. *)
LEMMA SubmitFacts ==
    ASSUME sent \in [Strategy -> [Time -> Nat]], NEW g \in Strategy, NEW t \in Time, Submit(g, t)
    PROVE  /\ sent' \in [Strategy -> [Time -> Nat]]
           /\ \A h \in Strategy, u \in Time :
                 sent'[h][u] = IF h = g /\ u = t THEN sent[h][u] + 1 ELSE sent[h][u]
<1> DEFINE one == [sent[g] EXCEPT ![t] = @ + 1]
<1>1. sent[g] \in [Time -> Nat] /\ sent[g][t] \in Nat
  OBVIOUS
<1>2. sent' = [sent EXCEPT ![g] = one]
  BY DEF Submit
<1>3. one \in [Time -> Nat] /\ \A u \in Time : one[u] = IF u = t THEN sent[g][u] + 1 ELSE sent[g][u]
  BY <1>1
<1> HIDE DEF one
<1>4. QED BY <1>2, <1>3

(* The types the proofs need, one by one. *)
LEMMA Types ==
    ASSUME TypeOK
    PROVE  /\ now \in Time /\ started \in Time /\ seen \in Time
           /\ frame \in 1 .. 4 /\ Frames[frame] \in Frame
           /\ latest \in [Frame -> Time] /\ forming \in [Frame -> Time]
           /\ pending \in Seq(BarType) /\ bear \in Machine /\ slot \in Slots
           /\ revised \in Detector /\ sent \in [Strategy -> [Time -> Nat]]
           /\ Time \subseteq Nat
BY FrameFacts DEF TypeOK, BarType, Slots, Time

(* What is typed is typed after every step that leaves it alone. *)
LEMMA TypeStep ==
    ASSUME StageInv, \A f \in Frame : HasNewest(bear.bars[f]), WindowsHold(bear), [Next]_vars
    PROVE  TypeOK'
<1>1. /\ TypeOK /\ now \in Time /\ latest \in [Frame -> Time] /\ forming \in [Frame -> Time]
      /\ frame \in 1 .. 4 /\ Frames[frame] \in Frame /\ pending \in Seq(BarType)
      /\ bear \in Machine /\ slot \in Slots /\ revised \in Detector
      /\ sent \in [Strategy -> [Time -> Nat]] /\ healthy \in BOOLEAN /\ gap \in BOOLEAN
      /\ late \in BOOLEAN /\ wentOn \in BOOLEAN /\ lost \in Nat /\ stops \in Nat
      /\ seen \in Time /\ started \in Time
  BY FrameFacts DEF StageInv, TypeOK, Slots, BarType
<1>2. \A f \in Frame : Closed(f) \in Time
  BY <1>1, ClosedFacts
<1>3. /\ <<>> \in Seq(BarType)
      /\ None \in [Frame -> Time] /\ Fresh \in Detector /\ Empty \in Machine
  BY EmptyFacts, ZeroIsATime DEF None, Fresh, Detector, Sound
<1>4. \A b \in Machine : SlotFor(b) \in {0, 1} /\ Written(b) \in Slots /\ Cut(b) \in Slots
  <2> SUFFICES ASSUME NEW b \in Machine
               PROVE  SlotFor(b) \in {0, 1} /\ Written(b) \in Slots /\ Cut(b) \in Slots
    OBVIOUS
  <2>1. SlotFor(b) \in {0, 1}
    BY DEF SlotFor, Machine
  <2>2. QED BY <1>1, <2>1 DEF Written, Cut, Slots
<1> USE DEF Slots, BarType
<1>5. CASE UNCHANGED vars
  BY <1>1, <1>5 DEF vars, scheduler, history, TypeOK
<1>6. CASE BarCloses
  <2>1. now' \in Time
    BY <1>1, <1>6, BoundsAssumption DEF BarCloses, Time
  <2>2. QED BY <1>1, <1>6, <2>1 DEF BarCloses, scheduler, history, TypeOK
<1>7. CASE Warmup
  <2>1. latest' \in [Frame -> Time]
    BY <1>2, <1>7 DEF Warmup
  <2>2. QED BY <1>1, <1>7, <2>1 DEF Warmup, scheduler, TypeOK
<1>8. CASE InitScheduler
  <2>1. forming' \in [Frame -> Time] /\ late' \in BOOLEAN
    BY <1>2, <1>8 DEF InitScheduler
  <2>2. QED BY <1>1, <1>8, <2>1 DEF InitScheduler, TypeOK
<1>9. CASE LoadBear
  <2>1. bear' \in Machine
    BY <1>1, <1>9, LoadedFacts, SeededFacts, ReadableFiles DEF LoadBear, Sound
  <2>2. revised' \in Detector
    BY <1>1, <1>9, SeedFacts DEF LoadBear
  <2>3. QED BY <1>1, <1>9, <2>1, <2>2 DEF LoadBear, scheduler, TypeOK
<1>10. CASE RefuseStart
  BY <1>1, <1>3, <1>10 DEF RefuseStart, scheduler, history, TypeOK
<1>11. CASE LookUnchanged
  <2>1. NextFrame(pending, gap)
    BY <1>11 DEF LookUnchanged
  <2>2. frame' \in 1 .. 4 /\ gap' \in BOOLEAN /\ pending' \in Seq(BarType) /\ healthy' \in BOOLEAN
        /\ pc' \in {"look", "idle", "dispatch"}
    <3>1. /\ frame' \in 1 .. 4 /\ gap' \in BOOLEAN /\ healthy' \in BOOLEAN
          /\ pending' \in {pending, <<>>} /\ pc' \in {"look", "idle", "dispatch"}
      BY <1>1, <2>1, NextFrameType
    <3>2. QED BY <1>1, <1>3, <3>1
  <2>3. QED BY <1>1, <1>11, <2>2, FrameFacts DEF LookUnchanged, history, TypeOK
<1>12. CASE LookChanged
  <2>1. seen' \in Time /\ gap' \in BOOLEAN
    BY <1>1, <1>2, <1>12 DEF LookChanged, Skipped
  <2>2. QED BY <1>1, <1>12, <2>1 DEF LookChanged, history, TypeOK
<1>13. CASE Read
  <2> DEFINE f == Frames[frame]
             bars == Append(pending, [frame |-> f, t |-> Closed(f)])
  <2>1. bars \in Seq(BarType)
    BY <1>1, <1>2
  <2>2. /\ NextFrame(bars, gap) /\ forming' = [forming EXCEPT ![f] = seen]
        /\ late' = (late \/ Closed(f) # seen) /\ seen' = 0
    BY <1>13 DEF Read
  <2> HIDE DEF bars
  <2>3. frame' \in 1 .. 4 /\ gap' \in BOOLEAN /\ pending' \in Seq(BarType) /\ healthy' \in BOOLEAN
        /\ pc' \in {"look", "idle", "dispatch"}
    <3>1. /\ frame' \in 1 .. 4 /\ gap' \in BOOLEAN /\ healthy' \in BOOLEAN
          /\ pending' \in {bars, <<>>} /\ pc' \in {"look", "idle", "dispatch"}
      BY <1>1, <2>2, NextFrameType
    <3>2. QED BY <1>3, <2>1, <3>1
  <2>4. forming' \in [Frame -> Time] /\ late' \in BOOLEAN /\ seen' \in Time
    BY <1>1, <2>2, ZeroIsATime
  <2>5. QED BY <1>1, <1>13, <2>3, <2>4, FrameFacts DEF Read, TypeOK
<1>14. CASE PollFails
  <2>1. pending' \in Seq(BarType) /\ frame' \in DOMAIN Frames /\ seen' \in Time
    BY <1>3, <1>14, FrameFacts, ZeroIsATime DEF PollFails
  <2>2. {gap', healthy', late', wentOn'} \subseteq BOOLEAN
    BY <1>1, <1>14 DEF PollFails
  <2>3. QED BY <1>1, <1>14, <2>1, <2>2 DEF PollFails, TypeOK
<1>15. CASE DispatchClosedBar
  <2>1. pending # <<>> /\ Bar \in BarType
    BY <1>1, <1>15, HeadIsABar DEF DispatchClosedBar, StageInv, Busy
  <2>2. latest' \in [Frame -> Time]
    BY <1>1, <1>15, <2>1 DEF DispatchClosedBar, Larger
  <2>3. PICK b \in OnBarClose(bear, Bar) :
             bear' = b /\ (sent' = sent \/ Submit("BEAR", b.setup))
    BY <1>15 DEF DispatchClosedBar
  <2>4. b \in Machine
    BY <1>1, <2>1, OnBarCloseFacts DEF Sound
  <2>5. sent' \in [Strategy -> [Time -> Nat]]
    BY <1>1, <2>3, <2>4, SubmitFacts DEF Machine, Strategy
  <2>6. QED BY <1>1, <1>15, <2>2, <2>3, <2>4, <2>5
            DEF DispatchClosedBar, scheduler, history, TypeOK
<1>16. ASSUME NEW ok \in BOOLEAN, Proceed(ok), pc = "save"
       PROVE  healthy' \in BOOLEAN /\ pending' \in Seq(BarType) /\ pc' \in {"BUY", "idle", "dispatch"}
  BY <1>1, <1>16, NextBarFacts DEF Proceed, StageInv, Busy
<1>17. CASE SaveBear
  <2>1. healthy' \in BOOLEAN /\ pending' \in Seq(BarType) /\ pc' \in {"BUY", "idle", "dispatch"}
    BY <1>1, <1>16, <1>17 DEF SaveBear
  <2>2. slot' \in Slots
    BY <1>1, <1>4, <1>17 DEF SaveBear
  <2>3. QED BY <1>1, <1>17, <2>1, <2>2 DEF SaveBear, TypeOK, Side
<1>18. CASE SaveFails
  <2>1. healthy' \in BOOLEAN /\ pending' \in Seq(BarType) /\ pc' \in {"BUY", "idle", "dispatch"}
    BY <1>1, <1>16, <1>18 DEF SaveFails
  <2>2. slot' \in Slots
    BY <1>1, <1>4, <1>18 DEF SaveFails
  <2>3. QED BY <1>1, <1>18, <2>1, <2>2 DEF SaveFails, TypeOK, Side
<1>19. ASSUME NEW ok \in BOOLEAN, SideDone(ok), pc \in Side
       PROVE  healthy' \in BOOLEAN /\ pending' \in Seq(BarType) /\ pc' \in {"SELL", "idle", "dispatch"}
  BY <1>1, <1>19, NextBarFacts DEF SideDone, StageInv, Busy
<1>20. CASE NoEntry
  <2>1. healthy' \in BOOLEAN /\ pending' \in Seq(BarType) /\ pc' \in {"SELL", "idle", "dispatch"}
    BY <1>1, <1>19, <1>20 DEF NoEntry
  <2>2. revised' \in Detector
    BY <1>1, <1>20, ClassifyFacts, EndFacts DEF NoEntry
  <2>3. QED BY <1>1, <1>20, <2>1, <2>2 DEF NoEntry, history, TypeOK, Side
<1>21. CASE Decided
  <2>1. healthy' \in BOOLEAN /\ pending' \in Seq(BarType) /\ pc' \in {"SELL", "idle", "dispatch"}
    BY <1>1, <1>19, <1>21 DEF Decided
  <2>2. PICK r \in Classify(revised) :
             revised' = Consume(r, pc) /\ (sent' = sent \/ Submit("REVISED", r.watch[pc]))
    BY <1>21 DEF Decided
  <2>3. r \in Detector /\ pc \in Side
    BY <1>1, <1>21, ClassifyFacts DEF Decided
  <2>4. revised' \in Detector
    BY <2>2, <2>3, EndFacts
  <2>5. sent' \in [Strategy -> [Time -> Nat]]
    BY <1>1, <2>2, <2>3, SubmitFacts DEF Detector, Strategy
  <2>6. QED BY <1>1, <1>21, <2>1, <2>4, <2>5 DEF Decided, history, TypeOK, Side
<1>22. CASE EvaluationFails
  <2>1. healthy' \in BOOLEAN /\ pending' \in Seq(BarType) /\ pc' \in {"SELL", "idle", "dispatch"}
    BY <1>1, <1>19, <1>22 DEF EvaluationFails
  <2>2. revised' \in Detector
    BY <1>1, <1>22, ClassifyFacts DEF EvaluationFails
  <2>3. QED BY <1>1, <1>22, <2>1, <2>2 DEF EvaluationFails, TypeOK, Side
<1>23. CASE Stop \/ Crash
  <2>1. Ended
    BY <1>23 DEF Stop, Crash
  <2>2. slot' \in Slots /\ revised' \in Detector /\ lost' \in Nat
    BY <1>1, <1>3, <1>4, <1>23 DEF Stop, Crash
  <2>3. stops' \in Nat /\ started' \in Time /\ seen' \in Time
    BY <1>1, <2>1, ZeroIsATime DEF Ended
  <2>4. pending' \in Seq(BarType) /\ frame' \in DOMAIN Frames
    BY <1>3, <2>1, FrameFacts DEF Ended
  <2>5. {gap', healthy', late', wentOn'} \subseteq BOOLEAN
    BY <1>1, <2>1 DEF Ended
  <2>6. QED BY <1>1, <1>3, <2>1, <2>2, <2>3, <2>4, <2>5 DEF Ended, TypeOK
<1>24. QED BY <1>5, <1>6, <1>7, <1>8, <1>9, <1>10, <1>11, <1>12, <1>13, <1>14, <1>15,
              <1>17, <1>18, <1>20, <1>21, <1>22, <1>23 DEF Next

(* A poll finds a bar of a frame it had not come to. *)
LEMMA PollStep ==
    ASSUME StageInv, pc \notin Busy, NEW hole \in BOOLEAN,
           NEW bars \in {pending} \cup {Append(pending, b) : b \in {[frame |-> Frames[frame], t |-> Closed(Frames[frame])]}},
           NextFrame(bars, hole), TypeOK', healthy = TRUE
    PROVE  StageInv'
<1>1. /\ frame \in 1 .. 4 /\ pending \in Seq(BarType) /\ frame' \in 1 .. 4
      /\ \A i \in Bars : \E k \in 1 .. 4 : k < frame /\ pending[i].frame = Frames[k]
      /\ \A i, j \in Bars : pending[i].frame = pending[j].frame => i = j
  BY FrameFacts DEF StageInv, TypeOK, BarType
<1>2. /\ \A i \in DOMAIN bars : \E k \in 1 .. 4 : k <= frame /\ bars[i].frame = Frames[k]
      /\ \A i, j \in DOMAIN bars : bars[i].frame = bars[j].frame => i = j
  <2>1. CASE bars = pending
    BY <1>1, <2>1 DEF Bars
  <2>2. CASE bars = Append(pending, [frame |-> Frames[frame], t |-> Closed(Frames[frame])])
    <3> DEFINE n == Len(pending)
    <3>1. /\ n \in Nat /\ Bars = 1 .. n /\ DOMAIN bars = 1 .. (n + 1)
          /\ \A i \in 1 .. n : bars[i] = pending[i]
          /\ bars[n + 1].frame = Frames[frame]
      BY <1>1, <2>2 DEF Bars
    <3> HIDE DEF n
    <3>2. \A i \in 1 .. n : \E k \in 1 .. 4 : k < frame /\ bars[i].frame = Frames[k]
      BY <1>1, <3>1
    <3>3. \A i \in 1 .. n : bars[i].frame # bars[n + 1].frame
      BY <1>1, <3>1, <3>2, FrameFacts
    <3>4. \A i \in DOMAIN bars : \E k \in 1 .. 4 : k <= frame /\ bars[i].frame = Frames[k]
      <4> SUFFICES ASSUME NEW i \in DOMAIN bars
                   PROVE  \E k \in 1 .. 4 : k <= frame /\ bars[i].frame = Frames[k]
        OBVIOUS
      <4>1. CASE i \in 1 .. n
        BY <1>1, <3>2, <4>1
      <4>2. CASE i = n + 1
        BY <1>1, <3>1, <4>2
      <4>3. QED BY <3>1, <4>1, <4>2
    <3>5. \A i, j \in DOMAIN bars : bars[i].frame = bars[j].frame => i = j
      BY <1>1, <3>1, <3>3
    <3>6. QED BY <3>4, <3>5
  <2>3. QED BY <2>1, <2>2
<1>3. CASE frame # 4 /\ frame' = frame + 1 /\ pending' = bars /\ pc' = "look" /\ healthy' = healthy
  <2>1. \A i \in Bars' : \E k \in 1 .. 4 : k < frame' /\ pending'[i].frame = Frames[k]
    BY <1>1, <1>2, <1>3 DEF Bars
  <2>2. \A i, j \in Bars' : pending'[i].frame = pending'[j].frame => i = j
    BY <1>2, <1>3 DEF Bars
  <2>3. QED BY <1>3, <2>1, <2>2, FrameFacts DEF StageInv, Polling, Busy, Side
<1>4. CASE frame' = 1 /\ gap' = FALSE /\ pending' = <<>> /\ pc' = "idle"
  BY <1>4 DEF StageInv, Polling, Busy, Side, Bars
<1>5. CASE /\ frame' = 1 /\ gap' = FALSE /\ pending' = bars /\ pc' = "dispatch"
           /\ bars # <<>>
  <2>1. \A i, j \in Bars' : pending'[i].frame = pending'[j].frame => i = j
    BY <1>2, <1>5 DEF Bars
  <2>2. QED BY <1>5, <2>1 DEF StageInv, Polling, Busy, Side
<1>6. QED BY <1>1, <1>3, <1>4, <1>5, NextFrameFacts

(* A bar of the tick is done. *)
LEMMA BusyStep ==
    ASSUME StageInv, pc \in Busy, TypeOK', frame' = frame, gap' = gap,
           NextBar \/ (UNCHANGED pending /\ pc' \in Busy)
    PROVE  StageInv'
<1>1. /\ pending \in Seq(BarType) /\ pending # <<>> /\ frame = 1 /\ gap = FALSE
      /\ \A i, j \in Bars : pending[i].frame = pending[j].frame => i = j
  BY DEF StageInv, TypeOK, BarType, Polling, Busy, Side
<1>2. CASE NextBar
  <2>1. /\ pending' = Tail(pending) /\ pc' \in {"idle", "dispatch"}
        /\ pc' = "idle" <=> pending' = <<>>
        /\ \A i \in Bars' : i + 1 \in Bars /\ pending'[i] = pending[i + 1]
    BY <1>1, <1>2, NextBarFacts DEF Bars
  <2>2. Bars' \subseteq Nat /\ (pending' = <<>> => Bars' = {})
    BY <1>1, <2>1 DEF Bars
  <2>3. \A i, j \in Bars' : pending'[i].frame = pending'[j].frame => i = j
    <3> SUFFICES ASSUME NEW i \in Bars', NEW j \in Bars', pending'[i].frame = pending'[j].frame
                 PROVE  i = j
      OBVIOUS
    <3>1. i + 1 \in Bars /\ j + 1 \in Bars /\ pending[i + 1].frame = pending[j + 1].frame
      BY <2>1
    <3>2. i + 1 = j + 1
      BY <1>1, <3>1
    <3>3. QED BY <2>2, <3>2
  <2>4. QED BY <1>1, <2>1, <2>2, <2>3 DEF StageInv, Polling, Busy, Side
<1>3. CASE UNCHANGED pending /\ pc' \in Busy
  BY <1>1, <1>3 DEF StageInv, Polling, Busy, Side, Bars
<1>4. QED BY <1>2, <1>3

LEMMA StageStep ==
    ASSUME StageInv, TypeOK', [Next]_vars
    PROVE  StageInv'
<1>1. TypeOK /\ frame \in 1 .. 4 /\ gap \in BOOLEAN /\ healthy \in BOOLEAN
  BY FrameFacts DEF StageInv, TypeOK
<1> USE DEF Polling, Busy, Side
<1>2. CASE UNCHANGED vars \/ BarCloses \/ Warmup \/ InitScheduler
  BY <1>2 DEF StageInv, Bars, vars, scheduler, history, BarCloses, Warmup, InitScheduler
<1>3. CASE LoadBear \/ RefuseStart
  BY <1>3 DEF StageInv, Bars, scheduler, history, LoadBear, RefuseStart
<1>4. CASE LookUnchanged
  <2>1. pc \notin Busy /\ NextFrame(pending, gap) /\ healthy = TRUE
    BY <1>1, <1>4 DEF LookUnchanged, Looking, StageInv
  <2>2. QED BY <1>1, <2>1, PollStep
<1>5. CASE LookChanged
  <2>1. pc' = "read" /\ healthy' /\ UNCHANGED <<frame, pending>>
    BY <1>5 DEF LookChanged, Looking, StageInv
  <2>2. QED BY <1>5, <2>1 DEF StageInv, Bars, LookChanged, Looking
<1>6. CASE Read
  <2>1. pc \notin Busy /\ healthy = TRUE
        /\ NextFrame(Append(pending, [frame |-> Frames[frame], t |-> Closed(Frames[frame])]), gap)
    BY <1>1, <1>6 DEF Read, StageInv
  <2>2. QED BY <1>1, <2>1, PollStep
<1>7. CASE PollFails
  BY <1>7 DEF PollFails, StageInv, Bars
<1>8. CASE DispatchClosedBar
  BY <1>8, BusyStep DEF DispatchClosedBar, scheduler
<1>9. CASE SaveBear \/ SaveFails
  BY <1>9, BusyStep DEF SaveBear, SaveFails, Proceed
<1>10. CASE NoEntry \/ Decided \/ EvaluationFails
  BY <1>10, BusyStep DEF NoEntry, Decided, EvaluationFails, SideDone
<1>11. CASE Stop \/ Crash
  BY <1>11 DEF Stop, Crash, Ended, StageInv, Bars
<1>12. QED BY <1>2, <1>3, <1>4, <1>5, <1>6, <1>7, <1>8, <1>9, <1>10, <1>11 DEF Next

-----------------------------------------------------------------------------
(* The machines in memory and in the files.                                *)

\* A machine whose bars have all closed by time n.
Kept(b, n) ==
    /\ Sound(b) /\ WindowsHold(b)
    /\ \A f \in Frame : \A u \in b.bars[f] : u <= ClosedAt(n, f)

(* The windows hold wherever a machine is, every bar that is known has closed, and a *)
(* bar of the tick is not before one that the machine was fed.                       *)
MachineInv ==
    /\ Kept(bear, now)
    /\ \A i \in {0, 1} : Complete(slot[i]) => Kept(slot[i], now) /\ SlotFor(slot[i]) = i
    /\ OneSided(revised)
    /\ \A f \in Frame : latest[f] <= ClosedAt(now, f) /\ forming[f] <= ClosedAt(now, f)
    /\ pc = "read" => seen <= ClosedAt(now, Frames[frame])
    /\ \A i \in Bars : /\ pending[i].t <= ClosedAt(now, pending[i].frame)
                       /\ \A u \in bear.bars[pending[i].frame] : u <= pending[i].t

(* The last bar that closed is never one before. *)
LEMMA ClosedGrows ==
    ASSUME NEW n \in Time, NEW m \in {n, n + 1}, NEW f \in Frame
    PROVE  /\ ClosedAt(n, f) \in 0 .. n /\ ClosedAt(m, f) \in {ClosedAt(n, f), m}
           /\ ClosedAt(n, f) <= ClosedAt(m, f)
<1>1. n \in Nat
  BY DEF Time
<1>2. /\ ClosedAt(n, f) \in 0 .. n
      /\ ClosedAt(n + 1, f) \in {ClosedAt(n, f), n + 1}
  BY <1>1, NextClosed
<1>3. QED BY <1>1, <1>2

(* A machine that is kept stays so while time passes. *)
LEMMA KeptLater ==
    ASSUME NEW n \in Time, NEW m \in {n, n + 1}, NEW b, Kept(b, n)
    PROVE  Kept(b, m)
<1>1. ASSUME NEW f \in Frame, NEW u \in b.bars[f]
      PROVE  u <= ClosedAt(m, f)
  <2>1. u \in Nat /\ n \in Nat
    BY DEF Kept, Sound, Machine, Time
  <2>2. u <= ClosedAt(n, f)
    BY DEF Kept
  <2>3. QED BY <2>1, <2>2, ClosedGrows
<1>2. QED BY <1>1 DEF Kept

LEMMA InitMachines == StageInv /\ Init => MachineInv
<1> SUFFICES ASSUME StageInv, Init PROVE MachineInv
  OBVIOUS
<1>1. \A f \in Frame : ClosedAt(now, f) \in Nat
  BY ClosedGrows DEF StageInv, TypeOK
<1>2. \A f \in Frame : None[f] <= ClosedAt(now, f)
  BY <1>1 DEF None
<1>3. Kept(Empty, now) /\ \A i \in {0, 1} : Kept(Old(i), now) /\ SlotFor(Old(i)) = i
  BY EmptyFacts DEF Kept, WindowsHold
<1>4. \A i \in {0, 1} : Complete(slot[i]) => Kept(slot[i], now) /\ SlotFor(slot[i]) = i
  <2>1. CASE slot = [i \in {0, 1} |-> Missing]
    BY <2>1, ReadableFiles DEF StageInv, TypeOK, Slots
  <2>2. CASE slot = [i \in {0, 1} |-> Old(i)]
    BY <2>2, <1>3
  <2>3. QED BY <2>1, <2>2 DEF Init
<1>5. OneSided(revised)
  BY DEF Init, Fresh, OneSided, Side
<1>6. bear = Empty /\ latest = None /\ forming = None /\ pc = "down" /\ Bars = {}
  BY DEF Init, Bars
<1>7. QED BY <1>2, <1>3, <1>4, <1>5, <1>6 DEF MachineInv

(* The files after a save, and after one that did not reach the disk. *)
LEMMA SavedFiles ==
    ASSUME StageInv, MachineInv, slot' \in {slot, Written(bear), Cut(bear)}, now' = now
    PROVE  \A i \in {0, 1} : Complete(slot'[i]) => Kept(slot'[i], now') /\ SlotFor(slot'[i]) = i
<1>1. slot \in Slots /\ bear \in Machine /\ TypeOK /\ Kept(bear, now)
  BY DEF StageInv, TypeOK, Slots, MachineInv
<1>2. SlotFor(bear) \in {0, 1}
  BY <1>1 DEF SlotFor, Machine
<1>3. \A i \in {0, 1} : slot'[i] \in {slot[i], Torn} \/ (slot'[i] = bear /\ i = SlotFor(bear))
  BY <1>1, <1>2 DEF Written, Cut, Slots
<1>4. ~Complete(Torn)
  BY <1>1, ReadableFiles
<1>5. ASSUME NEW i \in {0, 1}, Complete(slot'[i])
      PROVE  Kept(slot'[i], now') /\ SlotFor(slot'[i]) = i
  BY <1>1, <1>3, <1>4, <1>5 DEF MachineInv
<1>6. QED BY <1>5

(* What is left alone while the expert works. *)
LEMMA FilesStay ==
    ASSUME StageInv, MachineInv, slot' = slot, now' \in {now, now + 1}
    PROVE  \A i \in {0, 1} : Complete(slot'[i]) => Kept(slot'[i], now') /\ SlotFor(slot'[i]) = i
BY KeptLater DEF StageInv, TypeOK, MachineInv

(* The bars of the tick still to be done, seen from the machine b at time n. *)
Waiting(bars, b, n) ==
    \A i \in DOMAIN bars : /\ bars[i].t <= ClosedAt(n, bars[i].frame)
                         /\ \A u \in b.bars[bars[i].frame] : u <= bars[i].t

(* A bar that is done leaves the others as they were. *)
LEMMA NextBarWaiting ==
    ASSUME StageInv, MachineInv, pc \in Busy, NextBar \/ UNCHANGED pending
    PROVE  Waiting(pending', bear, now)
<1>1. pending \in Seq(BarType) /\ pending # <<>>
  BY DEF StageInv, TypeOK, BarType
<1>2. \A i \in DOMAIN pending' : \E j \in DOMAIN pending : pending'[i] = pending[j]
  BY <1>1, NextBarFacts DEF Bars
<1>3. QED BY <1>2 DEF MachineInv, Waiting, Bars

(* A step that touches neither the machine nor its files keeps what holds of them. *)
LEMMA MachineStays ==
    ASSUME StageInv, MachineInv, UNCHANGED <<bear, slot>>, now' \in {now, now + 1},
           OneSided(revised'), Waiting(pending', bear, now'),
           \A f \in Frame : /\ latest'[f] <= ClosedAt(now', f)
                           /\ forming'[f] <= ClosedAt(now', f),
           pc' = "read" => seen' <= ClosedAt(now', Frames[frame'])
    PROVE  MachineInv'
<1>1. Kept(bear', now')
  BY KeptLater DEF StageInv, TypeOK, MachineInv
<1>2. \A i \in {0, 1} : Complete(slot'[i]) => Kept(slot'[i], now') /\ SlotFor(slot'[i]) = i
  BY FilesStay
<1>3. QED BY <1>1, <1>2 DEF MachineInv, Waiting, Bars

LEMMA ClockMachines ==
    ASSUME StageInv, MachineInv, BarCloses \/ UNCHANGED vars
    PROVE  MachineInv'
<1>1. now' \in {now, now + 1} /\ UNCHANGED <<pc, frame, seen, pending, forming, latest, bear, slot, revised>>
  BY DEF BarCloses, vars, scheduler, history
<1>2. /\ now \in Time /\ frame \in 1 .. 4 /\ Frames[frame] \in Frame
      /\ pending \in Seq(BarType) /\ seen \in Nat
      /\ \A f \in Frame : latest[f] \in Nat /\ forming[f] \in Nat
  BY Types DEF StageInv
<1>3. \A f \in Frame : ClosedAt(now, f) <= ClosedAt(now', f) /\ ClosedAt(now, f) \in Nat /\ ClosedAt(now', f) \in Nat
  <2> SUFFICES ASSUME NEW f \in Frame
               PROVE  /\ ClosedAt(now, f) <= ClosedAt(now', f)
                      /\ ClosedAt(now, f) \in Nat /\ ClosedAt(now', f) \in Nat
    OBVIOUS
  <2>1. /\ ClosedAt(now, f) \in 0 .. now /\ ClosedAt(now', f) \in {ClosedAt(now, f), now'}
        /\ ClosedAt(now, f) <= ClosedAt(now', f)
    BY <1>1, <1>2, ClosedGrows
  <2>2. QED BY <1>1, <1>2, <2>1 DEF Time
<1>4. \A f \in Frame : latest'[f] <= ClosedAt(now', f) /\ forming'[f] <= ClosedAt(now', f)
  BY <1>1, <1>2, <1>3 DEF MachineInv
<1>5. pc' = "read" => seen' <= ClosedAt(now', Frames[frame'])
  BY <1>1, <1>2, <1>3 DEF MachineInv
<1>6. ASSUME NEW i \in DOMAIN pending'
      PROVE  /\ pending'[i].t <= ClosedAt(now', pending'[i].frame)
             /\ \A u \in bear.bars[pending'[i].frame] : u <= pending'[i].t
  <2>1. i \in DOMAIN pending /\ pending'[i] = pending[i]
    BY <1>1
  <2>2. pending[i] \in BarType
    BY <1>2, <2>1
  <2>3. pending[i].frame \in Frame /\ pending[i].t \in Nat
    BY <2>2 DEF BarType, Time
  <2>4. QED BY <1>3, <2>1, <2>3 DEF MachineInv, Bars
<1>7. OneSided(revised')
  BY <1>1 DEF MachineInv
<1>8. QED BY <1>1, <1>4, <1>5, <1>6, <1>7, MachineStays DEF Waiting

LEMMA StartMachines ==
    ASSUME StageInv, MachineInv, Warmup \/ InitScheduler \/ LoadBear \/ RefuseStart
    PROVE  MachineInv'
<1>1. now' = now /\ TypeOK /\ pending' = <<>> /\ pc' # "read"
  BY DEF StageInv, Polling, Busy, Side, Warmup, InitScheduler, LoadBear, RefuseStart,
         scheduler, history
<1>2. \A f \in Frame : Closed(f) = ClosedAt(now, f) /\ ClosedAt(now, f) \in Nat
  BY <1>1, ClosedFacts, Types
<1>3. Waiting(pending', bear, now') /\ Waiting(pending', bear', now')
  BY <1>1 DEF Waiting
<1>4. CASE Warmup \/ InitScheduler \/ RefuseStart
  <2>1. UNCHANGED <<bear, slot>>
    BY <1>4 DEF Warmup, InitScheduler, RefuseStart
  <2>2. \A f \in Frame : latest'[f] <= ClosedAt(now', f) /\ forming'[f] <= ClosedAt(now', f)
    BY <1>1, <1>2, <1>4 DEF Warmup, InitScheduler, RefuseStart, scheduler, MachineInv
  <2>3. OneSided(revised')
    BY <1>4 DEF Warmup, InitScheduler, RefuseStart, Fresh, OneSided, Side, MachineInv
  <2>4. QED BY <1>1, <1>3, <2>1, <2>2, <2>3, MachineStays
<1>5. CASE LoadBear
  <2>1. slot \in Slots /\ latest \in [Frame -> Time] /\ revised \in Detector
    BY <1>1, Types
  <2>2. Kept(Seeded, now)
    BY <1>2, <2>1, SeededFacts DEF Kept, WindowsHold, MachineInv
  <2>3. Kept(bear', now')
    BY <1>1, <1>5, <2>1, <2>2, LoadedFacts DEF LoadBear, MachineInv
  <2>4. OneSided(revised')
    BY <1>5, <2>1, SeedFacts DEF LoadBear, OneSided, MachineInv
  <2>5. \A i \in {0, 1} : Complete(slot'[i]) => Kept(slot'[i], now') /\ SlotFor(slot'[i]) = i
    BY <1>1, <1>5, FilesStay DEF LoadBear
  <2>6. QED BY <1>1, <1>3, <1>5, <2>3, <2>4, <2>5
            DEF LoadBear, scheduler, MachineInv, OneSided, Waiting, Bars
<1>6. QED BY <1>4, <1>5

(* A poll: what is read has closed, and is not before anything the machine was fed. *)
LEMMA PollMachines ==
    ASSUME StageInv, MachineInv, LookUnchanged \/ LookChanged \/ Read \/ PollFails
    PROVE  MachineInv'
<1>1. UNCHANGED <<now, bear, slot, revised, latest>>
  BY DEF LookUnchanged, LookChanged, Read, PollFails, history
<1>2. /\ TypeOK /\ frame \in 1 .. 4 /\ Frames[frame] \in Frame /\ gap \in BOOLEAN
      /\ pending \in Seq(BarType) /\ forming \in [Frame -> Time] /\ healthy \in BOOLEAN
  BY Types DEF StageInv, TypeOK
<1>3. \A f \in Frame : Closed(f) = ClosedAt(now, f) /\ ClosedAt(now, f) \in Nat
  BY <1>2, ClosedFacts, Types
<1>4. Waiting(pending, bear, now) /\ Waiting(<<>>, bear, now)
  BY DEF Waiting, MachineInv, Bars
<1> DEFINE f == Frames[frame]
           bars == Append(pending, [frame |-> f, t |-> Closed(f)])
<1>5. Waiting(bars, bear, now)
  <2> SUFFICES ASSUME NEW i \in DOMAIN bars
               PROVE  /\ bars[i].t <= ClosedAt(now, bars[i].frame)
                      /\ \A u \in bear.bars[bars[i].frame] : u <= bars[i].t
    BY DEF Waiting
  <2>1. CASE i \in DOMAIN pending
    <3>1. bars[i] = pending[i]
      BY <1>2, <2>1
    <3>2. QED BY <1>4, <2>1, <3>1 DEF Waiting
  <2>2. CASE i = Len(pending) + 1
    <3>1. bars[i].frame = f /\ bars[i].t = ClosedAt(now, f)
      BY <1>2, <1>3, <2>2
    <3>2. \A u \in bear.bars[f] : u <= ClosedAt(now, f)
      BY <1>2 DEF MachineInv, Kept
    <3> HIDE DEF f, bars
    <3>3. ClosedAt(now, f) \in Nat
      BY <1>2, <1>3 DEF f
    <3>4. QED BY <3>1, <3>2, <3>3
  <2>3. QED BY <1>2, <2>1, <2>2
<1>6. pending' \in {pending, <<>>, bars}
  <2>1. CASE LookUnchanged
    BY <1>2, <2>1, NextFrameType DEF LookUnchanged
  <2>2. CASE Read
    BY <1>2, <2>2, NextFrameType DEF Read
  <2>3. QED BY <2>1, <2>2 DEF LookChanged, PollFails
<1>7. Waiting(pending', bear, now')
  BY <1>1, <1>4, <1>5, <1>6
<1>8. \A g \in Frame : latest'[g] <= ClosedAt(now', g) /\ forming'[g] <= ClosedAt(now', g)
  <2>1. CASE Read
    BY <1>1, <1>2, <2>1 DEF Read, MachineInv
  <2>2. CASE ~Read
    BY <1>1, <2>2 DEF LookUnchanged, LookChanged, PollFails, MachineInv
  <2>3. QED BY <2>1, <2>2
<1>9. pc' = "read" => seen' <= ClosedAt(now', Frames[frame'])
  <2>1. CASE LookChanged
    BY <1>1, <1>2, <1>3, <2>1 DEF LookChanged
  <2>2. CASE LookUnchanged
    BY <1>2, <2>2, NextFrameType DEF LookUnchanged
  <2>3. CASE Read
    BY <1>2, <2>3, NextFrameType DEF Read
  <2>4. QED BY <2>1, <2>2, <2>3 DEF PollFails
<1>10. OneSided(revised')
  BY <1>1 DEF MachineInv
<1>11. QED BY <1>1, <1>7, <1>8, <1>9, <1>10, MachineStays

(* A bar is dispatched: of the tick's bars only this one is of its frame. *)
LEMMA DispatchMachines ==
    ASSUME StageInv, MachineInv, DispatchClosedBar
    PROVE  MachineInv'
<1>1. /\ TypeOK /\ pending \in Seq(BarType) /\ pending # <<>> /\ latest \in [Frame -> Time]
      /\ bear \in Machine /\ Kept(bear, now) /\ now \in Time
  BY Types DEF StageInv, Busy, DispatchClosedBar, MachineInv
<1>2. /\ Bar = pending[1] /\ 1 \in DOMAIN pending /\ Bar \in BarType
      /\ Bar.frame \in Frame /\ Bar.t \in Nat
  BY <1>1, HeadIsABar, Types DEF Bars
<1>3. /\ UNCHANGED <<now, frame, seen, gap, pending, forming, slot, revised>> /\ pc' # "read"
      /\ latest' = [latest EXCEPT ![Bar.frame] = Larger(@, Bar.t)]
      /\ bear' \in OnBarClose(bear, Bar)
  BY DEF DispatchClosedBar, scheduler, history
<1>4. Bar.t <= ClosedAt(now, Bar.frame) /\ \A u \in bear.bars[Bar.frame] : u <= Bar.t
  BY <1>2 DEF MachineInv, Bars
<1>5. /\ Sound(bear') /\ WindowsHold(bear') /\ bear.bars \in [Frame -> SUBSET Time]
      /\ bear'.bars \in {bear.bars, [bear.bars EXCEPT ![Bar.frame] = @ \cup {Bar.t}]}
  BY <1>1, <1>2, <1>3, OnBarCloseFacts DEF Kept, Machine
<1>6. \A f \in Frame : \A u \in bear'.bars[f] : u \in bear.bars[f] \/ (f = Bar.frame /\ u = Bar.t)
  BY <1>2, <1>5
<1>7. Kept(bear', now')
  BY <1>1, <1>3, <1>4, <1>5, <1>6 DEF Kept
<1>8. \A f \in Frame : latest'[f] <= ClosedAt(now', f) /\ forming'[f] <= ClosedAt(now', f)
  BY <1>1, <1>2, <1>3, <1>4 DEF Larger, MachineInv
<1>9. ASSUME NEW i \in DOMAIN pending
      PROVE  /\ pending[i].t <= ClosedAt(now, pending[i].frame)
             /\ \A u \in bear'.bars[pending[i].frame] : u <= pending[i].t
  <2>1. pending[i] \in BarType /\ 1 \in DOMAIN pending
    BY <1>1, <1>2 DEF Bars
  <2>2. pending[i].frame \in Frame
    BY <2>1 DEF BarType
  <2>3. pending[i].frame = Bar.frame => pending[i] = Bar
    BY <1>2, <2>1 DEF StageInv, Bars
  <2>4. QED BY <1>2, <1>4, <1>6, <2>2, <2>3 DEF MachineInv, Bars
<1>10. \A i \in {0, 1} : Complete(slot'[i]) => Kept(slot'[i], now') /\ SlotFor(slot'[i]) = i
  BY <1>3, FilesStay
<1>11. QED BY <1>3, <1>7, <1>8, <1>9, <1>10 DEF MachineInv, Bars, OneSided

LEMMA SaveMachines ==
    ASSUME StageInv, MachineInv, SaveBear \/ SaveFails
    PROVE  MachineInv'
<1>1. /\ UNCHANGED <<now, frame, seen, forming, latest, bear, revised>>
      /\ slot' \in {slot, Written(bear), Cut(bear)} /\ pc = "save"
      /\ NextBar \/ (UNCHANGED pending /\ pc' = "BUY")
  BY DEF SaveBear, SaveFails, Proceed
<1>2. pc' # "read"
  BY <1>1 DEF NextBar
<1>3. \A i \in {0, 1} : Complete(slot'[i]) => Kept(slot'[i], now') /\ SlotFor(slot'[i]) = i
  BY <1>1, SavedFiles
<1>4. Waiting(pending', bear', now')
  BY <1>1, NextBarWaiting DEF Busy
<1>5. QED BY <1>1, <1>2, <1>3, <1>4 DEF MachineInv, Waiting, Bars, OneSided

LEMMA SideMachines ==
    ASSUME StageInv, MachineInv, NoEntry \/ Decided \/ EvaluationFails
    PROVE  MachineInv'
<1>1. /\ UNCHANGED <<now, frame, seen, forming, latest, bear, slot>> /\ pc \in Side
      /\ NextBar \/ (UNCHANGED pending /\ pc' = "SELL")
  BY DEF NoEntry, Decided, EvaluationFails, SideDone
<1>2. pc' # "read"
  BY <1>1 DEF NextBar
<1>3. Waiting(pending', bear', now')
  BY <1>1, NextBarWaiting DEF Busy
<1>4. OneSided(revised')
  <2>1. PICK r \in Classify(revised) :
             revised' \in {r, [r EXCEPT !.watch[pc] = 0], Consume(r, pc)}
    BY DEF NoEntry, Decided, EvaluationFails
  <2>2. r \in Detector /\ OneSided(r)
    BY ClassifyFacts, Types DEF StageInv, MachineInv
  <2>3. r.watch \in [Side -> Time]
    BY <2>2 DEF Detector
  <2>4. revised'.watch \in {r.watch, [r.watch EXCEPT ![pc] = 0]}
    BY <1>1, <2>1, <2>2, EndFacts
  <2>5. QED BY <1>1, <2>2, <2>3, <2>4 DEF OneSided
<1>5. \A i \in {0, 1} : Complete(slot'[i]) => Kept(slot'[i], now') /\ SlotFor(slot'[i]) = i
  BY <1>1, FilesStay
<1>6. QED BY <1>1, <1>2, <1>3, <1>4, <1>5 DEF MachineInv, Waiting, Bars, OneSided

LEMMA EndMachines ==
    ASSUME StageInv, MachineInv, Stop \/ Crash
    PROVE  MachineInv'
<1>1. /\ now' = now /\ pc' = "down" /\ bear' = Empty /\ pending' = <<>>
      /\ forming' = None /\ latest' = None /\ revised' \in {revised, Fresh}
      /\ slot' \in {slot, Written(bear), Cut(bear)}
  BY DEF Stop, Crash, Ended
<1>2. \A f \in Frame : None[f] = 0 /\ 0 <= ClosedAt(now, f)
  BY ClosedGrows, Types DEF None, StageInv
<1>3. OneSided(revised')
  BY <1>1 DEF Fresh, OneSided, Side, MachineInv
<1>4. Kept(Empty, now)
  BY EmptyFacts DEF Kept, WindowsHold
<1>5. \A i \in {0, 1} : Complete(slot'[i]) => Kept(slot'[i], now') /\ SlotFor(slot'[i]) = i
  BY <1>1, SavedFiles
<1>6. QED BY <1>1, <1>2, <1>3, <1>4, <1>5 DEF MachineInv, Bars, OneSided

LEMMA MachineStep == StageInv /\ MachineInv /\ [Next]_vars => MachineInv'
BY ClockMachines, StartMachines, PollMachines, DispatchMachines, SaveMachines, SideMachines,
   EndMachines DEF Next

(* A bar of the tick is not before the cursor of its frame. *)
LEMMA NothingIsBeforeCursor == StageInv /\ MachineInv => NothingBeforeCursor
<1> SUFFICES ASSUME StageInv, MachineInv, NEW i \in DOMAIN pending
             PROVE  pending[i].t >= Cursor(bear, pending[i].frame)
  BY DEF NothingBeforeCursor
<1>1. pending[i].frame \in Frame /\ pending[i].t \in Nat
  <2>1. pending \in Seq(BarType)
    BY Types DEF StageInv
  <2>2. pending[i] \in BarType
    BY <2>1
  <2>3. QED BY <2>2 DEF BarType, Time
<1>2. HasNewest(bear.bars[pending[i].frame])
  BY <1>1 DEF MachineInv, Kept, Sound
<1>3. Cursor(bear, pending[i].frame) \in bear.bars[pending[i].frame] \cup {0}
  BY <1>2, CursorIsABar
<1>4. \A u \in bear.bars[pending[i].frame] : u <= pending[i].t /\ u \in Nat
  BY <1>1, Types DEF MachineInv, Bars, StageInv, Machine
<1>5. QED BY <1>1, <1>3, <1>4

LEMMA SafeStep ==
    /\ Init => StageInv /\ MachineInv
    /\ StageInv /\ MachineInv /\ [Next]_vars => (StageInv /\ MachineInv)'
<1>1. Init => StageInv /\ MachineInv
  BY InitStage, InitMachines
<1>2. ASSUME StageInv, MachineInv, [Next]_vars PROVE TypeOK'
  BY <1>2, TypeStep DEF MachineInv, Kept, Sound
<1>3. QED BY <1>1, <1>2, StageStep, MachineStep

(* The inductive invariant of scheduler, machine and files. *)
LEMMA SafeInvariant == Spec => [](StageInv /\ MachineInv)
BY SafeStep, PTL DEF Spec

(* SignalInv holds for all periods, windows and bounds: the windows are kept in memory and *)
(* in both files, no bar is fed before the cursor, and only one side is watched.           *)
THEOREM SignalInvariant == Spec => []SignalInv
<1>1. StageInv /\ MachineInv => SignalInv
  BY NothingIsBeforeCursor DEF StageInv, MachineInv, SignalInv, Kept, OneSided
<1>2. QED BY <1>1, SafeInvariant, PTL

-----------------------------------------------------------------------------
(* The order in which bars are dispatched.                                 *)

\* The first of the tick's bars that the histories have not.
FirstDue(stage) == IF stage \in {"save"} \cup Side THEN 2 ELSE 1

\* A bar that is due is the next of its frame, and no other is missing.
InOrder(bars, first, known, last) ==
    /\ \A i \in DOMAIN bars : first <= i =>
          LET f == bars[i].frame
          IN  bars[i].t = known[f] /\ known[f] = last[f] + Period[f]
    /\ \A f \in Frame : (\A i \in DOMAIN bars : first <= i => bars[i].frame # f)
                        => known[f] = last[f]

(* Until the first hole or late bar, what was polled is what the histories lack. *)
OrderInv ==
    /\ (pc = "loading" /\ ~late) => InOrder(<<>>, 1, forming, latest)
    /\ (pc \in {"idle"} \cup Polling \cup Busy /\ ~late /\ ~gap /\ (pc = "idle" => healthy)) =>
          /\ InOrder(pending, FirstDue(pc), forming, latest)
          /\ pc = "read" => seen = forming[Frames[frame]] + Period[Frames[frame]]

(* The poll of a frame leaves the order of what it collected. *)
LEMMA PollOrder ==
    ASSUME frame \in 1 .. 4, NEW bars, NEW hole \in BOOLEAN, NextFrame(bars, hole),
           ~hole => InOrder(bars, 1, forming', latest')
    PROVE  /\ pc' \in {"look", "idle", "dispatch"}
           /\ ~gap' /\ (pc' = "idle" => healthy') => InOrder(pending', FirstDue(pc'), forming', latest')
<1>1. CASE /\ frame # 4 /\ frame' = frame + 1 /\ gap' = hole /\ pending' = bars
           /\ pc' = "look" /\ healthy' = healthy
  BY <1>1 DEF FirstDue, Side
<1>2. CASE /\ frame = 4 /\ frame' = 1 /\ gap' = FALSE /\ pending' = <<>> /\ pc' = "idle"
           /\ hole = FALSE => bars = <<>> /\ healthy' = (healthy /\ TRUE)
           /\ hole = TRUE => healthy' = FALSE
  BY <1>2 DEF FirstDue, Side
<1>3. CASE /\ frame = 4 /\ frame' = 1 /\ gap' = FALSE /\ pending' = bars /\ pc' = "dispatch"
           /\ hole = FALSE /\ bars # <<>>
  BY <1>3 DEF FirstDue, Side
<1>4. QED BY <1>1, <1>2, <1>3, NextFrameFacts

(* The next bar of a frame that has none in the tick yet. *)
LEMMA AppendOrder ==
    ASSUME NEW bars \in Seq(BarType), NEW known \in [Frame -> Time], NEW last \in [Frame -> Time],
           NEW f \in Frame, NEW t \in Time,
           InOrder(bars, 1, known, last), \A i \in DOMAIN bars : bars[i].frame # f,
           t = known[f] + Period[f]
    PROVE  InOrder(Append(bars, [frame |-> f, t |-> t]), 1, [known EXCEPT ![f] = t], last)
<1> DEFINE more == Append(bars, [frame |-> f, t |-> t])
           n == Len(bars)
           next == [known EXCEPT ![f] = t]
<1>1. /\ n \in Nat /\ DOMAIN bars = 1 .. n /\ DOMAIN more = 1 .. (n + 1)
      /\ \A i \in 1 .. n : more[i] = bars[i] /\ bars[i] \in BarType
      /\ more[n + 1].frame = f /\ more[n + 1].t = t
  OBVIOUS
<1>2. next[f] = t /\ \A g \in Frame : g # f => next[g] = known[g]
  OBVIOUS
<1> HIDE DEF more, n, next
<1>3. known[f] = last[f]
  BY DEF InOrder
<1>4. ASSUME NEW i \in DOMAIN more
      PROVE  /\ more[i].t = next[more[i].frame]
             /\ next[more[i].frame] = last[more[i].frame] + Period[more[i].frame]
  <2>1. CASE i = n + 1
    BY <1>1, <1>2, <1>3, <2>1
  <2>2. CASE i \in 1 .. n
    <3>1. more[i] = bars[i] /\ bars[i].frame \in Frame /\ bars[i].frame # f /\ 1 <= i
      BY <1>1, <2>2 DEF BarType
    <3>2. /\ bars[i].t = known[bars[i].frame]
          /\ known[bars[i].frame] = last[bars[i].frame] + Period[bars[i].frame]
      BY <1>1, <2>2, <3>1 DEF InOrder
    <3>3. QED BY <1>2, <3>1, <3>2
  <2>3. QED BY <1>1, <2>1, <2>2
<1>5. ASSUME NEW g \in Frame, \A i \in DOMAIN more : 1 <= i => more[i].frame # g
      PROVE  next[g] = last[g]
  <2>1. g # f
    BY <1>1, <1>5
  <2>2. \A i \in DOMAIN bars : 1 <= i => bars[i].frame # g
    BY <1>1, <1>5
  <2>3. known[g] = last[g]
    BY <2>2 DEF InOrder
  <2>4. QED BY <1>2, <2>1, <2>3
<1>6. InOrder(more, 1, next, last)
  BY <1>4, <1>5 DEF InOrder
<1>7. QED BY <1>6 DEF more, next

(* The first bar of the tick reaches its history. *)
LEMMA FirstOrder ==
    ASSUME NEW bars \in Seq(BarType), bars # <<>>, NEW known \in [Frame -> Time],
           NEW last \in [Frame -> Time], InOrder(bars, 1, known, last),
           \A i, j \in DOMAIN bars : bars[i].frame = bars[j].frame => i = j
    PROVE  /\ bars[1].t = last[bars[1].frame] + Period[bars[1].frame]
           /\ InOrder(bars, 2, known, [last EXCEPT ![bars[1].frame] = Larger(@, bars[1].t)])
<1> DEFINE f == bars[1].frame
           after == [last EXCEPT ![f] = Larger(@, bars[1].t)]
<1>1. 1 \in DOMAIN bars /\ bars[1] \in BarType /\ DOMAIN bars \subseteq Nat
      /\ \A i \in DOMAIN bars : 1 <= i /\ (i # 1 => 2 <= i)
  OBVIOUS
<1>2. f \in Frame /\ bars[1].t \in Nat /\ last[f] \in Nat /\ Period[f] \in Nat \ {0}
  BY <1>1, PeriodAssumption DEF BarType, Time
<1>3. bars[1].t = known[f] /\ known[f] = last[f] + Period[f]
  BY <1>1 DEF InOrder
<1>4. after[f] = known[f] /\ \A g \in Frame : g # f => after[g] = last[g]
  BY <1>2, <1>3 DEF Larger
<1> HIDE DEF after, f
<1>5. ASSUME NEW i \in DOMAIN bars, 2 <= i
      PROVE  /\ bars[i].t = known[bars[i].frame]
             /\ known[bars[i].frame] = after[bars[i].frame] + Period[bars[i].frame]
  <2>1. bars[i].frame # f /\ 1 <= i
    BY <1>1, <1>5 DEF f
  <2>2. bars[i] \in BarType
    OBVIOUS
  <2>3. bars[i].frame \in Frame
    BY <2>2 DEF BarType
  <2>4. QED BY <1>4, <2>1, <2>3 DEF InOrder
<1>6. ASSUME NEW g \in Frame, \A i \in DOMAIN bars : 2 <= i => bars[i].frame # g
      PROVE  known[g] = after[g]
  <2>1. CASE g = f
    BY <1>4, <2>1
  <2>2. CASE g # f
    <3>1. \A i \in DOMAIN bars : 1 <= i => bars[i].frame # g
      BY <1>1, <1>6, <2>2 DEF f
    <3>2. known[g] = last[g]
      BY <3>1 DEF InOrder
    <3>3. QED BY <1>4, <2>2, <3>2
  <2>3. QED BY <2>1, <2>2
<1>7. InOrder(bars, 2, known, after)
  BY <1>5, <1>6 DEF InOrder
<1>8. QED BY <1>3, <1>7 DEF after, f

(* The loop goes on to the next bar. *)
LEMMA TailOrder ==
    ASSUME NEW bars \in Seq(BarType), bars # <<>>, NEW known, NEW last,
           InOrder(bars, 2, known, last)
    PROVE  InOrder(Tail(bars), 1, known, last)
<1>1. /\ DOMAIN bars = 1 .. Len(bars) /\ Len(bars) \in Nat
      /\ DOMAIN Tail(bars) = 1 .. (Len(bars) - 1)
      /\ \A i \in DOMAIN Tail(bars) : /\ i + 1 \in DOMAIN bars /\ 2 <= i + 1
                                      /\ Tail(bars)[i] = bars[i + 1]
  OBVIOUS
<1>2. ASSUME NEW f \in Frame, \A i \in DOMAIN Tail(bars) : 1 <= i => Tail(bars)[i].frame # f
      PROVE  known[f] = last[f]
  <2>1. ASSUME NEW i \in DOMAIN bars, 2 <= i
        PROVE  bars[i].frame # f
    <3>1. i - 1 \in DOMAIN Tail(bars) /\ 1 <= i - 1 /\ Tail(bars)[i - 1] = bars[i]
      BY <1>1, <2>1
    <3>2. QED BY <1>2, <3>1
  <2>2. QED BY <2>1 DEF InOrder
<1>3. QED BY <1>1, <1>2 DEF InOrder

LEMMA InitOrder == Init => OrderInv
BY DEF Init, OrderInv, Polling, Busy, Side

LEMMA StartOrder ==
    ASSUME StageInv, OrderInv, Warmup \/ InitScheduler \/ LoadBear \/ RefuseStart
    PROVE  OrderInv'
<1>1. CASE Warmup \/ RefuseStart
  BY <1>1 DEF Warmup, RefuseStart, OrderInv, Polling, Busy, Side
<1>2. CASE InitScheduler
  <2>1. pc' = "loading" /\ latest' = latest
    BY <1>2 DEF InitScheduler
  <2>2. ~late' => forming' = latest'
    BY <1>2, <2>1, Zenon DEF InitScheduler
  <2>3. InOrder(<<>>, 1, latest, latest)
    BY DEF InOrder
  <2>4. ~late' => InOrder(<<>>, 1, forming', latest')
    BY <2>1, <2>2, <2>3
  <2>5. QED BY <2>1, <2>4 DEF OrderInv, Polling, Busy, Side
<1>3. CASE LoadBear
  <2>1. /\ pc = "loading" /\ pc' = "idle" /\ late' = late /\ forming' = forming
        /\ latest' = latest /\ pending' = pending
    BY <1>3 DEF LoadBear, scheduler
  <2>2. pending = <<>>
    BY <2>1 DEF StageInv, Polling, Busy, Side
  <2>3. QED BY <2>1, <2>2 DEF OrderInv, FirstDue, Side
<1>4. QED BY <1>1, <1>2, <1>3

LEMMA LookOrder ==
    ASSUME StageInv, OrderInv, LookUnchanged \/ LookChanged \/ PollFails
    PROVE  OrderInv'
<1>1. /\ frame \in 1 .. 4 /\ gap \in BOOLEAN /\ Frames[frame] \in Frame
      /\ forming \in [Frame -> Time] /\ now \in Time
  BY Types DEF StageInv, TypeOK
<1>2. CASE PollFails
  BY <1>2 DEF PollFails, OrderInv, Polling, Busy, Side
<1>3. CASE LookUnchanged \/ LookChanged
  <2>1. ~late /\ ~gap => InOrder(pending, 1, forming, latest)
    BY <1>3 DEF LookUnchanged, LookChanged, Looking, OrderInv, Polling, FirstDue, Side
  <2>2. UNCHANGED <<forming, latest, late>>
    BY <1>3 DEF LookUnchanged, LookChanged, history
  <2>3. CASE LookUnchanged
    <3>1. CASE late
      BY <2>2, <3>1, <2>3, <1>1, NextFrameType DEF LookUnchanged, OrderInv
    <3>2. CASE ~late
      <4>1. /\ pc' \in {"look", "idle", "dispatch"}
            /\ ~gap' /\ (pc' = "idle" => healthy')
               => InOrder(pending', FirstDue(pc'), forming', latest')
        BY <1>1, <2>1, <2>2, <2>3, <3>2, PollOrder DEF LookUnchanged
      <4>2. QED BY <4>1 DEF OrderInv
    <3>3. QED BY <3>1, <3>2
  <2>4. CASE LookChanged
    <3>1. /\ pc' = "read" /\ seen' = Closed(Frames[frame]) /\ UNCHANGED <<frame, pending>>
          /\ gap' = (gap \/ Skipped(Frames[frame]))
      BY <2>4 DEF LookChanged
    <3>2. ~gap' => ~gap /\ seen' = forming[Frames[frame]] + Period[Frames[frame]]
      BY <3>1 DEF Skipped
    <3>3. QED BY <2>1, <2>2, <3>1, <3>2 DEF OrderInv, FirstDue, Side
  <2>5. QED BY <1>3, <2>3, <2>4
<1>4. QED BY <1>2, <1>3

LEMMA ReadOrder ==
    ASSUME StageInv, OrderInv, Read
    PROVE  OrderInv'
<1> DEFINE f == Frames[frame]
           bars == Append(pending, [frame |-> f, t |-> Closed(f)])
<1>1. /\ frame \in 1 .. 4 /\ gap \in BOOLEAN /\ f \in Frame /\ pending \in Seq(BarType)
      /\ forming \in [Frame -> Time] /\ latest \in [Frame -> Time] /\ now \in Time
      /\ late \in BOOLEAN
  BY Types DEF StageInv, TypeOK
<1>2. /\ pc = "read" /\ forming' = [forming EXCEPT ![f] = seen] /\ latest' = latest
      /\ late' = (late \/ Closed(f) # seen) /\ NextFrame(bars, gap)
  BY DEF Read
<1>3. \A i \in DOMAIN pending : pending[i].frame # f
  <2> SUFFICES ASSUME NEW i \in DOMAIN pending PROVE pending[i].frame # f
    OBVIOUS
  <2>1. \E k \in 1 .. 4 : k < frame /\ pending[i].frame = Frames[k]
    BY <1>2, FrameFacts DEF StageInv, Busy, Side, Bars
  <2>2. QED BY <1>1, <2>1, FrameFacts
<1>4. Closed(f) \in Time
  BY <1>1, ClosedFacts
<1>5. ~late' /\ ~gap => InOrder(bars, 1, forming', latest')
  <2> SUFFICES ASSUME ~late', ~gap PROVE InOrder(bars, 1, forming', latest')
    OBVIOUS
  <2>1. ~late /\ Closed(f) = seen
    BY <1>1, <1>2
  <2>2. InOrder(pending, 1, forming, latest) /\ seen = forming[f] + Period[f]
    BY <1>2, <2>1 DEF OrderInv, Polling, FirstDue, Side
  <2> HIDE DEF f
  <2>3. InOrder(Append(pending, [frame |-> f, t |-> seen]), 1, [forming EXCEPT ![f] = seen], latest)
    BY <1>1, <1>3, <1>4, <2>1, <2>2, AppendOrder
  <2>4. QED BY <1>2, <2>1, <2>3
<1> HIDE DEF bars, f
<1>6. CASE late'
  <2>1. pc' \in {"look", "idle", "dispatch"}
    BY <1>1, <1>2, FrameFacts DEF NextFrame, Polled
  <2>2. QED BY <1>6, <2>1 DEF OrderInv
<1>7. CASE ~late'
  <2>1. /\ pc' \in {"look", "idle", "dispatch"}
        /\ ~gap' /\ (pc' = "idle" => healthy')
           => InOrder(pending', FirstDue(pc'), forming', latest')
    BY <1>1, <1>2, <1>5, <1>7, PollOrder
  <2>2. QED BY <2>1 DEF OrderInv
<1>8. QED BY <1>6, <1>7

(* What is dispatched is the next bar of its frame. *)
LEMMA DispatchOrder ==
    ASSUME StageInv, OrderInv, DispatchClosedBar
    PROVE  /\ OrderInv'
           /\ ~late => Bar.t = latest[Bar.frame] + Period[Bar.frame]
<1>1. /\ pc = "dispatch" /\ pc' = "save" /\ UNCHANGED <<gap, pending, forming, late>>
      /\ latest' = [latest EXCEPT ![Bar.frame] = Larger(@, Bar.t)]
  BY DEF DispatchClosedBar, scheduler, history
<1>2. /\ pending \in Seq(BarType) /\ pending # <<>> /\ gap = FALSE
      /\ forming \in [Frame -> Time] /\ latest \in [Frame -> Time]
      /\ \A i, j \in DOMAIN pending : pending[i].frame = pending[j].frame => i = j
  BY <1>1, Types DEF StageInv, Polling, Busy, Bars
<1>3. Bar = pending[1]
  BY <1>2, HeadIsABar
<1>4. ~late => InOrder(pending, 1, forming, latest)
  BY <1>1, <1>2 DEF OrderInv, Busy, FirstDue, Side
<1>5. ~late => /\ Bar.t = latest[Bar.frame] + Period[Bar.frame]
               /\ InOrder(pending, 2, forming, latest')
  BY <1>1, <1>2, <1>3, <1>4, FirstOrder
<1>6. QED BY <1>1, <1>5 DEF OrderInv, FirstDue, Side

(* After the save the bar is evaluated further, or the next one follows. *)
LEMMA BusyOrder ==
    ASSUME StageInv, OrderInv, SaveBear \/ SaveFails \/ NoEntry \/ Decided \/ EvaluationFails
    PROVE  OrderInv'
<1>1. /\ pc \in {"save"} \cup Side /\ UNCHANGED <<gap, forming, latest, late>>
      /\ NextBar \/ (UNCHANGED pending /\ pc' \in Side)
  BY DEF SaveBear, SaveFails, Proceed, NoEntry, Decided, EvaluationFails, SideDone, history, Side
<1>2. pending \in Seq(BarType) /\ pending # <<>> /\ gap = FALSE
  BY <1>1, Types DEF StageInv, Polling, Busy, Side
<1>3. ~late => InOrder(pending, 2, forming, latest)
  BY <1>1, <1>2 DEF OrderInv, Busy, FirstDue, Side
<1>4. CASE NextBar
  <2>1. pending' = Tail(pending) /\ pc' \in {"idle", "dispatch"}
    BY <1>4 DEF NextBar
  <2>2. ~late => InOrder(pending', 1, forming, latest)
    BY <1>2, <1>3, <2>1, TailOrder
  <2>3. QED BY <1>1, <2>1, <2>2 DEF OrderInv, FirstDue, Side
<1>5. CASE UNCHANGED pending /\ pc' \in Side
  BY <1>1, <1>3, <1>5 DEF OrderInv, FirstDue, Side
<1>6. QED BY <1>1, <1>4, <1>5

LEMMA OrderStep == StageInv /\ OrderInv /\ [Next]_vars => OrderInv'
<1> SUFFICES ASSUME StageInv, OrderInv, [Next]_vars PROVE OrderInv'
  OBVIOUS
<1>1. CASE UNCHANGED vars \/ BarCloses
  BY <1>1 DEF OrderInv, BarCloses, vars, scheduler, history
<1>2. CASE Stop \/ Crash
  BY <1>2 DEF Stop, Crash, Ended, OrderInv, Polling, Busy, Side
<1>3. QED BY <1>1, <1>2, StartOrder, LookOrder, ReadOrder, DispatchOrder, BusyOrder DEF Next

(* EveryBarOnce holds for all periods and any number of bars, stops and failures. *)
THEOREM BarsAreDispatchedInOrder == Spec => EveryBarOnce
<1>1. Init => OrderInv
  BY InitOrder
<1>2. StageInv /\ OrderInv /\ [Next]_vars => OrderInv'
  BY OrderStep
<1>3. StageInv /\ OrderInv /\ [Next]_vars =>
         [(pc = "dispatch" /\ pc' = "save" /\ ~late)
          => Bar.t = latest[Bar.frame] + Period[Bar.frame]]_vars
  <2> SUFFICES ASSUME StageInv, OrderInv, Next, pc = "dispatch", pc' = "save", ~late
               PROVE  Bar.t = latest[Bar.frame] + Period[Bar.frame]
    OBVIOUS
  <2>1. DispatchClosedBar
    BY DEF Next, BarCloses, Warmup, InitScheduler, LoadBear, RefuseStart, LookUnchanged,
           LookChanged, Looking, Read, PollFails, SaveBear, SaveFails, NoEntry, Decided,
           EvaluationFails, Side, Stop, Crash, Ended
  <2>2. QED BY <2>1, DispatchOrder
<1>4. QED BY <1>1, <1>2, <1>3, SafeInvariant, PTL DEF Spec, EveryBarOnce

-----------------------------------------------------------------------------
(* What a run may signal.                                                  *)

Up == {"idle"} \cup Polling \cup Busy

\* A setup of a run that was warmed up at time n.
Tradable(t, n, kept) == n < t \/ t \in kept

\* Since time n frame f has no new bar, or one that closed after it.
Elapsed(n, m) ==
    n <= m /\ \A f \in Frame : ClosedAt(m, f) = ClosedAt(n, f) \/ n < ClosedAt(m, f)

(* The bars polled, the histories and the open of the forming bars, since the warm-up. *)
HistoryInv ==
    /\ Elapsed(started, now)
    /\ pc \in {"warmed", "loading"} => \A f \in Frame : latest[f] = ClosedAt(started, f)
    /\ pc \in {"loading"} \cup Up => \A f \in Frame : ClosedAt(started, f) <= forming[f]
    /\ pc = "read" => forming[Frames[frame]] < seen
    /\ pc \in Up => /\ \A i \in Bars : started < pending[i].t
                    /\ \A f \in Frame : latest[f] = ClosedAt(started, f) \/ started < latest[f]

(* What is watched is of this run or was taken over by it, and the newest M5 bar of the *)
(* warm-up counts as classified, unless the run took over a watch.                      *)
WatchInv ==
    pc \in Up =>
      /\ bear.phase \in Watching => Tradable(bear.setup, started, inherited["BEAR"])
      /\ \A s \in Side : revised.watch[s] # 0 =>
            Tradable(revised.watch[s], started, inherited["REVISED"])
      /\ \/ ClosedAt(started, "M5") <= revised.classified
         \/ ClosedAt(started, "M5") \in inherited["REVISED"]

(* What has closed is counted in natural numbers. *)
LEMMA ClosedIsNatural ==
    ASSUME NEW n \in Time, NEW f \in Frame
    PROVE  ClosedAt(n, f) \in Nat
<1>1. n \in Nat
  BY DEF Time
<1>2. ClosedAt(n, f) \in 0 .. n
  BY <1>1, NextClosed
<1>3. QED BY <1>1, <1>2

LEMMA InitHistory == Init => HistoryInv /\ WatchInv
<1> SUFFICES ASSUME Init PROVE HistoryInv /\ WatchInv
  OBVIOUS
<1>1. now = 1 /\ started = 0 /\ pc = "down"
  BY DEF Init
<1>2. \A f \in Frame : ClosedAt(0, f) = 0 /\ ClosedAt(1, f) \in 0 .. 1
  BY NextClosed
<1>3. Elapsed(0, 1)
  BY <1>2 DEF Elapsed
<1>4. QED BY <1>1, <1>3 DEF HistoryInv, WatchInv, Up, Polling, Busy, Side

LEMMA ClockHistory ==
    ASSUME StageInv, HistoryInv, BarCloses
    PROVE  HistoryInv'
<1>1. /\ now \in Time /\ started \in Nat /\ now \in Nat /\ now' = now + 1
      /\ UNCHANGED <<pc, frame, seen, pending, forming, latest, started>>
  BY Types DEF StageInv, BarCloses, scheduler, history
<1>2. Elapsed(started, now')
  <2>1. \A f \in Frame : ClosedAt(now', f) \in {ClosedAt(now, f), now + 1}
    BY <1>1, NextClosed
  <2>2. QED BY <1>1, <2>1 DEF Elapsed, HistoryInv
<1>3. QED BY <1>1, <1>2 DEF HistoryInv, Bars

LEMMA StartHistory ==
    ASSUME StageInv, MachineInv, HistoryInv, Warmup \/ InitScheduler \/ LoadBear \/ RefuseStart
    PROVE  HistoryInv' /\ WatchInv'
<1>1. /\ now \in Time /\ started \in Time /\ Time \subseteq Nat /\ latest \in [Frame -> Time]
      /\ forming \in [Frame -> Time] /\ revised \in Detector /\ now' = now
  BY Types DEF StageInv, Warmup, InitScheduler, LoadBear, RefuseStart
<1>2. \A f \in Frame : /\ Closed(f) = ClosedAt(now, f) /\ ClosedAt(now, f) \in Nat
                       /\ ClosedAt(started, f) \in 0 .. started
  BY <1>1, ClosedFacts, ClosedGrows
<1>3. CASE Warmup
  <2>1. /\ started' = now /\ pc' = "warmed"
        /\ \A f \in Frame : latest'[f] = ClosedAt(now, f)
    BY <1>2, <1>3 DEF Warmup
  <2>2. Elapsed(now, now)
    BY <1>1 DEF Elapsed
  <2>3. QED BY <1>1, <2>1, <2>2 DEF HistoryInv, WatchInv, Up, Polling, Busy, Side
<1>4. CASE InitScheduler
  <2>1. /\ pc = "warmed" /\ pc' = "loading" /\ started' = started /\ latest' = latest
        /\ \A f \in Frame : forming'[f] = ClosedAt(now, f)
    BY <1>2, <1>4 DEF InitScheduler
  <2>2. \A f \in Frame : ClosedAt(started, f) <= ClosedAt(now, f)
    BY <1>1, <1>2 DEF HistoryInv, Elapsed
  <2>3. QED BY <1>1, <2>1, <2>2 DEF HistoryInv, WatchInv, Up, Polling, Busy, Side
<1>5. CASE LoadBear
  <2>1. /\ pc = "loading" /\ pc' = "idle" /\ revised' = SeedWarmup(revised)
        /\ UNCHANGED <<pending, forming, latest, started>>
        /\ inherited'["BEAR"] = {bear'.setup} /\ inherited'["REVISED"] = KeptTriggers
    BY <1>5 DEF LoadBear, scheduler, Strategy
  <2>2. pending = <<>>
    BY <2>1 DEF StageInv, Polling, Busy, Side
  <2>3. HistoryInv'
    BY <1>1, <2>1, <2>2 DEF HistoryInv, Bars, Up
  <2>4. latest["M5"] = ClosedAt(started, "M5") /\ ClosedAt(started, "M5") \in Nat
    BY <1>1, <1>2, <2>1 DEF HistoryInv, Frame
  <2>5. CASE \E s \in Side : revised.watch[s] # 0
    <3>1. revised' = revised
      BY <1>1, <2>1, <2>5, SeedFacts
    <3>2. /\ \A s \in Side : revised.watch[s] # 0 => revised.watch[s] \in KeptTriggers
          /\ latest["M5"] \in KeptTriggers
      BY <2>5 DEF KeptTriggers
    <3>3. QED BY <2>1, <2>3, <2>4, <3>1, <3>2 DEF WatchInv, Tradable
  <2>6. CASE \A s \in Side : revised.watch[s] = 0
    <3>1. revised'.watch = revised.watch /\ revised'.classified = latest["M5"]
      BY <1>1, <2>1, <2>6, SeedFacts
    <3>2. QED BY <2>1, <2>3, <2>4, <2>6, <3>1 DEF WatchInv, Tradable
  <2>7. QED BY <2>5, <2>6
<1>6. CASE RefuseStart
  <2>1. pc' = "down" /\ started' = started
    BY <1>6 DEF RefuseStart, history
  <2>2. QED BY <1>1, <2>1 DEF HistoryInv, WatchInv, Up, Polling, Busy, Side
<1>7. QED BY <1>3, <1>4, <1>5, <1>6

(* A bar that is read closed after the warm-up. *)
LEMMA PollHistory ==
    ASSUME StageInv, MachineInv, HistoryInv, LookUnchanged \/ LookChanged \/ Read \/ PollFails
    PROVE  HistoryInv'
<1> DEFINE f == Frames[frame]
           bars == Append(pending, [frame |-> f, t |-> Closed(f)])
<1>1. /\ now \in Time /\ started \in Nat /\ seen \in Nat /\ f \in Frame /\ frame \in 1 .. 4
      /\ forming \in [Frame -> Time] /\ latest \in [Frame -> Time] /\ pending \in Seq(BarType)
      /\ gap \in BOOLEAN /\ healthy \in BOOLEAN /\ Time \subseteq Nat /\ started \in Time
  BY Types DEF StageInv, TypeOK
<1>2. UNCHANGED <<now, latest, started>> /\ pc \in Up /\ pc' \in Up
  <2>1. UNCHANGED <<now, latest, started>>
    BY DEF LookUnchanged, LookChanged, Read, PollFails, history
  <2>2. pc \in Up
    <3>1. pc = "look" \/ pc = "idle" \/ pc = "read"
      BY Zenon DEF LookUnchanged, LookChanged, Looking, Read, PollFails
    <3>2. QED BY <3>1 DEF Up, Polling
  <2>3. CASE LookUnchanged
    <3>1. NextFrame(pending, gap)
      BY <2>3 DEF LookUnchanged
    <3>2. pc' \in {"look", "idle", "dispatch"}
      BY <1>1, <3>1, NextFrameType
    <3>3. QED BY <2>1, <2>2, <3>2 DEF Up, Polling, Busy
  <2>4. CASE Read
    BY <1>1, <2>4, NextFrameType DEF Read, Up, Polling, Busy
  <2>5. QED BY <2>1, <2>2, <2>3, <2>4 DEF LookChanged, PollFails, Up, Polling
<1>3. /\ Closed(f) = ClosedAt(now, f) /\ ClosedAt(now, f) \in Nat /\ ClosedAt(started, f) \in Nat
      /\ forming[f] \in Nat
  <2> HIDE DEF f
  <2>1. Closed(f) = ClosedAt(now, f) /\ Closed(f) \in Time
    BY <1>1, ClosedFacts
  <2>2. ClosedAt(started, f) \in Nat
    BY <1>1, ClosedIsNatural
  <2>3. forming[f] \in Time
    BY <1>1
  <2>4. Time \subseteq Nat
    BY <1>1
  <2>5. QED BY <2>1, <2>2, <2>3, <2>4
<1>4. pc = "read" => started < Closed(f) /\ ClosedAt(started, f) <= seen
  <2> HIDE DEF f
  <2>1. ASSUME pc = "read"
        PROVE  /\ ClosedAt(started, f) <= forming[f] /\ forming[f] < seen
               /\ seen <= ClosedAt(now, f)
    BY <1>1, <1>2, <2>1 DEF HistoryInv, MachineInv, f
  <2>2. ClosedAt(now, f) = ClosedAt(started, f) \/ started < ClosedAt(now, f)
    BY <1>1 DEF HistoryInv, Elapsed
  <2>3. QED BY <1>1, <1>3, <2>1, <2>2
<1>5. pc = "read" => \A i \in DOMAIN bars : started < bars[i].t
  <2> SUFFICES ASSUME pc = "read", NEW i \in DOMAIN bars PROVE started < bars[i].t
    OBVIOUS
  <2>1. CASE i \in DOMAIN pending
    <3>1. bars[i] = pending[i]
      BY <1>1, <2>1
    <3>2. QED BY <1>2, <2>1, <3>1 DEF HistoryInv, Bars
  <2>2. CASE i = Len(pending) + 1
    <3>1. bars[i].t = Closed(f)
      BY <1>1, <2>2
    <3>2. QED BY <1>4, <3>1
  <2>3. QED BY <1>1, <2>1, <2>2
<1>6. \A i \in DOMAIN pending' : started < pending'[i].t
  <2>1. \A i \in DOMAIN pending : started < pending[i].t
    BY <1>2 DEF HistoryInv, Bars
  <2>2. CASE LookUnchanged
    BY <1>1, <2>1, <2>2, NextFrameType DEF LookUnchanged
  <2>3. CASE Read
    <3>1. pc = "read" /\ NextFrame(bars, gap)
      BY <2>3 DEF Read
    <3> HIDE DEF bars, f
    <3>2. pending' \in {bars, <<>>}
      BY <1>1, <3>1, NextFrameType
    <3>3. QED BY <1>5, <3>1, <3>2
  <2>4. CASE LookChanged \/ PollFails
    BY <2>1, <2>4 DEF LookChanged, PollFails
  <2>5. QED BY <2>2, <2>3, <2>4
<1>7. \A g \in Frame : ClosedAt(started, g) <= forming'[g]
  <2>1. \A g \in Frame : ClosedAt(started, g) <= forming[g]
    BY <1>2 DEF HistoryInv
  <2>2. CASE Read
    BY <1>1, <1>4, <2>1, <2>2 DEF Read
  <2>3. CASE ~Read
    BY <2>1, <2>3 DEF LookUnchanged, LookChanged, PollFails
  <2>4. QED BY <2>2, <2>3
<1>8. pc' = "read" => forming'[Frames[frame']] < seen'
  <2>1. CASE LookUnchanged
    BY <1>1, <2>1, NextFrameType DEF LookUnchanged
  <2>2. CASE Read
    BY <1>1, <2>2, NextFrameType DEF Read
  <2>3. CASE LookChanged
    <3>1. /\ seen' = Closed(f) /\ Closed(f) # forming[f] /\ UNCHANGED <<frame, forming>>
      BY <2>3 DEF LookChanged
    <3>2. forming[f] <= ClosedAt(now, f)
      BY <1>1 DEF MachineInv
    <3>3. forming[f] < seen'
      BY <1>3, <3>1, <3>2
    <3>4. QED BY <3>1, <3>3
  <2>4. CASE PollFails
    BY <2>4 DEF PollFails
  <2>5. QED BY <2>1, <2>2, <2>3, <2>4
<1>9. QED BY <1>2, <1>6, <1>7, <1>8 DEF HistoryInv, Bars, Up, Polling, Busy, Side

(* The bars of a tick, once it is dispatched. *)
LEMMA BusyHistory ==
    ASSUME StageInv, HistoryInv,
           \/ DispatchClosedBar \/ SaveBear \/ SaveFails
           \/ NoEntry \/ Decided \/ EvaluationFails
    PROVE  HistoryInv'
<1>1. /\ pc \in Busy /\ pending \in Seq(BarType) /\ pending # <<>>
      /\ latest \in [Frame -> Time] /\ Time \subseteq Nat /\ started \in Nat
  BY Types DEF StageInv, Busy, Side, DispatchClosedBar, SaveBear, SaveFails, NoEntry, Decided,
               EvaluationFails
<1>2. /\ UNCHANGED <<now, started, forming>> /\ pc' \in Up \ Polling
      /\ pending' \in {pending, Tail(pending)}
  BY DEF DispatchClosedBar, SaveBear, SaveFails, NoEntry, Decided, EvaluationFails, Proceed,
         SideDone, NextBar, scheduler, history, Up, Busy, Side, Polling
<1>3. \A i \in DOMAIN pending : started < pending[i].t
  BY <1>1 DEF HistoryInv, Bars, Up
<1>4. \A i \in DOMAIN pending' : started < pending'[i].t
  <2>1. CASE pending' = pending
    BY <1>3, <2>1
  <2>2. CASE pending' = Tail(pending)
    <3>1. \A i \in DOMAIN pending' : i + 1 \in DOMAIN pending /\ pending'[i] = pending[i + 1]
      BY <1>1, <2>2
    <3>2. QED BY <1>3, <3>1
  <2>3. QED BY <1>2, <2>1, <2>2
<1>5. \A f \in Frame : latest'[f] = ClosedAt(started, f) \/ started < latest'[f]
  <2>1. \A f \in Frame : latest[f] = ClosedAt(started, f) \/ started < latest[f]
    BY <1>1 DEF HistoryInv, Up
  <2>2. CASE DispatchClosedBar
    <3>1. latest' = [latest EXCEPT ![Bar.frame] = Larger(@, Bar.t)]
      BY <2>2 DEF DispatchClosedBar
    <3>2. started < Bar.t /\ Bar.t \in Nat /\ Bar.frame \in Frame /\ latest[Bar.frame] \in Nat
      BY <1>1, <1>3, HeadIsABar DEF Bars
    <3>3. QED BY <1>1, <2>1, <3>1, <3>2 DEF Larger
  <2>3. CASE ~DispatchClosedBar
    BY <2>1, <2>3 DEF SaveBear, SaveFails, NoEntry, Decided, EvaluationFails
  <2>4. QED BY <2>2, <2>3
<1>6. \A f \in Frame : ClosedAt(started, f) <= forming[f]
  BY <1>1 DEF HistoryInv, Up
<1>7. Elapsed(started, now)
  BY DEF HistoryInv
<1>8. pc' \notin {"warmed", "loading", "read"}
  BY <1>2 DEF Up, Polling, Busy, Side
<1>9. QED BY <1>2, <1>4, <1>5, <1>6, <1>7, <1>8 DEF HistoryInv, Bars

LEMMA EndHistory ==
    ASSUME StageInv, Stop \/ Crash
    PROVE  HistoryInv' /\ WatchInv'
<1>1. now \in Time /\ now' = now /\ started' = 0 /\ pc' = "down"
  BY Types DEF StageInv, Stop, Crash, Ended
<1>2. \A f \in Frame : ClosedAt(0, f) = 0 /\ ClosedAt(now, f) \in Nat
  BY <1>1, NextClosed, ClosedGrows
<1>3. Elapsed(0, now)
  BY <1>1, <1>2, Types DEF Elapsed, StageInv
<1>4. QED BY <1>1, <1>3 DEF HistoryInv, WatchInv, Up, Polling, Busy, Side

LEMMA HistoryStep == StageInv /\ MachineInv /\ HistoryInv /\ [Next]_vars => HistoryInv'
<1> SUFFICES ASSUME StageInv, MachineInv, HistoryInv, [Next]_vars PROVE HistoryInv'
  OBVIOUS
<1>1. CASE UNCHANGED vars
  BY <1>1 DEF HistoryInv, Bars, vars, scheduler, history
<1>2. QED BY <1>1, ClockHistory, StartHistory, PollHistory, BusyHistory, EndHistory DEF Next

(* A bar may begin a Bear watch, whose setup is then of this run. *)
LEMMA DispatchTrades ==
    ASSUME StageInv, MachineInv, HistoryInv, WatchInv, DispatchClosedBar
    PROVE  /\ WatchInv'
           /\ \A g \in Strategy, t \in Time :
                 sent'[g][t] > sent[g][t] => Tradable(t, started, inherited[g])
<1>1. /\ pc \in Up /\ UNCHANGED <<revised, started, inherited>> /\ bear' \in OnBarClose(bear, Bar)
      /\ \/ sent' = sent
         \/ bear'.phase = "ENTRY_READY" /\ bear' # bear /\ Submit("BEAR", bear'.setup)
  BY DEF DispatchClosedBar, scheduler, history, Up, Busy
<1>2. /\ pending \in Seq(BarType) /\ pending # <<>> /\ sent \in [Strategy -> [Time -> Nat]]
  BY Types DEF StageInv, Busy, DispatchClosedBar
<1>3. Bar \in BarType /\ started < Bar.t
  BY <1>1, <1>2, HeadIsABar DEF HistoryInv
<1>4. /\ Sound(bear')
      /\ \/ bear' = bear
         \/ bear'.phase \in {"IDLE", "CANCELLED"}
         \/ bear'.setup = Bar.t
         \/ bear.phase \in Watching /\ bear'.setup = bear.setup
  BY <1>1, <1>3, OnBarCloseFacts DEF MachineInv, Kept
<1>5. (bear' # bear /\ bear'.phase \notin {"IDLE", "CANCELLED"})
         => Tradable(bear'.setup, started, inherited["BEAR"])
  BY <1>1, <1>3, <1>4 DEF WatchInv, Tradable
<1>6. WatchInv'
  BY <1>1, <1>5 DEF WatchInv, Watching
<1>7. ASSUME NEW g \in Strategy, NEW t \in Time, sent'[g][t] > sent[g][t]
      PROVE  Tradable(t, started, inherited[g])
  <2>1. bear'.setup \in Time /\ "BEAR" \in Strategy
    BY <1>4 DEF Sound, Machine, Strategy
  <2>2. sent[g][t] \in Nat
    BY <1>2
  <2>3. bear'.phase = "ENTRY_READY" /\ bear' # bear /\ Submit("BEAR", bear'.setup)
    BY <1>1, <1>7, <2>2
  <2>4. g = "BEAR" /\ t = bear'.setup
    BY <1>2, <1>7, <2>1, <2>2, <2>3, SubmitFacts
  <2>5. QED BY <1>5, <2>3, <2>4
<1>8. QED BY <1>6, <1>7

(* A classification may begin a Revised watch, of a bar the run has not had before. *)
LEMMA SideTrades ==
    ASSUME StageInv, HistoryInv, WatchInv, NoEntry \/ Decided \/ EvaluationFails
    PROVE  /\ WatchInv'
           /\ \A g \in Strategy, t \in Time :
                 sent'[g][t] > sent[g][t] => Tradable(t, started, inherited[g])
<1>1. pc \in Side /\ pc \in Up /\ UNCHANGED <<bear, started, inherited>>
  BY DEF NoEntry, Decided, EvaluationFails, history, Up, Busy
<1>2. PICK r \in Classify(revised) :
         /\ revised' \in {r, [r EXCEPT !.watch[pc] = 0], Consume(r, pc)}
         /\ \/ sent' = sent
            \/ Evaluated(r, "BUY") /\ Submit("REVISED", r.watch["BUY"])
  BY DEF NoEntry, Decided, EvaluationFails
<1>3. /\ revised \in Detector /\ latest \in [Frame -> Time] /\ Time \subseteq Nat
      /\ sent \in [Strategy -> [Time -> Nat]] /\ started \in Time /\ latest["M5"] \in Nat
      /\ revised.classified \in Nat /\ "M5" \in Frame
  BY Types DEF StageInv, Detector, Frame
<1>4. /\ r \in Detector /\ revised.classified <= r.classified
      /\ \A x \in Side : \/ r.watch[x] \in {0, revised.watch[x]}
                         \/ r.watch[x] = latest["M5"] /\ revised.classified < latest["M5"]
  BY <1>2, <1>3, ClassifyFacts
<1>5. ClosedAt(started, "M5") \in Nat /\ r.classified \in Nat
  <2>1. ClosedAt(started, "M5") \in Nat
    BY <1>3, ClosedIsNatural
  <2>2. r.classified \in Time
    BY <1>4 DEF Detector
  <2>3. QED BY <2>1, <2>2 DEF Time
<1>6. \/ ClosedAt(started, "M5") <= r.classified
      \/ ClosedAt(started, "M5") \in inherited["REVISED"]
  BY <1>1, <1>3, <1>4, <1>5 DEF WatchInv
<1>7. \A x \in Side : r.watch[x] # 0 => Tradable(r.watch[x], started, inherited["REVISED"])
  <2> SUFFICES ASSUME NEW x \in Side, r.watch[x] # 0
               PROVE  Tradable(r.watch[x], started, inherited["REVISED"])
    OBVIOUS
  <2>1. CASE r.watch[x] = revised.watch[x]
    BY <1>1, <2>1 DEF WatchInv
  <2>2. CASE r.watch[x] = latest["M5"] /\ revised.classified < latest["M5"]
    <3>1. latest["M5"] = ClosedAt(started, "M5") \/ started < latest["M5"]
      BY <1>1, <1>3 DEF HistoryInv
    <3>2. latest["M5"] = ClosedAt(started, "M5") => latest["M5"] \in inherited["REVISED"]
      BY <1>1, <1>3, <1>5, <2>2 DEF WatchInv
    <3>3. QED BY <2>2, <3>1, <3>2 DEF Tradable
  <2>3. QED BY <1>4, <2>1, <2>2
<1>8. /\ revised'.classified = r.classified
      /\ revised'.watch \in {r.watch, [r.watch EXCEPT ![pc] = 0]}
  <2>1. CASE revised' = r
    BY <2>1
  <2>2. CASE revised' = [r EXCEPT !.watch[pc] = 0]
    BY <1>1, <1>4, <2>2, EndFacts
  <2>3. CASE revised' = Consume(r, pc)
    BY <1>1, <1>4, <2>3, EndFacts
  <2>4. QED BY <1>2, <2>1, <2>2, <2>3
<1>9. \A x \in Side : revised'.watch[x] \in {0, r.watch[x]}
  <2>1. r.watch \in [Side -> Time]
    BY <1>4 DEF Detector
  <2>2. QED BY <1>1, <1>8, <2>1
<1>10. WatchInv'
  BY <1>1, <1>6, <1>7, <1>8, <1>9 DEF WatchInv
<1>11. ASSUME NEW g \in Strategy, NEW t \in Time, sent'[g][t] > sent[g][t]
       PROVE  Tradable(t, started, inherited[g])
  <2>1. r.watch["BUY"] \in Time /\ "REVISED" \in Strategy /\ "BUY" \in Side
    BY <1>4 DEF Detector, Strategy, Side
  <2>2. sent[g][t] \in Nat
    BY <1>3
  <2>3. Evaluated(r, "BUY") /\ Submit("REVISED", r.watch["BUY"])
    BY <1>2, <1>11, <2>2
  <2> DEFINE u == r.watch["BUY"]
  <2> HIDE DEF u
  <2>4. u \in Time /\ Submit("REVISED", u)
    BY <2>1, <2>3 DEF u
  <2>5. sent'[g][t] = IF g = "REVISED" /\ t = u THEN sent[g][t] + 1 ELSE sent[g][t]
    BY <1>3, <2>1, <2>4, SubmitFacts
  <2>6. g = "REVISED" /\ t = r.watch["BUY"]
    BY <1>11, <2>2, <2>5 DEF u
  <2>7. r.watch["BUY"] # 0
    BY <2>3 DEF Evaluated
  <2>8. QED BY <1>7, <2>1, <2>6, <2>7
<1>12. QED BY <1>10, <1>11

(* Every other step submits nothing and begins no watch. *)
LEMMA TradeStep ==
    ASSUME StageInv, MachineInv, HistoryInv, WatchInv, [Next]_vars
    PROVE  /\ WatchInv'
           /\ \A g \in Strategy, t \in Time :
                 sent'[g][t] > sent[g][t] => Tradable(t, started, inherited[g])
<1>1. sent \in [Strategy -> [Time -> Nat]]
  BY Types DEF StageInv
<1>2. CASE UNCHANGED vars \/ BarCloses \/ SaveBear \/ SaveFails
  <2>1. UNCHANGED <<sent, bear, revised, started, inherited>> /\ (pc \in Up \/ pc' = pc)
    BY <1>2 DEF vars, history, BarCloses, SaveBear, SaveFails, Up, Busy
  <2>2. QED BY <1>1, <2>1 DEF WatchInv
<1>3. CASE LookUnchanged \/ LookChanged \/ Read \/ PollFails
  <2>1. UNCHANGED <<sent, bear, revised, started, inherited>> /\ pc \in Up
    BY <1>3 DEF history, LookUnchanged, LookChanged, Looking, Read, PollFails, Up, Polling
  <2>2. QED BY <1>1, <2>1 DEF WatchInv
<1>4. CASE Warmup \/ InitScheduler \/ LoadBear \/ RefuseStart
  <2>1. sent' = sent
    BY <1>4 DEF Warmup, InitScheduler, LoadBear, RefuseStart
  <2>2. QED BY <1>1, <1>4, <2>1, StartHistory
<1>5. CASE Stop \/ Crash
  <2>1. sent' = sent
    BY <1>5 DEF Stop, Crash, Ended
  <2>2. QED BY <1>1, <1>5, <2>1, EndHistory
<1>6. QED BY <1>2, <1>3, <1>4, <1>5, DispatchTrades, SideTrades DEF Next

(* NoHistoricalTrade holds for all periods and windows and any number of restarts. *)
THEOREM HistoryIsNotTraded == Spec => NoHistoricalTrade
<1>1. Init => HistoryInv /\ WatchInv
  BY InitHistory
<1>2. StageInv /\ MachineInv /\ HistoryInv /\ WatchInv /\ [Next]_vars => HistoryInv' /\ WatchInv'
  BY HistoryStep, TradeStep
<1>3. StageInv /\ MachineInv /\ HistoryInv /\ WatchInv /\ [Next]_vars =>
         [\A g \in Strategy, t \in Time :
            sent'[g][t] > sent[g][t] => t > started \/ t \in inherited[g]]_vars
  <2> SUFFICES ASSUME StageInv, MachineInv, HistoryInv, WatchInv, Next,
                      NEW g \in Strategy, NEW t \in Time, sent'[g][t] > sent[g][t]
               PROVE  t > started \/ t \in inherited[g]
    OBVIOUS
  <2>1. Tradable(t, started, inherited[g])
    BY TradeStep
  <2>2. started \in Nat /\ t \in Nat
    BY Types DEF StageInv
  <2>3. QED BY <2>1, <2>2 DEF Tradable
<1>4. QED BY <1>1, <1>2, <1>3, SafeInvariant, PTL DEF Spec, NoHistoricalTrade

-----------------------------------------------------------------------------
(* How often a Revised setup is signalled.                                 *)

Begins == {"down", "warmed", "loading"}

\* Where a setup that was signalled stands: no watch is of it, and none can begin.
Settled(t, r, stage, last, n) ==
    /\ t # 0 /\ t # r.watch["BUY"] /\ t <= ClosedAt(n, "M5")
    /\ stage \in {"warmed", "loading"} => t <= last["M5"]
    /\ t <= r.classified \/ (stage \in Begins /\ \A s \in Side : r.watch[s] = 0)

(* A watch is of a bar that was classified, which closed, and a setup that was signalled *)
(* was signalled once.                                                                   *)
DetectorInv ==
    /\ \A s \in Side : revised.watch[s] <= revised.classified
    /\ revised.classified <= ClosedAt(now, "M5")

SentInv ==
    \A t \in Time : sent["REVISED"][t] # 0 =>
        sent["REVISED"][t] = 1 /\ Settled(t, revised, pc, latest, now)

LEMMA InitSent == Init => DetectorInv /\ SentInv
<1> SUFFICES ASSUME Init PROVE DetectorInv /\ SentInv
  OBVIOUS
<1>1. ClosedAt(1, "M5") \in 0 .. 1
  BY NextClosed DEF Frame
<1>2. revised = Fresh /\ now = 1 /\ \A t \in Time : sent["REVISED"][t] = 0
  BY DEF Init, Strategy
<1>3. QED BY <1>1, <1>2 DEF DetectorInv, SentInv, Fresh

(* A step that leaves the detector and its signals alone, except at a warm-up. *)
LEMMA QuietSent ==
    ASSUME StageInv, DetectorInv, SentInv, now' \in {now, now + 1}, revised' = revised,
           sent'["REVISED"] = sent["REVISED"],
           pc' \in {"warmed", "loading"} => pc \in {"warmed", "loading"} /\ latest' = latest,
           pc \in Begins => pc' \in Begins
    PROVE  DetectorInv' /\ SentInv'
<1>1. now \in Time /\ revised \in Detector /\ Time \subseteq Nat
  BY Types DEF StageInv
<1>2. /\ ClosedAt(now, "M5") \in Nat /\ ClosedAt(now', "M5") \in {ClosedAt(now, "M5"), now'}
      /\ ClosedAt(now, "M5") <= ClosedAt(now', "M5")
  BY <1>1, ClosedGrows DEF Frame
<1>3. revised.classified \in Nat /\ ClosedAt(now', "M5") \in Nat
  <2>1. revised.classified \in Time /\ now' \in Nat
    BY <1>1 DEF Detector
  <2>2. QED BY <1>1, <1>2, <2>1
<1>4. DetectorInv'
  BY <1>2, <1>3 DEF DetectorInv
<1>5. SentInv'
  <2> SUFFICES ASSUME NEW t \in Time, sent["REVISED"][t] # 0
               PROVE  sent["REVISED"][t] = 1 /\ Settled(t, revised, pc', latest', now')
    BY DEF SentInv
  <2>1. sent["REVISED"][t] = 1 /\ Settled(t, revised, pc, latest, now) /\ t \in Nat
    BY <1>1 DEF SentInv
  <2>2. QED BY <1>2, <1>3, <2>1 DEF Settled
<1>6. QED BY <1>4, <1>5

LEMMA StartSent ==
    ASSUME StageInv, MachineInv, DetectorInv, SentInv,
           Warmup \/ InitScheduler \/ LoadBear \/ RefuseStart
    PROVE  DetectorInv' /\ SentInv'
<1>1. /\ now \in Time /\ revised \in Detector /\ Time \subseteq Nat /\ latest \in [Frame -> Time]
      /\ now' = now /\ sent' = sent /\ pc \in Begins
  BY Types DEF StageInv, Warmup, InitScheduler, LoadBear, RefuseStart, Begins
<1>2. ClosedAt(now, "M5") \in Nat /\ Closed("M5") = ClosedAt(now, "M5") /\ "M5" \in Frame
  BY <1>1, ClosedFacts, ClosedIsNatural DEF Frame
<1>3. CASE Warmup
  <2>1. revised' = revised /\ pc = "down" /\ pc' = "warmed" /\ latest'["M5"] = ClosedAt(now, "M5")
    BY <1>2, <1>3 DEF Warmup
  <2>2. QED BY <1>1, <2>1 DEF DetectorInv, SentInv, Settled, Begins
<1>4. CASE InitScheduler
  BY <1>1, <1>4, QuietSent DEF InitScheduler, Begins
<1>5. CASE LoadBear
  <2>1. pc = "loading" /\ pc' = "idle" /\ revised' = SeedWarmup(revised) /\ latest' = latest
    BY <1>5 DEF LoadBear
  <2>2. latest["M5"] <= ClosedAt(now, "M5") /\ latest["M5"] \in Nat
    BY <1>1, <1>2 DEF MachineInv
  <2>3. CASE revised' = revised /\ \E s \in Side : revised.watch[s] # 0
    BY <1>1, <2>1, <2>3 DEF DetectorInv, SentInv, Settled, Begins
  <2>4. CASE /\ \A s \in Side : revised.watch[s] = 0
             /\ revised'.watch = revised.watch /\ revised'.classified = latest["M5"]
    BY <1>1, <1>2, <2>1, <2>2, <2>4 DEF DetectorInv, SentInv, Settled, Begins
  <2>5. QED BY <1>1, <2>1, <2>3, <2>4, SeedFacts
<1>6. CASE RefuseStart
  <2>1. revised' = Fresh /\ pc' = "down" /\ latest' = latest
    BY <1>6 DEF RefuseStart
  <2>2. QED BY <1>1, <1>2, <2>1 DEF DetectorInv, SentInv, Settled, Begins, Fresh, Side
<1>7. QED BY <1>3, <1>4, <1>5, <1>6

LEMMA EndSent ==
    ASSUME StageInv, DetectorInv, SentInv, Stop \/ Crash
    PROVE  DetectorInv' /\ SentInv'
<1>1. /\ pc \notin Begins \/ revised' = Fresh
      /\ pc' = "down" /\ now' = now /\ sent' = sent /\ revised' \in {revised, Fresh}
  BY DEF Stop, Crash, Ended, Begins
<1>2. ClosedAt(now, "M5") \in Nat
  BY ClosedIsNatural, Types DEF StageInv, Frame
<1>3. CASE revised' = revised
  BY <1>1, <1>3 DEF DetectorInv, SentInv, Settled, Begins
<1>4. CASE revised' = Fresh
  BY <1>1, <1>2, <1>4 DEF DetectorInv, SentInv, Settled, Begins, Fresh, Side
<1>5. QED BY <1>1, <1>3, <1>4

(* What was classified last is what was, or the newest M5 bar. *)
LEMMA ClassifiedIs ==
    ASSUME NEW r \in Detector, latest \in [Frame -> Time], NEW c \in Classify(r)
    PROVE  c.classified \in {r.classified, latest["M5"]}
<1> DEFINE d == [r EXCEPT !.classified = latest["M5"]]
<1>1. latest["M5"] \in Time
  BY DEF Frame
<1>2. d \in Detector /\ d.classified = latest["M5"]
  BY <1>1 DEF Detector
<1>3. \/ c = r \/ c = d
      \/ \E s \in Side, strong \in BOOLEAN : c = ProcessCandidate(d, s, latest["M5"], strong)
  BY DEF Classify
<1> HIDE DEF d
<1>4. QED BY <1>1, <1>2, <1>3, ProcessFacts

(* A watch that begins is of a bar later than all that were signalled. *)
LEMMA SideSent ==
    ASSUME StageInv, MachineInv, DetectorInv, SentInv, NoEntry \/ Decided \/ EvaluationFails
    PROVE  DetectorInv' /\ SentInv'
<1>1. /\ pc \in Side /\ now' = now /\ pc' \notin Begins
  BY DEF NoEntry, Decided, EvaluationFails, SideDone, NextBar, Begins
<1>2. PICK r \in Classify(revised) :
         \/ sent' = sent /\ revised' \in {r, [r EXCEPT !.watch[pc] = 0], Consume(r, pc)}
         \/ /\ pc = "BUY" /\ Evaluated(r, "BUY") /\ revised' = Consume(r, "BUY")
            /\ Submit("REVISED", r.watch["BUY"])
  BY DEF NoEntry, Decided, EvaluationFails
<1>3. /\ revised \in Detector /\ latest \in [Frame -> Time] /\ Time \subseteq Nat
      /\ sent \in [Strategy -> [Time -> Nat]] /\ latest["M5"] \in Nat
      /\ revised.classified \in Nat /\ "BUY" \in Side
      /\ latest["M5"] <= ClosedAt(now, "M5") /\ ClosedAt(now, "M5") \in Nat
  <2>1. ClosedAt(now, "M5") \in Nat
    BY Types, ClosedIsNatural DEF StageInv, Frame
  <2>2. QED BY <2>1, Types DEF StageInv, MachineInv, Detector, Frame, Side
<1>4. /\ r \in Detector /\ revised.classified <= r.classified
      /\ \A x \in Side : \/ r.watch[x] \in {0, revised.watch[x]}
                         \/ /\ r.watch[x] = latest["M5"] /\ r.classified = latest["M5"]
                            /\ revised.classified < latest["M5"]
  BY <1>2, <1>3, ClassifyFacts
<1>5. r.classified \in Nat /\ \A x \in Side : r.watch[x] \in Nat /\ revised.watch[x] \in Nat
  BY <1>3, <1>4 DEF Detector
<1>6. r.classified <= ClosedAt(now, "M5")
  <2>1. r.classified \in {revised.classified, latest["M5"]}
    BY <1>2, <1>3, ClassifiedIs
  <2>2. QED BY <1>3, <2>1 DEF DetectorInv
<1>7. \A x \in Side : r.watch[x] <= r.classified
  BY <1>3, <1>4, <1>5 DEF DetectorInv
<1>8. ASSUME NEW t \in Time, sent["REVISED"][t] # 0
      PROVE  /\ sent["REVISED"][t] = 1 /\ t # 0 /\ t # r.watch["BUY"]
             /\ t <= ClosedAt(now, "M5") /\ t <= r.classified
  <2>1. /\ sent["REVISED"][t] = 1 /\ t # 0 /\ t # revised.watch["BUY"]
        /\ t <= ClosedAt(now, "M5") /\ t <= revised.classified /\ t \in Nat
    BY <1>1, <1>3, <1>8 DEF SentInv, Settled, Begins, Side
  <2>2. QED BY <1>3, <1>4, <1>5, <2>1
<1>9. CASE sent' = sent /\ revised' \in {r, [r EXCEPT !.watch[pc] = 0], Consume(r, pc)}
  <2>1. /\ revised'.classified = r.classified
        /\ revised'.watch \in {r.watch, [r.watch EXCEPT ![pc] = 0]}
    <3>1. CASE revised' = r
      BY <3>1
    <3>2. CASE revised' = [r EXCEPT !.watch[pc] = 0]
      BY <1>1, <1>4, <3>2, EndFacts
    <3>3. CASE revised' = Consume(r, pc)
      BY <1>1, <1>4, <3>3, EndFacts
    <3>4. QED BY <1>9, <3>1, <3>2, <3>3
  <2>2. r.watch \in [Side -> Time]
    BY <1>4 DEF Detector
  <2>3. \A x \in Side : revised'.watch[x] \in {0, r.watch[x]}
    BY <1>1, <2>1, <2>2
  <2>4. DetectorInv'
    BY <1>1, <1>5, <1>6, <1>7, <2>1, <2>3 DEF DetectorInv
  <2>5. SentInv'
    BY <1>1, <1>3, <1>8, <1>9, <2>1, <2>3 DEF SentInv, Settled, Begins
  <2>6. QED BY <2>4, <2>5
<1>10. CASE /\ Evaluated(r, "BUY") /\ revised' = Consume(r, "BUY")
            /\ Submit("REVISED", r.watch["BUY"])
  <2> DEFINE u == r.watch["BUY"]
  <2>1. u \in Time /\ u # 0 /\ "REVISED" \in Strategy /\ u \in Nat /\ u <= r.classified
    BY <1>3, <1>4, <1>5, <1>7, <1>10 DEF Detector, Evaluated, Strategy
  <2>2. revised'.classified = r.classified /\ revised'.watch = [r.watch EXCEPT !["BUY"] = 0]
    BY <1>3, <1>4, <1>10, EndFacts
  <2>3. r.watch \in [Side -> Time]
    BY <1>4 DEF Detector
  <2>4. revised'.watch["BUY"] = 0 /\ \A x \in Side : revised'.watch[x] \in {0, r.watch[x]}
    BY <1>3, <2>2, <2>3
  <2>5. DetectorInv'
    BY <1>1, <1>5, <1>6, <1>7, <2>2, <2>4 DEF DetectorInv
  <2> HIDE DEF u
  <2>6. Submit("REVISED", u)
    BY <1>10 DEF u
  <2>7. \A t \in Time :
           sent'["REVISED"][t] = IF t = u THEN sent["REVISED"][t] + 1 ELSE sent["REVISED"][t]
    BY <1>3, <2>1, <2>6, SubmitFacts
  <2>8. sent["REVISED"][u] = 0
    BY <1>8, <2>1 DEF u
  <2>9. ASSUME NEW t \in Time, sent'["REVISED"][t] # 0
        PROVE  sent'["REVISED"][t] = 1 /\ Settled(t, revised', pc', latest', now')
    <3>1. CASE t = u
      <4>1. sent'["REVISED"][t] = 1
        BY <2>7, <2>8, <3>1
      <4>2. u <= ClosedAt(now, "M5")
        BY <1>3, <1>5, <1>6, <2>1
      <4>3. QED BY <1>1, <2>1, <2>2, <2>4, <3>1, <4>1, <4>2 DEF Settled, Begins
    <3>2. CASE t # u
      <4>1. sent'["REVISED"][t] = sent["REVISED"][t]
        BY <2>7, <3>2
      <4>2. QED BY <1>1, <1>8, <2>2, <2>4, <2>9, <4>1 DEF Settled, Begins
    <3>3. QED BY <3>1, <3>2
  <2>10. QED BY <2>5, <2>9 DEF SentInv
<1>11. QED BY <1>2, <1>9, <1>10

LEMMA SentStep ==
    ASSUME StageInv, MachineInv, DetectorInv, SentInv, [Next]_vars
    PROVE  DetectorInv' /\ SentInv'
<1>1. sent \in [Strategy -> [Time -> Nat]]
  BY Types DEF StageInv
<1>2. CASE UNCHANGED vars \/ BarCloses
  BY <1>2, QuietSent DEF vars, BarCloses
<1>3. CASE LookUnchanged \/ LookChanged \/ Read \/ PollFails
  <2>1. UNCHANGED <<now, revised, sent>> /\ pc \notin Begins
    BY <1>3 DEF LookUnchanged, LookChanged, Looking, Read, PollFails, Begins
  <2>2. pc' \notin Begins
    BY <1>3 DEF LookUnchanged, LookChanged, Read, PollFails, NextFrame, Polled, Begins
  <2>3. QED BY <2>1, <2>2, QuietSent DEF Begins
<1>4. CASE SaveBear \/ SaveFails
  <2>1. UNCHANGED <<now, revised, sent>> /\ pc \notin Begins /\ pc' \notin Begins
    BY <1>4 DEF SaveBear, SaveFails, Proceed, NextBar, Begins
  <2>2. QED BY <2>1, QuietSent DEF Begins
<1>5. CASE DispatchClosedBar
  <2>1. UNCHANGED <<now, revised>> /\ pc = "dispatch" /\ pc' = "save"
    BY <1>5 DEF DispatchClosedBar, history
  <2>2. sent'["REVISED"] = sent["REVISED"]
    BY <1>1, <1>5 DEF DispatchClosedBar, Submit, Strategy
  <2>3. QED BY <2>1, <2>2, QuietSent DEF Begins
<1>6. QED BY <1>2, <1>3, <1>4, <1>5, StartSent, SideSent, EndSent DEF Next

(* RevisedOnce holds for all periods, any number of stops, crashes and failures. *)
THEOREM RevisedIsSignalledOnce == Spec => []RevisedOnce
<1>1. Init => DetectorInv /\ SentInv
  BY InitSent
<1>2. StageInv /\ MachineInv /\ DetectorInv /\ SentInv /\ [Next]_vars
         => DetectorInv' /\ SentInv'
  BY SentStep
<1>3. StageInv /\ SentInv => RevisedOnce
  <2> SUFFICES ASSUME StageInv, SentInv, NEW t \in Time PROVE sent["REVISED"][t] <= 1
    BY DEF RevisedOnce
  <2>1. sent["REVISED"][t] = 0 \/ sent["REVISED"][t] = 1
    BY DEF SentInv
  <2>2. QED BY <2>1
<1>4. QED BY <1>1, <1>2, <1>3, SafeInvariant, PTL DEF Spec

-----------------------------------------------------------------------------
(* What a machine and the two files hold, and how often a Bear setup is signalled. *)

\* A machine that may still signal setup t.
Watches(b, t) == b.phase \in Watching /\ b.setup = t

\* Machine x was written no later than y: in sequence and in time.
Behind(x, y) == x.seq <= y.seq /\ x.asOf <= y.asOf

\* Load calls x stale at time n.
Outdated(x, n) == n - x.asOf > MaxAge

\* Machines that differ in their phase only, as far as files are concerned.
Alike(a, b) ==
    a.setup = b.setup /\ a.last = b.last /\ a.seq = b.seq /\ a.asOf = b.asOf

(* The later of two times. *)
LEMMA LargerFacts ==
    ASSUME NEW m \in Nat, NEW n \in Nat
    PROVE  Larger(m, n) \in {m, n} /\ m <= Larger(m, n) /\ n <= Larger(m, n)
BY DEF Larger

(* What a machine is made of. *)
LEMMA MachineFields ==
    ASSUME NEW b \in Machine
    PROVE  /\ b.setup \in Nat /\ b.last \in Nat /\ b.seq \in Nat /\ b.asOf \in Nat
           /\ b.setup \in Time /\ b.last \in Time /\ b.asOf \in Time /\ b.phase \in Phase
BY DEF Machine, Time

(* Feeding counts the bar, dates the machine, and keeps a watch or none. *)
LEMMA FedDates ==
    ASSUME NEW b, Sound(b), NEW bar \in BarType
    PROVE  LET d == Fed(b, bar)
           IN  /\ d.seq = b.seq + 1 /\ d.asOf = Larger(b.asOf, bar.t) /\ d.last = b.last
               /\ d.setup \in {0, b.setup}
               /\ d.phase \in Watching \cup {"IDLE"}
               /\ d.phase \in Watching => d.phase = b.phase /\ d.setup = b.setup
<1> DEFINE r == ResetTerminal(b)
           bars == [r.bars EXCEPT ![bar.frame] = @ \cup {bar.t}]
<1>1. b \in Machine
  BY DEF Sound
<1>2. /\ r \in Machine /\ r.seq = b.seq /\ r.asOf = b.asOf /\ r.last = b.last
      /\ r.setup \in {0, b.setup} /\ r.phase \in Watching \cup {"IDLE"}
      /\ r.phase \in Watching => r.phase = b.phase /\ r.setup = b.setup
  BY <1>1, ZeroIsATime DEF ResetTerminal, Machine, Phase, Watching
<1> HIDE DEF r
<1>3. Fed(b, bar) = [r EXCEPT !.bars = bars, !.seq = @ + 1, !.asOf = Larger(@, bar.t)]
  BY <1>2 DEF Fed, r, Machine
<1> HIDE DEF bars
<1>4. QED BY <1>2, <1>3 DEF Machine

(* An accepted setup is later than the last one. *)
LEMMA AcceptDates ==
    ASSUME NEW b \in Machine, NEW bar, NEW s \in Accept(b, bar)
    PROVE  \/ s = b
           \/ /\ s.setup = bar.t /\ s.last = bar.t /\ bar.t > b.last
              /\ s.seq = b.seq /\ s.asOf = b.asOf
BY DEF Accept, Machine

(* Arming and entering change the phase only. *)
LEMMA ArmDates ==
    ASSUME NEW b \in Machine, NEW bar, NEW a \in Arm(b, bar)
    PROVE  Alike(a, b) /\ (a = b \/ b.phase \in Watching)
<1>1. CASE a = b
  BY <1>1 DEF Alike
<1>2. CASE b.phase = "WATCH_M5" /\ a = [b EXCEPT !.phase = "CANCELLED"]
  BY <1>2 DEF Alike, Watching, Machine
<1>3. CASE /\ b.phase = "WATCH_M5"
           /\ a = [b EXCEPT !.phase = "WATCH_M1", !.armed = Larger(b.setup, Cursor(b, "M5"))]
  BY <1>3 DEF Alike, Watching, Machine
<1>4. QED BY <1>1, <1>2, <1>3 DEF Arm

LEMMA EnterDates ==
    ASSUME NEW b \in Machine, NEW bar, NEW before, NEW e \in Enter(b, bar, before)
    PROVE  Alike(e, b) /\ (e = b \/ b.phase \in Watching)
<1>1. CASE e = b
  BY <1>1 DEF Alike
<1>2. CASE b.phase = "WATCH_M1" /\ \E p \in {"ENTRY_READY", "CANCELLED"} : e = [b EXCEPT !.phase = p]
  BY <1>2 DEF Alike, Watching, Machine
<1>3. QED BY <1>1, <1>2 DEF Enter

(* One bar: the machine is not fed, or it is one sequence on and dated by the bar, and *)
(* what it watches or enters is what it watched, or the bar as a setup after the last. *)
LEMMA OnBarCloseDates ==
    ASSUME NEW b, Sound(b), NEW bar \in BarType, NEW e \in OnBarClose(b, bar)
    PROVE  \/ e = b
           \/ /\ e.seq = b.seq + 1 /\ e.asOf = Larger(b.asOf, bar.t)
              /\ \/ /\ e.last = b.last /\ e.setup \in {0, b.setup}
                    /\ e.phase \in Watching \cup {"ENTRY_READY"} => Watches(b, e.setup)
                 \/ bar.t > b.last /\ e.last = bar.t /\ e.setup = bar.t
<1>1. CASE e = b
  BY <1>1
<1>2. CASE e \in Advance(Fed(b, bar), bar)
  <2> DEFINE d == Fed(b, bar)
  <2>0. PICK s \in Accept(d, bar) : \E a \in Arm(s, bar) : e \in Enter(a, bar, d.phase)
    BY <1>2 DEF Advance
  <2>1. PICK a \in Arm(s, bar) : e \in Enter(a, bar, d.phase)
    BY <2>0
  <2> HIDE DEF d
  <2>2. /\ Sound(d) /\ d.seq = b.seq + 1 /\ d.asOf = Larger(b.asOf, bar.t) /\ d.last = b.last
        /\ d.setup \in {0, b.setup} /\ d.phase \in Watching \cup {"IDLE"}
        /\ d.phase \in Watching => d.phase = b.phase /\ d.setup = b.setup
    BY FedFacts, FedDates DEF d
  <2>3. /\ Sound(s)
        /\ \/ s = d
           \/ /\ s.setup = bar.t /\ s.last = bar.t /\ bar.t > d.last
              /\ s.seq = d.seq /\ s.asOf = d.asOf
    BY <2>0, <2>2, AcceptFacts, AcceptDates DEF Sound
  <2>4. Sound(a) /\ Alike(a, s) /\ (a = s \/ s.phase \in Watching)
    BY <2>1, <2>3, ArmFacts, ArmDates DEF Sound
  <2>5. Alike(e, a) /\ (e = a \/ a.phase \in Watching)
    BY <2>1, <2>4, EnterDates DEF Sound
  <2>6. e.seq = b.seq + 1 /\ e.asOf = Larger(b.asOf, bar.t)
    BY <2>2, <2>3, <2>4, <2>5 DEF Alike
  <2>7. CASE s = d
    <3>1. e.last = b.last /\ e.setup = d.setup
      BY <2>2, <2>4, <2>5, <2>7 DEF Alike
    <3>2. ASSUME e.phase \in Watching \cup {"ENTRY_READY"} PROVE d.phase \in Watching
      <4>1. CASE e = a /\ a = s
        BY <2>2, <2>7, <3>2, <4>1 DEF Watching
      <4>2. CASE s.phase \in Watching
        BY <2>7, <4>2
      <4>3. CASE a = s /\ a.phase \in Watching
        BY <2>7, <4>3
      <4>4. QED BY <2>4, <2>5, <4>1, <4>2, <4>3
    <3>3. QED BY <2>2, <2>6, <3>1, <3>2 DEF Watches
  <2>8. CASE /\ s.setup = bar.t /\ s.last = bar.t /\ bar.t > d.last
    BY <2>2, <2>4, <2>5, <2>6, <2>8 DEF Alike
  <2>9. QED BY <2>3, <2>7, <2>8
<1>3. QED BY <1>1, <1>2 DEF OnBarClose

\* The dates of machine b, as of time n.
Dated(b, n) ==
    /\ b.setup <= b.last /\ b.last <= n /\ b.asOf <= n
    /\ b.phase \in Watching => 0 < b.setup

\* Setup t of a time that the run has behind it.
Past(t, b, stage, start) ==
    /\ stage \in {"warmed", "loading"} => t <= start
    /\ stage \in Up => t <= start \/ t <= b.last

(* What is in a file or was signalled is of a time before the run, or of a setup before *)
(* the machine's last: the run does not find it again.                                   *)
DateInv ==
    /\ Dated(bear, now)
    /\ \A i \in {0, 1} : Complete(slot[i]) =>
          /\ Dated(slot[i], now)
          /\ pc \in {"warmed", "loading"} => Dated(slot[i], started)
          /\ Past(slot[i].setup, bear, pc, started)
    /\ \A t \in Time : sent["BEAR"][t] # 0 => t <= now /\ Past(t, bear, pc, started)

\* Files of one setup are of one line of machines: the higher sequence is the later.
Twins(fs) ==
    \A i, j \in {0, 1} :
        /\ Complete(fs[i]) /\ Complete(fs[j])
        /\ fs[i].setup = fs[j].setup /\ fs[i].setup # 0 /\ fs[i].seq <= fs[j].seq
        => fs[i].asOf <= fs[j].asOf

\* And no file of machine b's setup is ahead of b.
NotAhead(fs, b) ==
    \A i \in {0, 1} :
        Complete(fs[i]) /\ fs[i].setup = b.setup /\ b.setup # 0 => Behind(fs[i], b)

TwinInv == Twins(slot) /\ (pc \in Up => NotAhead(slot, bear))

\* File x, with y the other one, will not be taken over for setup t.
Covered(x, y, b, stage, n, t) ==
    /\ stage \in Up => Outdated(x, n) \/ Behind(x, b)
    /\ \/ stage = "save" /\ b.setup = t
       \/ Outdated(x, n)
       \/ Complete(y) /\ Behind(x, y)

\* Setup t was signalled as often as the saves that were lost allow.
Spent(t) == sent["BEAR"][t] = 1 + lost

(* A setup is signalled once more for each save that is lost.  Where it may not be       *)
(* signalled again, the machine does not watch it, and a file that does will not be      *)
(* taken over, but for the signal just given and not saved yet.                          *)
TightInv ==
    \A t \in Time :
        /\ sent["BEAR"][t] <= 1 + lost
        /\ Spent(t) =>
              /\ ~Watches(bear, t)
              /\ \A i \in {0, 1} : Complete(slot[i]) /\ Watches(slot[i], t) =>
                    Covered(slot[i], slot[1 - i], bear, pc, now, t)

\* The sequences of the files and of machine b, whose run began with one of them or anew:
\* file 1 is replaced by the first save of a new line and file 0 by the second.
Sequences(fs, b, stage, n) ==
    /\ Complete(fs[0]) => /\ fs[0].seq <= b.seq \/ Outdated(fs[0], n)
                          /\ fs[0].seq = 0 \/ fs[0].asOf <= b.asOf
    /\ Complete(fs[1]) => fs[1].seq <= b.seq \/ b.seq = 0 \/ (b.seq = 1 /\ stage = "save")

\* The second file, once a bar was fed, is not later than a first one of higher sequence.
Rising(fs) ==
    Complete(fs[0]) /\ Complete(fs[1]) /\ fs[0].seq # 0 /\ fs[0].seq <= fs[1].seq
        => fs[0].asOf <= fs[1].asOf

\* The snapshot s written last has the higher sequence, or the other file is stale.
Highest(fs, s, n) ==
    \A i \in {0, 1} :
        Complete(fs[i]) /\ Complete(fs[1 - i]) /\ s = fs[i] /\ s.seq # 0
            => fs[1 - i].seq <= s.seq \/ Outdated(fs[1 - i], n)

(* While no run went on after a failed save. *)
NewestInv ==
    ~wentOn => /\ pc \in Up => Sequences(slot, bear, pc, now)
               /\ Rising(slot)
               /\ Highest(slot, saved, now)

FilesInv == DateInv /\ TwinInv /\ TightInv /\ NewestInv

(* What can be said of a complete file. *)
LEMMA FileFields ==
    ASSUME StageInv, NEW i \in {0, 1}, Complete(slot[i])
    PROVE  /\ slot[i] \in Machine /\ slot[i].setup \in Nat /\ slot[i].last \in Nat
           /\ slot[i].seq \in Nat /\ slot[i].asOf \in Nat
BY Types, ReadableFiles, MachineFields DEF StageInv

(* The clock only lets files grow old. *)
LEMMA OutdatedLater ==
    ASSUME NEW n \in Nat, NEW m \in {n, n + 1}, NEW x, x.asOf \in Nat, Outdated(x, n)
    PROVE  Outdated(x, m)
BY WindowAssumption DEF Outdated

LEMMA InitFiles == StageInv /\ Init => FilesInv
<1> SUFFICES ASSUME StageInv, Init PROVE FilesInv
  OBVIOUS
<1>1. /\ bear = Empty /\ now = 1 /\ pc = "down" /\ lost = 0 /\ saved = slot[1]
      /\ pc \notin Up /\ pc \notin {"warmed", "loading"}
  BY DEF Init, Up, Polling, Busy, Side
<1>2. Empty.setup = 0 /\ Empty.last = 0 /\ Empty.asOf = 0 /\ ~Watches(Empty, 0) /\ Empty.phase = "IDLE"
  BY DEF Empty, Watches, Watching
<1>3. \A i \in {0, 1} : Complete(slot[i]) =>
         /\ slot[i].setup = 0 /\ slot[i].last = 0 /\ slot[i].asOf = 0 /\ slot[i].phase = "IDLE"
         /\ slot[i].seq = OldSequence + i
  <2>1. CASE slot = [i \in {0, 1} |-> Missing]
    BY <2>1, ReadableFiles, Types DEF StageInv
  <2>2. CASE slot = [i \in {0, 1} |-> Old(i)]
    BY <2>2 DEF Old, Empty
  <2>3. QED BY <2>1, <2>2 DEF Init
<1>4. \A t \in Time : sent["BEAR"][t] = 0
  BY DEF Init, Strategy
<1>5. DateInv
  BY <1>1, <1>2, <1>3, <1>4 DEF DateInv, Dated, Past, Watching
<1>6. TwinInv
  BY <1>1, <1>3 DEF TwinInv, Twins
<1>7. TightInv
  BY <1>1, <1>4 DEF TightInv, Spent
<1>8. NewestInv
  BY <1>1, <1>3, OldAssumption DEF NewestInv, Rising, Highest
<1>9. QED BY <1>5, <1>6, <1>7, <1>8 DEF FilesInv

(* Steps that concern neither the machine nor its files. *)
LEMMA QuietFiles ==
    ASSUME StageInv, FilesInv, UNCHANGED <<bear, slot, lost, started, saved, wentOn>>,
           sent'["BEAR"] = sent["BEAR"], now' \in {now, now + 1},
           pc' \in Up => pc \in Up,
           pc' \in {"warmed", "loading"} => pc \in {"warmed", "loading"},
           pc' = "save" <=> pc = "save"
    PROVE  FilesInv'
<1>1. /\ now \in Nat /\ bear.setup \in Nat /\ bear.last \in Nat /\ bear.asOf \in Nat
      /\ Time \subseteq Nat /\ now' \in Nat /\ now <= now'
  <2>1. now \in Nat /\ Time \subseteq Nat /\ bear \in Machine
    BY Types DEF StageInv
  <2>2. QED BY <2>1, MachineFields
<1>2. \A i \in {0, 1} : Complete(slot[i]) =>
         /\ slot[i].setup \in Nat /\ slot[i].last \in Nat /\ slot[i].asOf \in Nat
         /\ Outdated(slot[i], now) => Outdated(slot[i], now')
  BY <1>1, FileFields, OutdatedLater
<1>3. DateInv'
  <2>1. Dated(bear', now')
    BY <1>1 DEF FilesInv, DateInv, Dated
  <2>2. ASSUME NEW i \in {0, 1}, Complete(slot[i])
        PROVE  /\ Dated(slot[i], now') /\ Past(slot[i].setup, bear, pc', started)
               /\ pc' \in {"warmed", "loading"} => Dated(slot[i], started)
    BY <1>1, <1>2, <2>2 DEF FilesInv, DateInv, Dated, Past
  <2>3. ASSUME NEW t \in Time, sent["BEAR"][t] # 0
        PROVE  t <= now' /\ Past(t, bear, pc', started)
    BY <1>1, <2>3 DEF FilesInv, DateInv, Past
  <2>4. QED BY <2>1, <2>2, <2>3 DEF DateInv
<1>4. TwinInv'
  BY DEF FilesInv, TwinInv, Twins, NotAhead
<1>5. TightInv'
  <2> SUFFICES ASSUME NEW t \in Time
               PROVE  /\ sent["BEAR"][t] <= 1 + lost
                      /\ sent["BEAR"][t] = 1 + lost =>
                            /\ ~Watches(bear, t)
                            /\ \A i \in {0, 1} : Complete(slot[i]) /\ Watches(slot[i], t) =>
                                  Covered(slot[i], slot[1 - i], bear, pc', now', t)
    BY DEF TightInv, Spent
  <2>1. ASSUME NEW i \in {0, 1}, Complete(slot[i]), Covered(slot[i], slot[1 - i], bear, pc, now, t)
        PROVE  Covered(slot[i], slot[1 - i], bear, pc', now', t)
    BY <1>2, <2>1 DEF Covered
  <2>2. QED BY <2>1 DEF FilesInv, TightInv, Spent
<1>6. NewestInv'
  <2> SUFFICES ASSUME ~wentOn
               PROVE  /\ pc' \in Up => Sequences(slot, bear, pc', now')
                      /\ Rising(slot) /\ Highest(slot, saved, now')
    BY DEF NewestInv, Rising, Highest, Sequences
  <2>1. (pc \in Up => Sequences(slot, bear, pc, now)) /\ Rising(slot) /\ Highest(slot, saved, now)
    BY DEF FilesInv, NewestInv
  <2>2. pc' \in Up => Sequences(slot, bear, pc', now')
    BY <1>2, <2>1 DEF Sequences
  <2>3. Highest(slot, saved, now')
    BY <1>2, <2>1 DEF Highest
  <2>4. QED BY <2>1, <2>2, <2>3
<1>7. QED BY <1>3, <1>4, <1>5, <1>6 DEF FilesInv

(* What a start begins with, and when it takes no file over. *)
LEMMA LoadCases ==
    ASSUME slot \in Slots, NEW b \in Loaded
    PROVE  \/ b = Seeded /\ \A i \in {0, 1} : ~Complete(slot[i])
           \/ \E i \in {0, 1} :
                 /\ Complete(slot[i])
                 /\ \A j \in {0, 1} : Complete(slot[j]) => slot[j].seq <= slot[i].seq
                 /\ \/ b = slot[i] /\ ~Outdated(slot[i], now)
                    \/ b = Seeded /\ Outdated(slot[i], now)
<1>1. CASE slot[0] = Missing /\ slot[1] = Missing
  BY <1>1, ReadableFiles DEF Loaded
<1>2. CASE ~(slot[0] = Missing /\ slot[1] = Missing)
  <2>1. Readable # {} /\ b = IF Stale THEN Seeded ELSE Picked
    BY <1>2 DEF Loaded
  <2>2. QED BY <2>1, PickedIs DEF Stale, Outdated
<1>3. QED BY <1>1, <1>2

(* The dates of a machine that begins anew. *)
LEMMA SeededDates ==
    ASSUME latest \in [Frame -> Time]
    PROVE  /\ Seeded.phase = "IDLE" /\ Seeded.setup = 0 /\ Seeded.last = 0 /\ Seeded.seq = 0
           /\ Seeded.asOf = latest["M1"]
<1> DEFINE seeds == [f \in Frame |-> {latest[f]} \ {0}]
           none == [f \in Frame |-> {}]
<1>1. Seeded = [Empty EXCEPT !.bars = seeds, !.asOf = latest["M1"]]
  BY DEF Seeded
<1>2. Empty = [phase |-> "IDLE", setup |-> 0, last |-> 0, armed |-> 0, seq |-> 0,
               asOf |-> 0, bars |-> none]
  BY DEF Empty
<1> HIDE DEF seeds, none
<1>3. QED BY <1>1, <1>2

(* The M1 bar that closed last closed now. *)
LEMMA MinuteClosed ==
    ASSUME NEW n \in Time
    PROVE  ClosedAt(n, "M1") = n
<1>1. n \in Nat /\ Period["M1"] = 1
  BY PeriodAssumption DEF Time
<1>2. n % 1 = 0
  BY <1>1
<1>3. QED BY <1>1, <1>2 DEF ClosedAt

LEMMA WarmupFiles ==
    ASSUME StageInv, FilesInv, Warmup
    PROVE  FilesInv'
<1>1. /\ UNCHANGED <<bear, slot, lost, saved, wentOn, sent, now>> /\ started' = now
      /\ pc = "down" /\ pc' = "warmed" /\ pc \notin Up /\ pc' \notin Up
  BY DEF Warmup, Up, Polling, Busy, Side
<1>2. DateInv'
  <2>1. ASSUME NEW i \in {0, 1}, Complete(slot[i])
        PROVE  Dated(slot[i], now) /\ Past(slot[i].setup, bear, pc', now)
    <3>1. Dated(slot[i], now) /\ slot[i].setup \in Nat /\ slot[i].last \in Nat /\ now \in Nat
      BY <2>1, FileFields, Types DEF FilesInv, DateInv, StageInv, Time
    <3>2. QED BY <1>1, <3>1 DEF Past, Dated
  <2>2. ASSUME NEW t \in Time, sent["BEAR"][t] # 0
        PROVE  t <= now /\ Past(t, bear, pc', now)
    BY <1>1, <2>2 DEF FilesInv, DateInv, Past
  <2>3. Dated(bear, now)
    BY DEF FilesInv, DateInv
  <2>4. QED BY <1>1, <2>1, <2>2, <2>3 DEF DateInv
<1>3. TwinInv'
  BY <1>1 DEF FilesInv, TwinInv, Twins
<1>4. TightInv'
  BY <1>1 DEF FilesInv, TightInv, Spent, Covered
<1>5. NewestInv'
  BY <1>1 DEF FilesInv, NewestInv, Rising, Highest
<1>6. QED BY <1>2, <1>3, <1>4, <1>5 DEF FilesInv

(* A start: what it takes over is the later of the files that matter, and never one that *)
(* would signal again what was signalled and saved.                                      *)
LEMMA LoadFiles ==
    ASSUME StageInv, MachineInv, HistoryInv, FilesInv, LoadBear
    PROVE  FilesInv'
<1>1. /\ UNCHANGED <<slot, lost, saved, wentOn, sent, now, started>>
      /\ pc = "loading" /\ pc' = "idle" /\ pc' \in Up /\ bear' \in Loaded
  BY DEF LoadBear, Up
<1>2. /\ now \in Nat /\ started \in Nat /\ started <= now /\ Time \subseteq Nat
      /\ slot \in Slots /\ latest \in [Frame -> Time] /\ started \in Time
  BY Types DEF StageInv, HistoryInv, Elapsed
<1>3. /\ Seeded.phase = "IDLE" /\ Seeded.setup = 0 /\ Seeded.last = 0 /\ Seeded.seq = 0
      /\ Seeded.asOf = started
  <2>1. latest["M1"] = ClosedAt(started, "M1")
    BY <1>1 DEF HistoryInv, Frame
  <2>2. QED BY <1>2, <2>1, SeededDates, MinuteClosed
<1>4. \A i \in {0, 1} : Complete(slot[i]) =>
         /\ slot[i].setup \in Nat /\ slot[i].last \in Nat /\ slot[i].seq \in Nat
         /\ slot[i].asOf \in Nat /\ slot[i].phase \in Phase
         /\ Dated(slot[i], started) /\ Dated(slot[i], now) /\ slot[i].seq % 2 = i
  BY <1>1, FileFields, MachineFields DEF FilesInv, DateInv, MachineInv, SlotFor
<1> DEFINE Top(i) == /\ Complete(slot[i])
                     /\ \A j \in {0, 1} : Complete(slot[j]) => slot[j].seq <= slot[i].seq
<1>5. \/ bear' = Seeded /\ \A i \in {0, 1} : ~Complete(slot[i])
      \/ \E i \in {0, 1} : Top(i) /\ bear' = slot[i] /\ ~Outdated(slot[i], now)
      \/ \E i \in {0, 1} : Top(i) /\ bear' = Seeded /\ Outdated(slot[i], now)
  BY <1>1, <1>2, LoadCases
<1>6. bear' = Seeded \/ \E i \in {0, 1} : Complete(slot[i]) /\ bear' = slot[i]
  BY <1>5
<1>7. DateInv'
  <2>1. Dated(bear', now)
    BY <1>2, <1>3, <1>4, <1>6 DEF Dated, Watching
  <2>2. ASSUME NEW i \in {0, 1}, Complete(slot[i])
        PROVE  Dated(slot[i], now) /\ Past(slot[i].setup, bear', pc', started)
    BY <1>1, <1>2, <1>4, <2>2 DEF Past, Dated
  <2>3. ASSUME NEW t \in Time, sent["BEAR"][t] # 0
        PROVE  t <= now /\ Past(t, bear', pc', started)
    BY <1>1, <2>3 DEF FilesInv, DateInv, Past
  <2>4. QED BY <1>1, <2>1, <2>2, <2>3 DEF DateInv
<1>8. TwinInv'
  <2>1. Twins(slot)
    BY DEF FilesInv, TwinInv
  <2>2. NotAhead(slot, bear')
    <3>1. CASE bear' = Seeded
      BY <1>3, <3>1 DEF NotAhead
    <3>2. CASE \E i \in {0, 1} : Top(i) /\ bear' = slot[i]
      BY <2>1, <3>2 DEF NotAhead, Twins, Behind
    <3>3. QED BY <1>5, <3>1, <3>2
  <2>3. QED BY <1>1, <2>1, <2>2 DEF TwinInv
<1>9. TightInv'
  <2> SUFFICES ASSUME NEW t \in Time
               PROVE  /\ sent["BEAR"][t] <= 1 + lost
                      /\ Spent(t) =>
                            /\ ~Watches(bear', t)
                            /\ \A i \in {0, 1} : Complete(slot[i]) /\ Watches(slot[i], t) =>
                                  Covered(slot[i], slot[1 - i], bear', pc', now, t)
    BY <1>1 DEF TightInv, Spent
  <2>1. sent["BEAR"][t] <= 1 + lost
    BY DEF FilesInv, TightInv
  <2>2. ASSUME Spent(t), NEW i \in {0, 1}, Complete(slot[i]), Watches(slot[i], t)
        PROVE  \/ Outdated(slot[i], now)
               \/ Complete(slot[1 - i]) /\ Behind(slot[i], slot[1 - i])
    BY <1>1, <2>2 DEF FilesInv, TightInv, Covered
  <2>3. ASSUME Spent(t), NEW i \in {0, 1}, Top(i), Watches(slot[i], t)
        PROVE  Outdated(slot[i], now)
    <3>1. CASE Complete(slot[1 - i]) /\ Behind(slot[i], slot[1 - i])
      <4>1. slot[i].seq = slot[1 - i].seq /\ slot[i].seq % 2 = i /\ slot[1 - i].seq % 2 = 1 - i
        BY <1>4, <2>3, <3>1 DEF Behind
      <4>2. QED BY <4>1
    <3>2. QED BY <2>2, <2>3, <3>1
  <2>4. ASSUME Spent(t) PROVE ~Watches(bear', t)
    <3>1. CASE bear' = Seeded
      BY <1>3, <3>1 DEF Watches, Watching
    <3>2. CASE \E i \in {0, 1} : Top(i) /\ bear' = slot[i] /\ ~Outdated(slot[i], now)
      BY <2>3, <2>4, <3>2
    <3>3. QED BY <1>5, <3>1, <3>2
  <2>5. ASSUME Spent(t), NEW i \in {0, 1}, Complete(slot[i]), Watches(slot[i], t)
        PROVE  Outdated(slot[i], now) \/ Behind(slot[i], bear')
    <3>1. CASE bear' = Seeded /\ \A j \in {0, 1} : ~Complete(slot[j])
      BY <2>5, <3>1
    <3>2. ASSUME NEW j \in {0, 1}, Top(j), bear' = slot[j]
          PROVE  Outdated(slot[i], now) \/ Behind(slot[i], bear')
      <4>1. CASE j = i
        BY <1>4, <2>5, <3>2, <4>1 DEF Behind
      <4>2. CASE j = 1 - i
        <5>1. CASE Outdated(slot[i], now)
          BY <5>1
        <5>2. CASE Behind(slot[i], slot[1 - i])
          BY <3>2, <4>2, <5>2
        <5>3. QED BY <2>2, <2>5, <5>1, <5>2
      <4>3. QED BY <4>1, <4>2
    <3>3. ASSUME NEW j \in {0, 1}, Top(j), Outdated(slot[j], now)
          PROVE  Outdated(slot[i], now)
      <4>1. CASE j = i
        BY <3>3, <4>1
      <4>2. CASE j = 1 - i
        <5>1. CASE Behind(slot[i], slot[1 - i])
          <6>1. slot[i].asOf <= slot[j].asOf /\ slot[i].asOf \in Nat /\ slot[j].asOf \in Nat
            BY <1>4, <2>5, <3>3, <4>2, <5>1 DEF Behind
          <6>2. QED BY <1>2, <3>3, <6>1, WindowAssumption DEF Outdated
        <5>2. QED BY <2>2, <2>5, <5>1
      <4>3. QED BY <4>1, <4>2
    <3>4. QED BY <1>5, <3>1, <3>2, <3>3
  <2>6. QED BY <1>1, <2>1, <2>2, <2>4, <2>5 DEF Covered
<1>10. NewestInv'
  <2> SUFFICES ASSUME ~wentOn
               PROVE  Sequences(slot, bear', pc', now) /\ Rising(slot) /\ Highest(slot, saved, now)
    BY <1>1 DEF NewestInv
  <2>1. Rising(slot) /\ Highest(slot, saved, now)
    BY DEF FilesInv, NewestInv
  <2>2. CASE bear' = Seeded /\ \A i \in {0, 1} : ~Complete(slot[i])
    BY <2>1, <2>2 DEF Sequences
  <2>3. ASSUME NEW i \in {0, 1}, Top(i), bear' = slot[i]
        PROVE  Sequences(slot, bear', pc', now)
    <3>1. CASE i = 0
      BY <1>4, <2>3, <3>1 DEF Sequences
    <3>2. CASE i = 1
      BY <1>4, <2>1, <2>3, <3>2 DEF Sequences, Rising
    <3>3. QED BY <3>1, <3>2
  <2>4. ASSUME NEW i \in {0, 1}, Top(i), bear' = Seeded, Outdated(slot[i], now)
        PROVE  Sequences(slot, bear', pc', now)
    <3>1. ASSUME Complete(slot[0]), slot[0].seq # 0
          PROVE  Outdated(slot[0], now)
      <4>1. CASE i = 0
        BY <2>4, <4>1
      <4>2. CASE i = 1
        <5>1. slot[0].asOf <= slot[1].asOf /\ slot[0].asOf \in Nat /\ slot[1].asOf \in Nat
          BY <1>4, <2>1, <2>4, <3>1, <4>2 DEF Rising
        <5>2. QED BY <1>2, <2>4, <4>2, <5>1, WindowAssumption DEF Outdated
      <4>3. QED BY <4>1, <4>2
    <3>2. Complete(slot[0]) => slot[0].asOf <= started
      BY <1>4 DEF Dated
    <3>3. QED BY <1>3, <2>4, <3>1, <3>2 DEF Sequences
  <2>5. QED BY <1>5, <2>1, <2>2, <2>3, <2>4
<1>11. QED BY <1>7, <1>8, <1>9, <1>10 DEF FilesInv

(* A bar is fed: a setup that is found is later than all that files and signals know, and *)
(* what is signalled was watched.                                                         *)
LEMMA DispatchFiles ==
    ASSUME StageInv, MachineInv, HistoryInv, FilesInv, DispatchClosedBar
    PROVE  FilesInv'
<1>1. /\ UNCHANGED <<slot, lost, saved, wentOn, now, started>>
      /\ pc = "dispatch" /\ pc' = "save" /\ pc \in Up /\ pc' \in Up
      /\ pc' \notin {"warmed", "loading"}
      /\ bear' \in OnBarClose(bear, Bar)
      /\ \/ sent' = sent
         \/ bear'.phase = "ENTRY_READY" /\ bear' # bear /\ Submit("BEAR", bear'.setup)
  BY DEF DispatchClosedBar, scheduler, history, Up, Busy
<1>2. /\ now \in Time /\ now \in Nat /\ started \in Nat /\ Time \subseteq Nat
      /\ sent \in [Strategy -> [Time -> Nat]] /\ bear \in Machine /\ Sound(bear)
      /\ pending \in Seq(BarType) /\ pending # <<>>
  BY <1>1, Types DEF StageInv, MachineInv, Kept, Busy
<1>3. Bar \in BarType /\ Bar.t \in Nat /\ started < Bar.t /\ Bar.t <= now
  <2>1. Bar = pending[1] /\ 1 \in DOMAIN pending /\ Bar \in BarType /\ Bar.frame \in Frame /\ Bar.t \in Time
    BY <1>2, HeadIsABar DEF BarType
  <2>2. started < Bar.t /\ Bar.t <= ClosedAt(now, Bar.frame)
    BY <1>1, <2>1 DEF HistoryInv, MachineInv, Bars
  <2>3. ClosedAt(now, Bar.frame) \in 0 .. now
    BY <1>2, <2>1, ClosedGrows
  <2>4. Bar.t \in Nat /\ Bar.t <= now
    <3> DEFINE n == ClosedAt(now, Bar.frame)
    <3>1. n \in 0 .. now /\ Bar.t <= n /\ Bar.t \in Nat
      BY <1>2, <2>1, <2>2, <2>3
    <3> HIDE DEF n
    <3>2. QED BY <1>2, <3>1
  <2>5. QED BY <2>1, <2>2, <2>4
<1> DEFINE b == bear
           e == bear'
<1>4. \/ e = b
      \/ /\ e.seq = b.seq + 1 /\ e.asOf = Larger(b.asOf, Bar.t)
         /\ \/ /\ e.last = b.last /\ e.setup \in {0, b.setup}
               /\ e.phase \in Watching \cup {"ENTRY_READY"} => Watches(b, e.setup)
            \/ Bar.t > b.last /\ e.last = Bar.t /\ e.setup = Bar.t
  BY <1>1, <1>2, <1>3, OnBarCloseDates
<1>5. /\ b.setup \in Nat /\ b.last \in Nat /\ b.seq \in Nat /\ b.asOf \in Nat
      /\ b.setup <= b.last /\ b.last <= now /\ b.asOf <= now
      /\ b.phase \in Watching => 0 < b.setup
  BY <1>2, MachineFields DEF FilesInv, DateInv, Dated
<1>6. Larger(b.asOf, Bar.t) \in Nat /\ b.asOf <= Larger(b.asOf, Bar.t) /\ Larger(b.asOf, Bar.t) <= now
  BY <1>3, <1>5, LargerFacts
<1>7. /\ e.setup \in Nat /\ e.last \in Nat /\ e.seq \in Nat /\ e.asOf \in Nat
      /\ Dated(e, now) /\ b.last <= e.last /\ Behind(b, e)
  BY <1>3, <1>4, <1>5, <1>6 DEF Dated, Behind, Watches
<1>8. e.setup \in {0, b.setup} \/ (e.setup = Bar.t /\ b.last < Bar.t)
  BY <1>3, <1>4, <1>5
<1>9. ASSUME NEW t \in Nat, Past(t, b, pc, started)
      PROVE  Past(t, e, pc', started) /\ (t = e.setup => t \in {0, b.setup})
  BY <1>1, <1>2, <1>3, <1>5, <1>7, <1>8, <1>9 DEF Past
<1>10. \A i \in {0, 1} : Complete(slot[i]) =>
          /\ slot[i].setup \in Nat /\ slot[i].seq \in Nat /\ slot[i].asOf \in Nat
          /\ Dated(slot[i], now) /\ Past(slot[i].setup, b, pc, started)
  BY FileFields DEF FilesInv, DateInv
<1>11. \A t \in Time : sent["BEAR"][t] \in Nat /\ (sent["BEAR"][t] # 0 => Past(t, b, pc, started))
  BY <1>2 DEF FilesInv, DateInv, Strategy
<1> HIDE DEF b, e
\* What is signalled was watched, or found just now.
<1>12. ASSUME sent' # sent
       PROVE  /\ Submit("BEAR", e.setup) /\ e.setup \in Time /\ e.setup <= now
              /\ e.setup <= started \/ e.setup <= e.last
              /\ ~Spent(e.setup)
  <2>1. Submit("BEAR", e.setup) /\ e.phase = "ENTRY_READY" /\ e # b
    BY <1>1, <1>12 DEF b, e
  <2>2. Sound(bear')
    BY <1>1, <1>2, <1>3, OnBarCloseFacts DEF MachineInv, Kept
  <2>3. e.setup \in Time /\ e.setup <= e.last /\ e.last <= now
    BY <2>2, <1>7, MachineFields DEF e, Sound, Dated
  <2>4. CASE Watches(b, e.setup)
    <3>1. ~Spent(e.setup)
      BY <2>3, <2>4 DEF FilesInv, TightInv, b
    <3>2. QED BY <1>2, <1>7, <2>1, <2>3, <3>1
  <2>5. CASE Bar.t > b.last /\ e.setup = Bar.t
    <3>1. ~Past(Bar.t, b, pc, started)
      BY <1>1, <1>2, <1>3, <1>5, <2>5 DEF Past, b
    <3>2. sent["BEAR"][Bar.t] = 0
      BY <1>11, <2>3, <2>5, <3>1
    <3>3. ~Spent(e.setup)
      BY <2>5, <3>2, Types DEF Spent, StageInv, TypeOK
    <3>4. QED BY <1>2, <1>7, <2>1, <2>3, <3>3
  <2>6. QED BY <1>4, <2>1, <2>4, <2>5
<1>13. ASSUME NEW t \in Time
       PROVE  sent'["BEAR"][t] = IF sent' # sent /\ t = e.setup
                                 THEN sent["BEAR"][t] + 1 ELSE sent["BEAR"][t]
  <2>1. CASE sent' = sent
    BY <2>1
  <2>2. CASE sent' # sent
    <3>1. "BEAR" \in Strategy /\ e.setup \in Time /\ Submit("BEAR", e.setup)
      BY <1>12, <2>2 DEF Strategy
    <3>2. \A h \in Strategy, u \in Time :
             sent'[h][u] = IF h = "BEAR" /\ u = e.setup THEN sent[h][u] + 1 ELSE sent[h][u]
      BY <1>2, <3>1, SubmitFacts
    <3>3. QED BY <2>2, <3>1, <3>2
  <2>3. QED BY <2>1, <2>2
<1>14. DateInv'
  <2>1. ASSUME NEW i \in {0, 1}, Complete(slot[i])
        PROVE  Dated(slot[i], now) /\ Past(slot[i].setup, e, pc', started)
    BY <1>9, <1>10, <2>1
  <2>2. ASSUME NEW t \in Time, sent'["BEAR"][t] # 0
        PROVE  t <= now /\ Past(t, e, pc', started)
    <3>1. CASE sent["BEAR"][t] # 0
      <4>1. t <= now /\ t \in Nat
        BY <1>2, <3>1 DEF FilesInv, DateInv
      <4>2. QED BY <1>9, <1>11, <3>1, <4>1
    <3>2. CASE sent["BEAR"][t] = 0
      <4>1. sent' # sent /\ t = e.setup
        BY <1>13, <2>2, <3>2
      <4>2. QED BY <1>1, <1>12, <4>1 DEF Past
    <3>3. QED BY <3>1, <3>2
  <2>3. QED BY <1>1, <1>7, <2>1, <2>2 DEF DateInv, e
<1>15. TwinInv'
  <2>1. Twins(slot)
    BY DEF FilesInv, TwinInv
  <2>2. ASSUME NEW i \in {0, 1}, Complete(slot[i]), slot[i].setup = e.setup, e.setup # 0
        PROVE  Behind(slot[i], e)
    <3>1. slot[i].setup = b.setup /\ b.setup # 0
      BY <1>9, <1>10, <2>2
    <3>2. Behind(slot[i], b)
      BY <1>1, <2>2, <3>1 DEF FilesInv, TwinInv, NotAhead, b
    <3>3. QED BY <1>5, <1>7, <1>10, <2>2, <3>2 DEF Behind, b
  <2>3. QED BY <1>1, <2>1, <2>2 DEF TwinInv, NotAhead, e
<1>16. TightInv'
  <2> SUFFICES ASSUME NEW t \in Time
               PROVE  /\ sent'["BEAR"][t] <= 1 + lost
                      /\ sent'["BEAR"][t] = 1 + lost =>
                            /\ ~Watches(e, t)
                            /\ \A i \in {0, 1} : Complete(slot[i]) /\ Watches(slot[i], t) =>
                                  Covered(slot[i], slot[1 - i], e, pc', now, t)
    BY <1>1 DEF TightInv, Spent, e
  <2>1. CASE sent' # sent /\ t = e.setup
    <3>1. /\ sent["BEAR"][t] \in Nat /\ lost \in Nat /\ sent["BEAR"][t] <= 1 + lost
          /\ sent["BEAR"][t] # 1 + lost
      BY <1>11, <1>12, <2>1, Types DEF FilesInv, TightInv, Spent, StageInv, TypeOK
    <3>2. sent'["BEAR"][t] <= 1 + lost
      BY <1>13, <2>1, <3>1
    <3>3. ~Watches(e, t)
      BY <1>1, <2>1 DEF Watches, Watching, e
    <3>4. ASSUME NEW i \in {0, 1}, Complete(slot[i]), Watches(slot[i], t)
          PROVE  Covered(slot[i], slot[1 - i], e, pc', now, t)
      <4>1. slot[i].setup = e.setup /\ e.setup # 0
        BY <1>10, <2>1, <3>4 DEF Watches, Dated
      <4>2. Behind(slot[i], e)
        BY <1>1, <1>15, <3>4, <4>1 DEF TwinInv, NotAhead, e
      <4>3. QED BY <1>1, <2>1, <4>2 DEF Covered
    <3>5. QED BY <3>2, <3>3, <3>4
  <2>2. CASE ~(sent' # sent /\ t = e.setup)
    <3>1. sent'["BEAR"][t] = sent["BEAR"][t]
      BY <1>13, <2>2
    <3>2. sent["BEAR"][t] <= 1 + lost
      BY DEF FilesInv, TightInv
    <3>3. ASSUME Spent(t)
          PROVE  ~Watches(e, t)
      <4>1. sent["BEAR"][t] # 0 /\ t \in Nat
        BY <1>2, <3>3 DEF Spent, StageInv, TypeOK
      <4>2. Past(t, b, pc, started) /\ ~Watches(b, t)
        BY <1>11, <3>3, <4>1 DEF FilesInv, TightInv, b
      <4>3. CASE e = b
        BY <4>2, <4>3
      <4>4. CASE e.phase \in Watching \cup {"ENTRY_READY"} => Watches(b, e.setup)
        BY <4>2, <4>4 DEF Watches
      <4>5. CASE Bar.t > b.last /\ e.setup = Bar.t
        BY <1>1, <1>2, <1>3, <1>5, <4>1, <4>2, <4>5 DEF Past, Watches, b
      <4>6. QED BY <1>4, <4>3, <4>4, <4>5
    <3>4. ASSUME Spent(t), NEW i \in {0, 1}, Complete(slot[i]), Watches(slot[i], t)
          PROVE  Covered(slot[i], slot[1 - i], e, pc', now, t)
      <4>1. Covered(slot[i], slot[1 - i], b, pc, now, t)
        BY <3>4 DEF FilesInv, TightInv, b
      <4>2. Behind(slot[i], b) => Behind(slot[i], e)
        BY <1>5, <1>7, <1>10, <3>4 DEF Behind, b
      <4>3. QED BY <1>1, <4>1, <4>2 DEF Covered
    <3>5. QED BY <3>1, <3>2, <3>3, <3>4 DEF Spent
  <2>3. QED BY <2>1, <2>2
<1>17. NewestInv'
  <2> SUFFICES ASSUME ~wentOn
               PROVE  Sequences(slot, e, pc', now) /\ Rising(slot) /\ Highest(slot, saved, now)
    BY <1>1 DEF NewestInv, e
  <2>1. Sequences(slot, b, pc, now) /\ Rising(slot) /\ Highest(slot, saved, now)
    BY <1>1 DEF FilesInv, NewestInv, b
  <2>2. b.seq \in Nat /\ b.asOf \in Nat /\ e.seq \in {b.seq, b.seq + 1} /\ b.asOf <= e.asOf
    BY <1>4, <1>5, <1>7 DEF Behind, b
  <2>3. Complete(slot[0]) => /\ slot[0].seq <= e.seq \/ Outdated(slot[0], now)
                             /\ slot[0].seq = 0 \/ slot[0].asOf <= e.asOf
    BY <1>7, <1>10, <2>1, <2>2 DEF Sequences
  <2>4. Complete(slot[1]) => slot[1].seq <= e.seq \/ e.seq = 0 \/ (e.seq = 1 /\ pc' = "save")
    BY <1>1, <1>7, <1>10, <2>1, <2>2 DEF Sequences
  <2>5. QED BY <2>1, <2>3, <2>4 DEF Sequences
<1>18. QED BY <1>14, <1>15, <1>16, <1>17 DEF FilesInv

\* What the files are for a machine b of the run that began at time start.
Settles(fs, b, start, n) ==
    /\ \A i \in {0, 1} : Complete(fs[i]) =>
          Dated(fs[i], n) /\ (fs[i].setup <= start \/ fs[i].setup <= b.last)
    /\ Twins(fs) /\ NotAhead(fs, b)
    /\ \A t \in Time : Spent(t) =>
          \A i \in {0, 1} : Complete(fs[i]) /\ Watches(fs[i], t) =>
             /\ Outdated(fs[i], n) \/ Behind(fs[i], b)
             /\ Outdated(fs[i], n) \/ (Complete(fs[1 - i]) /\ Behind(fs[i], fs[1 - i]))
    /\ ~wentOn => Sequences(fs, b, "idle", n) /\ Rising(fs) /\ Highest(fs, b, n)

(* A save: the file that is written is the later one, or the other one is stale. *)
LEMMA WrittenSettles ==
    ASSUME StageInv, MachineInv, FilesInv, pc \in Up
    PROVE  Settles(Written(bear), bear, started, now)
<1> DEFINE w == SlotFor(bear)
           o == 1 - w
           fs == Written(bear)
<1>1. /\ bear \in Machine /\ bear.seq \in Nat /\ bear.asOf \in Nat /\ slot \in Slots
      /\ Dated(bear, now) /\ pc \notin {"warmed", "loading"}
  BY Types, MachineFields DEF StageInv, FilesInv, DateInv, Up, Polling, Busy, Side
<1>2. /\ w \in {0, 1} /\ o \in {0, 1} /\ fs[w] = bear /\ fs[o] = slot[o] /\ bear.seq % 2 = w
      /\ \A i \in {0, 1} : i = w \/ i = o
  BY <1>1 DEF SlotFor, Written, Slots
<1>3. 1 - w = o /\ 1 - o = w /\ w # o
  BY <1>2
<1>4. Complete(slot[o]) =>
         /\ slot[o].seq \in Nat /\ slot[o].asOf \in Nat /\ slot[o].seq % 2 = o
         /\ Dated(slot[o], now)
         /\ slot[o].setup <= started \/ slot[o].setup <= bear.last
  BY <1>1, <1>2, FileFields DEF FilesInv, DateInv, Past, MachineInv, SlotFor
<1>5. Complete(slot[o]) /\ slot[o].setup = bear.setup /\ bear.setup # 0 => Behind(slot[o], bear)
  BY <1>2 DEF FilesInv, TwinInv, NotAhead
<1>6. Complete(slot[o]) => slot[o].seq # bear.seq
  BY <1>1, <1>2, <1>3, <1>4
<1>7. \A t \in Time : Spent(t) => ~Watches(bear, t) /\
         (Complete(slot[o]) /\ Watches(slot[o], t) => Outdated(slot[o], now) \/ Behind(slot[o], bear))
  BY <1>2 DEF FilesInv, TightInv, Covered
<1>8. Complete(bear)
  BY <1>1 DEF Machine, Complete
<1> HIDE DEF w, o, fs
<1>9. \A i \in {0, 1} : Complete(fs[i]) =>
         Dated(fs[i], now) /\ (fs[i].setup <= started \/ fs[i].setup <= bear.last)
  BY <1>1, <1>2, <1>4 DEF Dated
<1>10. Twins(fs)
  <2> SUFFICES ASSUME NEW i \in {0, 1}, NEW j \in {0, 1}, Complete(fs[i]), Complete(fs[j]),
                      fs[i].setup = fs[j].setup, fs[i].setup # 0, fs[i].seq <= fs[j].seq
               PROVE  fs[i].asOf <= fs[j].asOf
    BY DEF Twins
  <2>1. CASE fs[i] = fs[j]
    BY <1>1, <1>2, <1>4, <2>1
  <2>2. CASE i = o /\ j = w
    BY <1>2, <1>5, <2>2 DEF Behind
  <2>3. CASE i = w /\ j = o
    <3>1. Behind(slot[o], bear) /\ slot[o].seq \in Nat /\ slot[o].seq # bear.seq
      BY <1>2, <1>4, <1>5, <1>6, <2>3
    <3>2. bear.seq <= slot[o].seq
      BY <1>2, <2>3
    <3>3. QED BY <1>1, <3>1, <3>2 DEF Behind
  <2>4. QED BY <1>2, <2>1, <2>2, <2>3
<1>11. NotAhead(fs, bear)
  BY <1>1, <1>2, <1>5 DEF NotAhead, Behind
<1>12. ASSUME NEW t \in Time, Spent(t), NEW i \in {0, 1}, Complete(fs[i]), Watches(fs[i], t)
       PROVE  /\ Outdated(fs[i], now) \/ Behind(fs[i], bear)
              /\ Outdated(fs[i], now) \/ (Complete(fs[1 - i]) /\ Behind(fs[i], fs[1 - i]))
  <2>1. i = o
    BY <1>2, <1>7, <1>12
  <2>2. fs[i] = slot[o] /\ fs[1 - i] = bear
    BY <1>2, <1>3, <2>1
  <2>3. QED BY <1>7, <1>8, <1>12, <2>2
<1>13. ASSUME ~wentOn
       PROVE  Sequences(fs, bear, "idle", now) /\ Rising(fs) /\ Highest(fs, bear, now)
  <2>1. Sequences(slot, bear, pc, now)
    BY <1>13 DEF FilesInv, NewestInv
  <2>2. CASE w = 0
    <3>1. o = 1 /\ fs[0] = bear /\ fs[1] = slot[1] /\ bear.seq # 1
      BY <1>1, <1>2, <1>3, <2>2
    <3>2. Complete(slot[1]) => slot[1].seq <= bear.seq \/ bear.seq = 0
      BY <2>1, <3>1 DEF Sequences
    <3>3. Complete(slot[1]) => slot[1].seq \in Nat /\ slot[1].seq # bear.seq
      BY <1>4, <1>6, <3>1
    <3>4. Sequences(fs, bear, "idle", now)
      BY <1>1, <3>1, <3>2 DEF Sequences
    <3>5. Rising(fs)
      BY <1>1, <3>1, <3>2, <3>3 DEF Rising
    <3>6. Highest(fs, bear, now)
      <4> SUFFICES ASSUME NEW i \in {0, 1}, Complete(fs[i]), Complete(fs[1 - i]), bear = fs[i],
                          bear.seq # 0
                   PROVE  fs[1 - i].seq <= bear.seq
        BY DEF Highest
      <4>1. CASE i = 0
        BY <3>1, <3>2, <4>1
      <4>2. CASE i = 1
        BY <3>1, <3>3, <4>2
      <4>3. QED BY <4>1, <4>2
    <3>7. QED BY <3>4, <3>5, <3>6
  <2>3. CASE w = 1
    <3>1. o = 0 /\ fs[1] = bear /\ fs[0] = slot[0]
      BY <1>2, <1>3, <2>3
    <3>2. Complete(slot[0]) => /\ slot[0].seq <= bear.seq \/ Outdated(slot[0], now)
                               /\ slot[0].seq = 0 \/ slot[0].asOf <= bear.asOf
      BY <2>1 DEF Sequences
    <3>3. Complete(slot[0]) => slot[0].seq # bear.seq
      BY <1>6, <3>1
    <3>4. Sequences(fs, bear, "idle", now)
      BY <1>1, <3>1, <3>2 DEF Sequences
    <3>5. Rising(fs)
      BY <3>1, <3>2 DEF Rising
    <3>6. Highest(fs, bear, now)
      <4> SUFFICES ASSUME NEW i \in {0, 1}, Complete(fs[i]), Complete(fs[1 - i]), bear = fs[i],
                          bear.seq # 0
                   PROVE  fs[1 - i].seq <= bear.seq \/ Outdated(fs[1 - i], now)
        BY DEF Highest
      <4>1. CASE i = 1
        BY <3>1, <3>2, <4>1
      <4>2. CASE i = 0
        BY <3>1, <3>3, <4>2
      <4>3. QED BY <4>1, <4>2
    <3>7. QED BY <3>4, <3>5, <3>6
  <2>4. QED BY <1>2, <2>2, <2>3
<1>14. Settles(fs, bear, started, now)
  BY <1>9, <1>10, <1>11, <1>12, <1>13 DEF Settles
<1>15. QED BY <1>14 DEF fs

LEMMA SaveBearFiles ==
    ASSUME StageInv, MachineInv, FilesInv, SaveBear
    PROVE  FilesInv'
<1>1. /\ slot' = Written(bear) /\ saved' = bear /\ pc = "save" /\ pc \in Up
      /\ UNCHANGED <<now, bear, sent, started, lost, wentOn>>
      /\ pc' \in {"BUY", "idle", "dispatch"}
  BY DEF SaveBear, Proceed, NextBar, Up, Busy
<1>2. pc' \in Up /\ pc' # "save" /\ pc' \notin {"warmed", "loading"}
  BY <1>1 DEF Up, Busy, Side
<1>3. Settles(slot', bear, started, now)
  BY <1>1, WrittenSettles
<1>4. DateInv'
  <2>1. \A t \in Time : sent["BEAR"][t] # 0 => t <= now /\ Past(t, bear, pc', started)
    BY <1>1, <1>2 DEF FilesInv, DateInv, Past
  <2>2. Dated(bear, now)
    BY DEF FilesInv, DateInv
  <2>3. QED BY <1>1, <1>2, <1>3, <2>1, <2>2 DEF DateInv, Settles, Past
<1>5. TwinInv'
  BY <1>1, <1>3 DEF TwinInv, Settles
<1>6. TightInv'
  <2>1. \A t \in Time : sent["BEAR"][t] <= 1 + lost /\ (Spent(t) => ~Watches(bear, t))
    BY DEF FilesInv, TightInv
  <2>2. ASSUME NEW t \in Time, Spent(t), NEW i \in {0, 1}, Complete(slot'[i]), Watches(slot'[i], t)
        PROVE  Covered(slot'[i], slot'[1 - i], bear, pc', now, t)
    BY <1>3, <2>2 DEF Settles, Covered
  <2>3. QED BY <1>1, <2>1, <2>2 DEF TightInv, Spent
<1>7. NewestInv'
  <2> SUFFICES ASSUME ~wentOn
               PROVE  Sequences(slot', bear, pc', now) /\ Rising(slot') /\ Highest(slot', bear, now)
    BY <1>1 DEF NewestInv
  <2>1. Sequences(slot', bear, "idle", now) /\ Rising(slot') /\ Highest(slot', bear, now)
    BY <1>3 DEF Settles
  <2>2. QED BY <2>1 DEF Sequences
<1>8. QED BY <1>4, <1>5, <1>6, <1>7 DEF FilesInv

(* A save that is lost leaves the files as they were, or one of them unreadable. *)
LEMMA LostFiles ==
    ASSUME StageInv, slot' \in {slot, Cut(bear)}
    PROVE  \A i \in {0, 1} : Complete(slot'[i]) => slot'[i] = slot[i] /\ Complete(slot[i])
<1>1. slot \in Slots /\ ~Complete(Torn)
  BY Types, ReadableFiles DEF StageInv
<1>2. \A i \in {0, 1} : slot'[i] \in {slot[i], Torn}
  BY <1>1 DEF Cut, Slots
<1>3. QED BY <1>1, <1>2

(* With one more save lost, every setup may be signalled once more. *)
LEMMA LostSignals ==
    ASSUME StageInv, FilesInv, lost' = lost + 1, sent' = sent
    PROVE  TightInv'
<1>1. \A t \in Time : sent["BEAR"][t] \in Nat /\ sent["BEAR"][t] <= 1 + lost
  BY Types DEF FilesInv, TightInv, StageInv, Strategy
<1>2. lost \in Nat
  BY DEF StageInv, TypeOK
<1>3. \A t \in Time : sent["BEAR"][t] <= 1 + lost' /\ sent["BEAR"][t] # 1 + lost'
  BY <1>1, <1>2
<1>4. QED BY <1>3 DEF TightInv, Spent

LEMMA SaveFailsFiles ==
    ASSUME StageInv, FilesInv, SaveFails
    PROVE  FilesInv'
<1>1. /\ slot' \in {slot, Cut(bear)} /\ lost' = lost + 1 /\ wentOn' = TRUE
      /\ pc \in Up /\ pc' \in {"BUY", "idle", "dispatch"} /\ pc = "save"
      /\ UNCHANGED <<now, bear, sent, started>>
  BY DEF SaveFails, Proceed, NextBar, Up, Busy
<1>2. pc' \in Up /\ pc' \notin {"warmed", "loading"} /\ pc \notin {"warmed", "loading"}
  BY <1>1 DEF Up, Busy, Side
<1>3. \A i \in {0, 1} : Complete(slot'[i]) => slot'[i] = slot[i] /\ Complete(slot[i])
  BY <1>1, LostFiles
<1>4. DateInv'
  BY <1>1, <1>2, <1>3 DEF FilesInv, DateInv, Past
<1>5. TwinInv'
  BY <1>1, <1>2, <1>3 DEF FilesInv, TwinInv, Twins, NotAhead
<1>6. TightInv'
  BY <1>1, LostSignals
<1>7. QED BY <1>1, <1>4, <1>5, <1>6 DEF FilesInv, NewestInv

(* The end of a run, with the machine saved, as it is in the files, or lost. *)
LEMMA EndFiles ==
    ASSUME StageInv, MachineInv, FilesInv, Stop \/ Crash
    PROVE  FilesInv'
<1>1. /\ pc' = "down" /\ bear' = Empty /\ UNCHANGED <<now, sent, wentOn>> /\ pc # "down"
      /\ pc' \notin Up /\ pc' # "save" /\ pc' \notin {"warmed", "loading"}
  BY DEF Stop, Crash, Ended, Up, Polling, Busy, Side
<1>2. Dated(Empty, now) /\ \A t \in Time : ~Watches(Empty, t)
  BY Types DEF Empty, Dated, Watches, Watching, StageInv
<1>3. /\ \A t \in Time : sent["BEAR"][t] # 0 => t <= now
      /\ \A i \in {0, 1} : Complete(slot[i]) => Dated(slot[i], now)
      /\ \A t \in Time : sent["BEAR"][t] <= 1 + lost
  BY DEF FilesInv, DateInv, TightInv
<1>4. CASE pc \in Up /\ slot' = Written(bear) /\ saved' = bear /\ lost' = lost
  <2>1. Settles(slot', bear, started, now)
    BY <1>4, WrittenSettles
  <2>2. DateInv'
    BY <1>1, <1>2, <1>3, <2>1 DEF DateInv, Settles, Past
  <2>3. TwinInv'
    BY <1>1, <2>1 DEF TwinInv, Settles
  <2>4. TightInv'
    <3>1. ASSUME NEW t \in Time, Spent(t), NEW i \in {0, 1}, Complete(slot'[i]), Watches(slot'[i], t)
          PROVE  Covered(slot'[i], slot'[1 - i], Empty, pc', now, t)
      BY <1>1, <2>1, <3>1 DEF Settles, Covered
    <3>2. QED BY <1>1, <1>2, <1>3, <1>4, <3>1 DEF TightInv, Spent
  <2>5. NewestInv'
    BY <1>1, <1>4, <2>1 DEF NewestInv, Settles
  <2>6. QED BY <2>2, <2>3, <2>4, <2>5 DEF FilesInv
<1>5. CASE slot' \in {slot, Cut(bear)} /\ saved' = saved /\ (lost' = lost + 1 \/ (UNCHANGED <<slot, lost>> /\ pc # "save"))
  <2>1. \A i \in {0, 1} : Complete(slot'[i]) => slot'[i] = slot[i] /\ Complete(slot[i])
    BY <1>5, LostFiles
  <2>2. DateInv'
    BY <1>1, <1>2, <1>3, <2>1 DEF DateInv, Past
  <2>3. TwinInv'
    BY <1>1, <2>1 DEF FilesInv, TwinInv, Twins
  <2>4. TightInv'
    <3>1. CASE lost' = lost + 1
      BY <1>1, <3>1, LostSignals
    <3>2. CASE UNCHANGED <<slot, lost>> /\ pc # "save"
      <4>1. ASSUME NEW t \in Time, Spent(t), NEW i \in {0, 1}, Complete(slot[i]), Watches(slot[i], t)
            PROVE  Covered(slot[i], slot[1 - i], Empty, pc', now, t)
        BY <1>1, <3>2, <4>1 DEF FilesInv, TightInv, Covered
      <4>2. QED BY <1>1, <1>2, <1>3, <3>2, <4>1 DEF TightInv, Spent
    <3>3. QED BY <1>5, <3>1, <3>2
  <2>5. NewestInv'
    <3> SUFFICES ASSUME ~wentOn PROVE Rising(slot') /\ Highest(slot', saved, now)
      BY <1>1, <1>5 DEF NewestInv
    <3>1. Rising(slot) /\ Highest(slot, saved, now)
      BY DEF FilesInv, NewestInv
    <3>2. QED BY <2>1, <3>1 DEF Rising, Highest
  <2>6. QED BY <2>2, <2>3, <2>4, <2>5 DEF FilesInv
<1>6. CASE Stop
  BY <1>4, <1>5, <1>6 DEF Stop, Up, Ended
<1>7. CASE Crash
  BY <1>5, <1>7 DEF Crash, Ended
<1>8. QED BY <1>6, <1>7

LEMMA FilesStep ==
    ASSUME StageInv, MachineInv, HistoryInv, FilesInv, [Next]_vars
    PROVE  FilesInv'
<1>1. sent \in [Strategy -> [Time -> Nat]]
  BY Types DEF StageInv
<1>2. CASE UNCHANGED vars \/ BarCloses
  BY <1>2, QuietFiles DEF vars, history, BarCloses
<1>3. CASE LookUnchanged \/ LookChanged \/ Read \/ PollFails
  <2>1. /\ UNCHANGED <<now, bear, slot, lost, started, saved, wentOn, sent>> /\ pc \in Up
        /\ pc # "save"
    BY <1>3 DEF history, LookUnchanged, LookChanged, Looking, Read, PollFails, Up, Polling
  <2>2. pc' \in {"idle", "look", "read", "dispatch"}
    BY <1>3 DEF LookUnchanged, LookChanged, Read, PollFails, NextFrame, Polled
  <2>3. QED BY <2>1, <2>2, QuietFiles
<1>4. CASE NoEntry \/ Decided \/ EvaluationFails
  <2>1. /\ UNCHANGED <<now, bear, slot, lost, started, saved, wentOn>> /\ pc \in Up /\ pc # "save"
        /\ pc' \in {"SELL", "idle", "dispatch"}
    BY <1>4 DEF NoEntry, Decided, EvaluationFails, SideDone, NextBar, history, Up, Busy, Side
  <2>2. sent'["BEAR"] = sent["BEAR"]
    BY <1>1, <1>4 DEF NoEntry, Decided, EvaluationFails, Submit, Strategy
  <2>3. QED BY <2>1, <2>2, QuietFiles
<1>5. CASE InitScheduler \/ RefuseStart
  <2>1. /\ UNCHANGED <<now, bear, slot, lost, started, saved, wentOn, sent>>
        /\ pc \in {"warmed", "loading"} /\ pc' \in {"loading", "down"}
    BY <1>5 DEF InitScheduler, RefuseStart, history
  <2>2. pc' \notin Up
    BY <2>1 DEF Up, Polling, Busy, Side
  <2>3. QED BY <2>1, <2>2, QuietFiles
<1>6. QED BY <1>2, <1>3, <1>4, <1>5, WarmupFiles, LoadFiles, DispatchFiles, SaveBearFiles,
          SaveFailsFiles, EndFiles DEF Next

(* The inductive invariant of the files, for any number of runs. *)
LEMMA FilesInvariant == Spec => [](StageInv /\ MachineInv /\ HistoryInv /\ FilesInv)
<1>1. StageInv /\ Init => HistoryInv /\ FilesInv
  BY InitHistory, InitFiles
<1>2. StageInv /\ MachineInv /\ HistoryInv /\ FilesInv /\ [Next]_vars => HistoryInv' /\ FilesInv'
  BY HistoryStep, FilesStep
<1>3. QED BY <1>1, <1>2, SafeInvariant, PTL DEF Spec

(* OneSignal holds for all periods and bounds: a Bear setup is signalled again only for a *)
(* save that did not reach the disk, however runs, stops, crashes and stale starts follow *)
(* one another, and a Revised one never.                                                  *)
THEOREM SetupsAreSignalledOnce == Spec => []OneSignal
<1>1. FilesInv => \A t \in Time : sent["BEAR"][t] <= 1 + lost
  BY DEF FilesInv, TightInv
<1>2. QED BY <1>1, FilesInvariant, RevisedIsSignalledOnce, PTL DEF OneSignal

(* LoadedIsNewest holds for all periods and bounds: of two whole files the one written    *)
(* last is taken over, unless it was never fed or a run went on after a failed save.      *)
THEOREM NewestIsLoaded == Spec => LoadedIsNewest
<1>1. ASSUME StageInv, MachineInv, FilesInv, pc = "loading", pc' = "idle", bear' # Seeded,
             saved \in {slot[0], slot[1]}, saved.seq # 0, ~wentOn, Next
      PROVE  bear' = saved
  <2>1. LoadBear
    BY <1>1 DEF Next, BarCloses, Warmup, InitScheduler, RefuseStart, LookUnchanged, LookChanged,
           Looking, Read, PollFails, DispatchClosedBar, SaveBear, SaveFails, NoEntry, Decided,
           EvaluationFails, Side, Stop, Crash, Ended
  <2>2. slot \in Slots /\ bear' \in Loaded
    BY <1>1, <2>1, Types DEF StageInv, LoadBear
  <2>3. PICK i \in {0, 1} :
           /\ Complete(slot[i]) /\ bear' = slot[i] /\ ~Outdated(slot[i], now)
           /\ \A j \in {0, 1} : Complete(slot[j]) => slot[j].seq <= slot[i].seq
    BY <1>1, <2>2, LoadCases
  <2>4. CASE saved = slot[i]
    BY <2>3, <2>4
  <2>5. CASE saved = slot[1 - i] /\ Complete(slot[1 - i])
    <3>1. slot[i].seq <= slot[1 - i].seq
      <4>1. Highest(slot, saved, now)
        BY <1>1 DEF FilesInv, NewestInv
      <4>2. 1 - i \in {0, 1} /\ 1 - (1 - i) = i
        OBVIOUS
      <4>3. QED BY <1>1, <2>3, <2>5, <4>1, <4>2 DEF Highest
    <3>2. /\ slot[1 - i].seq <= slot[i].seq /\ slot[i].seq \in Nat /\ slot[1 - i].seq \in Nat
          /\ slot[i].seq % 2 = i /\ slot[1 - i].seq % 2 = 1 - i
      BY <1>1, <2>3, <2>5, FileFields DEF MachineInv, SlotFor
    <3>3. QED BY <3>1, <3>2
  <2>6. CASE saved = slot[1 - i] /\ ~Complete(slot[1 - i])
    <3>1. slot[1 - i] \in {Missing, Torn}
      BY <2>2, <2>6 DEF Slots, Machine, Complete
    <3>2. Missing.seq = 0 /\ Torn.seq = 0
      BY DEF Missing, Torn, Empty
    <3>3. QED BY <1>1, <2>6, <3>1, <3>2
  <2>7. QED BY <1>1, <2>3, <2>4, <2>5, <2>6
<1>2. StageInv /\ MachineInv /\ FilesInv /\ [Next]_vars =>
         [(/\ pc = "loading" /\ pc' = "idle" /\ bear' # Seeded
           /\ saved \in {slot[0], slot[1]} /\ saved.seq # 0 /\ ~wentOn)
          => bear' = saved]_vars
  BY <1>1
<1>3. QED BY <1>2, FilesInvariant, PTL DEF Spec, LoadedIsNewest
=============================================================================
