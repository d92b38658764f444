----------------------------- MODULE SignalPath -----------------------------
(***************************************************************************)
(* From closed bars to signals in the expert: the scheduler that notices a  *)
(* closed bar (GoldEngineScheduler.mqh), the dispatch of a tick's bars      *)
(* (GoldEngineRuntime.mqh), the incremental machine of the Bear strategy    *)
(* (GoldEngineBearIncremental.mqh) with its two state files                 *)
(* (GoldEngineBearPersistence.mqh), and the Revised strategy's detector     *)
(* (GoldEngineRevisedSetup.mqh).  Bars close while a tick is handled, the   *)
(* terminal may die between any two steps, and a save may fail.             *)
(*                                                                         *)
(* Time counts M1 periods.  A bar is known by the moment it closes, so the  *)
(* bar that closed last and the opening of the one still forming are the    *)
(* same number.  What the prices say is a verdict the strategy may give     *)
(* whenever its code looks at them again.                                   *)
(***************************************************************************)
EXTENDS Naturals, Sequences, FiniteSets

CONSTANTS
    Period,     \* length of a bar of each frame
    MaxAge,     \* age at which Load calls a snapshot stale (180 seconds)
    Lookback,   \* M5 bars before the setup that count (3)
    WatchM5,    \* m5_watch_bars
    EntryM1,    \* m1_entry_bars
    MaxWatch,   \* m_maximum_age_seconds of a Revised setup
    OldSequence, \* sequence a run before time 0 had come to
    MaxTime,    \* bound: the clock
    MaxLost,    \* bound: saves that fail (those a crash cuts off not counted)
    MaxStops    \* bound: stops and crashes

\* The order of m_timeframes; D1 only feeds a history and is left out.
Frames == <<"H1", "M15", "M5", "M1">>
Frame == {"H1", "M15", "M5", "M1"}
Side == {"BUY", "SELL"}
Strategy == {"BEAR", "REVISED"}
Time == 0 .. MaxTime

ASSUME PeriodAssumption == Period \in [Frame -> Nat \ {0}] /\ Period["M1"] = 1
ASSUME WindowAssumption ==
    /\ {MaxAge, Lookback, EntryM1, MaxWatch, WatchM5} \subseteq Nat
    /\ Lookback < WatchM5
    /\ 0 < EntryM1
ASSUME OldAssumption == OldSequence \in Nat /\ OldSequence % 2 = 0
ASSUME BoundsAssumption == {MaxTime, MaxLost, MaxStops} \subseteq Nat /\ 0 < MaxTime

VARIABLES
    now,        \* the server's clock
    pc,         \* where the expert is
    frame,      \* index of the frame Poll is at
    seen,       \* what iTime returned for it
    gap,        \* gap_detected
    pending,    \* closed_bars that are not dispatched to the end
    forming,    \* m_last_forming_open
    healthy,    \* m_data_healthy
    latest,     \* the last bar of each history of the runtime
    bear,       \* CBearIncrementalMachine
    slot,       \* the two state files
    revised,    \* RevisedDetectorState
    sent,       \* history: how often each strategy signalled each setup
    started,    \* history: when the warm-up of this run was
    inherited,  \* history: the setups this run took over from the one before
    saved,      \* history: the last complete snapshot
    lost,       \* history: saves that did not reach the disk
    wentOn,     \* history: a run went on after a save that failed
    late,       \* history: a bar closed between two readings of this run
    stops       \* how much of MaxStops is used

scheduler == <<frame, seen, gap, pending, forming>>
history == <<started, inherited, saved, lost, wentOn, late, stops>>
vars == <<now, pc, scheduler, healthy, latest, bear, slot, revised, sent, history>>

None == [f \in Frame |-> 0]
Larger(a, b) == IF a > b THEN a ELSE b

\* The bar of frame f that closed last: iTime(f, 0) is when the next one opened.
Closed(f) == now - (now % Period[f])

Phase == {"IDLE", "WATCH_M5", "WATCH_M1", "ENTRY_READY", "CANCELLED"}
Watching == {"WATCH_M5", "WATCH_M1"}
Machine ==
    [phase : Phase, setup : Time, last : Time, armed : Time, seq : Nat,
     asOf : Time, bars : [Frame -> SUBSET Time]]
Empty ==
    [phase |-> "IDLE", setup |-> 0, last |-> 0, armed |-> 0, seq |-> 0,
     asOf |-> 0, bars |-> [f \in Frame |-> {}]]
Missing == [Empty EXCEPT !.phase = "MISSING"]
Torn == [Empty EXCEPT !.phase = "TORN"]
\* A file that a run before time 0 left.
Old(i) == [Empty EXCEPT !.seq = OldSequence + i]
Complete(s) == s.phase \in Phase

\* Cursor: the newest bar of the frame the machine was fed, 0 for none.
Cursor(b, f) ==
    IF b.bars[f] = {} THEN 0 ELSE CHOOSE t \in b.bars[f] : \A u \in b.bars[f] : u <= t

\* BuildM5Windows: the bars after the setup, and Lookback before them.
M5Candidates(b) ==
    Lookback + Cardinality({t \in b.bars["M5"] : t - Period["M5"] >= b.setup})

\* BuildM1Windows: the bars that opened once the M5 result had armed.
M1Candidates(b) == {t \in b.bars["M1"] : t - 1 >= b.armed}

-----------------------------------------------------------------------------
(* The Bear machine: the results OnBarClose may have for one bar.           *)

ResetTerminal(b) ==
    IF b.phase \in Watching \cup {"IDLE"} THEN b
    ELSE [b EXCEPT !.phase = "IDLE", !.setup = 0, !.armed = 0]

Fed(b, bar) ==
    [ResetTerminal(b) EXCEPT
        !.bars[bar.frame] = @ \cup {bar.t},
        !.seq = @ + 1,
        !.asOf = Larger(@, bar.t)]

\* A setup found on the M15 bar, and what the H1 bars say to it at once.
Accept(b, bar) ==
    IF b.phase = "IDLE" /\ bar.frame = "M15" /\ bar.t > b.last
    THEN {b} \cup {[b EXCEPT !.phase = p, !.setup = bar.t, !.last = bar.t] :
                      p \in {"WATCH_M5", "CANCELLED"}}
    ELSE {b}

\* Defect for a mutant run: the window holds one bar more than it is long.
WindowOverrun(candidates, length) == candidates > length
Expired(candidates, length) == candidates >= length

\* BearArmOnM5, on a window that is new: the bar is one of M5, or just accepted.
Arm(b, bar) ==
    IF b.phase # "WATCH_M5" THEN {b}
    ELSE LET looks == bar.frame = "M5" \/ (bar.frame = "M15" /\ b.setup = bar.t)
             waits == IF Expired(M5Candidates(b), WatchM5)
                      THEN [b EXCEPT !.phase = "CANCELLED"]
                      ELSE b
             armed == [b EXCEPT !.phase = "WATCH_M1",
                                !.armed = Larger(b.setup, Cursor(b, "M5"))]
         IN  {waits} \cup (IF looks THEN {armed, [b EXCEPT !.phase = "CANCELLED"]} ELSE {})

\* BearEntryOnM1, on a window that is new: the bar is one of M1, or just armed.
Enter(b, bar, before) ==
    IF b.phase # "WATCH_M1" THEN {b}
    ELSE LET looks == M1Candidates(b) # {} /\ (bar.frame = "M1" \/ before # "WATCH_M1")
             waits == IF Expired(Cardinality(M1Candidates(b)), EntryM1)
                      THEN [b EXCEPT !.phase = "CANCELLED"]
                      ELSE b
         IN  {waits} \cup (IF looks THEN {[b EXCEPT !.phase = "ENTRY_READY"]} ELSE {})

\* Advance, once the bar is taken in.
Advance(b, bar) ==
    UNION {Enter(a, bar, b.phase) : a \in UNION {Arm(s, bar) : s \in Accept(b, bar)}}

\* OnBarClose: a bar at the cursor again changes nothing.
OnBarClose(b, bar) ==
    IF bar.t = Cursor(b, bar.frame) THEN {b} ELSE Advance(Fed(b, bar), bar)

-----------------------------------------------------------------------------
(* The state files.                                                        *)

SlotFor(b) == b.seq % 2

\* Save: the file is replaced, cannot be opened, or is cut short.
Written(b) == [slot EXCEPT ![SlotFor(b)] = b]
Cut(b) == [slot EXCEPT ![SlotFor(b)] = Torn]

\* Load takes the readable snapshot with the higher sequence.
Readable == {i \in {0, 1} : Complete(slot[i])}

\* Defect for a mutant run: the first file counts whenever it can be read.
FirstReadable == IF 0 \in Readable THEN slot[0] ELSE slot[1]

Picked == slot[CHOOSE i \in Readable : \A j \in Readable : slot[j].seq <= slot[i].seq]
Stale == now - Picked.asOf > MaxAge

\* SeedClosedHistory, from the histories of the warm-up.
Seeded ==
    [Empty EXCEPT !.bars = [f \in Frame |-> {latest[f]} \ {0}],
                  !.asOf = latest["M1"]]

\* The results Load and the seeding after it may have; none when it is invalid.
Loaded ==
    IF slot[0] = Missing /\ slot[1] = Missing THEN {Seeded}
    ELSE IF Readable = {} THEN {}
    ELSE IF Stale THEN {Seeded}
    ELSE {Picked}

-----------------------------------------------------------------------------
(* The Revised detector.                                                   *)

Detector == [watch : [Side -> Time], consumed : [Side -> Time], classified : Time]
Fresh == [watch |-> [s \in Side |-> 0], consumed |-> [s \in Side |-> 0], classified |-> 0]
Other(s) == IF s = "BUY" THEN "SELL" ELSE "BUY"

\* ProcessCandidate, for a setup of the M5 bar t: a strong one ends the other
\* side's watch, a weak one yields to it; a watch that stands keeps its trigger.
ProcessCandidate(r, s, t, strong) ==
    IF t <= r.consumed[s] \/ (~strong /\ r.watch[Other(s)] # 0) THEN r
    ELSE [r EXCEPT !.watch[Other(s)] = 0,
                   !.watch[s] = IF @ = 0 THEN t ELSE @]

\* Update's first half: the newest M5 bar is classified once, for one side at most.
Classify(r) ==
    LET t == latest["M5"]
        c == [r EXCEPT !.classified = t]
    IN  IF r.classified # 0 /\ t <= r.classified THEN {r}
        ELSE {c} \cup {ProcessCandidate(c, s, t, strong) : s \in Side, strong \in BOOLEAN}

\* current_m1_time is when the newest M1 bar opened.
Current == latest["M1"] - 1

\* Update's second half: whether side s is to be evaluated, or watched too long.
Evaluated(r, s) ==
    r.watch[s] # 0 /\ Current > r.watch[s] /\ Current - r.watch[s] <= MaxWatch
Outlived(r, s) == r.watch[s] # 0 /\ Current > r.watch[s] + MaxWatch

\* Defect for a mutant run: an entry leaves the watch where it is.
ConsumeNothing(r, s) == r

Consume(r, s) == [r EXCEPT !.consumed[s] = Larger(@, r.watch[s]), !.watch[s] = 0]

\* Defect for a mutant run: the bars of the warm-up count as new.
SeedNothing(r) == r

\* SeedWarmup.
SeedWarmup(r) ==
    IF \A s \in Side : r.watch[s] = 0 THEN [r EXCEPT !.classified = latest["M5"]] ELSE r

-----------------------------------------------------------------------------
Init ==
    /\ now = 1
    /\ pc = "down"
    /\ frame = 1 /\ seen = 0 /\ gap = FALSE /\ pending = <<>>
    /\ forming = None
    /\ healthy = FALSE
    /\ latest = None
    /\ bear = Empty
    /\ slot \in {[i \in {0, 1} |-> Missing], [i \in {0, 1} |-> Old(i)]}
    /\ revised = Fresh
    /\ sent = [g \in Strategy |-> [t \in Time |-> 0]]
    /\ started = 0 /\ inherited = [g \in Strategy |-> {}] /\ late = FALSE
    /\ saved = slot[1] /\ lost = 0 /\ wentOn = FALSE /\ stops = 0

\* The market: a minute passes, and the bars that end there are closed.  The
\* dispatch of a bar asks for no time and reads no bar, so that whatever closes
\* during it may as well close right after it.
BarCloses ==
    /\ now < MaxTime
    /\ pc \notin {"dispatch", "save"} \cup Side
    /\ now' = now + 1
    /\ UNCHANGED <<pc, scheduler, healthy, latest, bear, slot, revised, sent, history>>

-----------------------------------------------------------------------------
(* Initialize.                                                             *)

Warmup ==
    /\ pc = "down"
    /\ latest' = [f \in Frame |-> Closed(f)]
    /\ started' = now
    /\ late' = FALSE
    /\ pc' = "warmed"
    /\ UNCHANGED <<now, scheduler, healthy, bear, slot, revised, sent, inherited, saved,
                   lost, wentOn, stops>>

InitScheduler ==
    /\ pc = "warmed"
    /\ forming' = [f \in Frame |-> Closed(f)]
    /\ late' = (forming' # latest)
    /\ pc' = "loading"
    /\ UNCHANGED <<now, frame, seen, gap, pending, healthy, latest, bear, slot, revised,
                   sent, started, inherited, saved, lost, wentOn, stops>>

\* What the run may signal of the time before it: the watches that were kept and,
\* with one of them, the newest M5 bar, which the run before may not have seen.
KeptTriggers ==
    LET kept == {revised.watch[s] : s \in Side} \ {0}
    IN  IF kept = {} THEN {} ELSE kept \cup {latest["M5"]}

LoadBear ==
    /\ pc = "loading"
    /\ \E b \in Loaded : bear' = b
    /\ revised' = SeedWarmup(revised)
    /\ inherited' = [g \in Strategy |-> IF g = "BEAR" THEN {bear'.setup} ELSE KeptTriggers]
    /\ healthy' = TRUE
    /\ pc' = "idle"
    /\ UNCHANGED <<now, scheduler, latest, slot, sent, started, saved, lost, wentOn, late,
                   stops>>

\* BEAR_STATE_INVALID: the start is refused.
RefuseStart ==
    /\ pc = "loading"
    /\ Loaded = {}
    /\ pc' = "down"
    /\ revised' = Fresh
    /\ UNCHANGED <<now, scheduler, healthy, latest, bear, slot, sent, history>>

-----------------------------------------------------------------------------
(* OnTick: Poll, one frame after the other.                                *)

\* The last frame done: OnTick fails closed on a gap, or dispatches.
Polled(bars, hole) ==
    /\ frame' = 1
    /\ gap' = FALSE
    /\ pending' = IF hole THEN <<>> ELSE bars
    /\ healthy' = (healthy /\ ~hole)
    /\ pc' = IF hole \/ bars = <<>> THEN "idle" ELSE "dispatch"

NextFrame(bars, hole) ==
    IF frame = Len(Frames) THEN Polled(bars, hole)
    ELSE /\ frame' = frame + 1
         /\ gap' = hole
         /\ pending' = bars
         /\ pc' = "look"
         /\ UNCHANGED healthy

\* A tick begins with the first frame, in good health.
Looking == pc = "look" \/ (pc = "idle" /\ healthy)

LookUnchanged ==
    /\ Looking
    /\ Closed(Frames[frame]) = forming[Frames[frame]]
    /\ NextFrame(pending, gap)
    /\ UNCHANGED <<now, seen, forming, latest, bear, slot, revised, sent, history>>

\* Defect for a mutant run: a hole in the bars is not noticed.
SkipsNothing(f) == FALSE

\* iBarShift: the bar after the one known must be the newest.
Skipped(f) == Closed(f) # forming[f] + Period[f]

LookChanged ==
    /\ Looking
    /\ LET f == Frames[frame]
       IN  /\ Closed(f) # forming[f]
           /\ seen' = Closed(f)
           /\ gap' = (gap \/ Skipped(f))
    /\ pc' = "read"
    /\ UNCHANGED <<now, frame, pending, forming, healthy, latest, bear, slot, revised, sent,
                   history>>

\* ReadLatestClosed, which may find a bar that closed after iTime was asked.
Read ==
    /\ pc = "read"
    /\ LET f == Frames[frame]
       IN  /\ forming' = [forming EXCEPT ![f] = seen]
           /\ late' = (late \/ Closed(f) # seen)
           /\ NextFrame(Append(pending, [frame |-> f, t |-> Closed(f)]), gap)
    /\ seen' = 0
    /\ UNCHANGED <<now, latest, bear, slot, revised, sent, started, inherited, saved, lost,
                   wentOn, stops>>

\* iTime or CopyRates fails: what was collected is dropped.
PollFails ==
    /\ Looking \/ pc = "read"
    /\ healthy' = FALSE
    /\ frame' = 1 /\ seen' = 0 /\ gap' = FALSE /\ pending' = <<>>
    /\ pc' = "idle"
    /\ UNCHANGED <<now, forming, latest, bear, slot, revised, sent, started, inherited,
                   saved, lost, wentOn, late, stops>>

-----------------------------------------------------------------------------
(* DispatchClosedBar.                                                      *)

Bar == Head(pending)

\* The loop over closed_bars goes on, whatever became of this one.
NextBar ==
    /\ pending' = Tail(pending)
    /\ pc' = IF Tail(pending) = <<>> THEN "idle" ELSE "dispatch"

Submit(strategy, setup) == sent' = [sent EXCEPT ![strategy][setup] = @ + 1]

\* EvaluateBearBar up to Save: a signal is submitted before the state is saved.
DispatchClosedBar ==
    /\ pc = "dispatch"
    /\ latest' = [latest EXCEPT ![Bar.frame] = Larger(@, Bar.t)]
    /\ \E b \in OnBarClose(bear, Bar) :
         /\ bear' = b
         /\ IF b.phase = "ENTRY_READY" /\ b # bear
            THEN Submit("BEAR", b.setup)
            ELSE UNCHANGED sent
    /\ pc' = "save"
    /\ UNCHANGED <<now, scheduler, healthy, slot, revised, history>>

\* EvaluateBearBar after Save: after an M1 bar the Revised strategy follows.
Proceed(ok) ==
    /\ healthy' = ok
    /\ IF Bar.frame = "M1" /\ ok THEN pc' = "BUY" /\ UNCHANGED pending ELSE NextBar

SaveBear ==
    /\ pc = "save"
    /\ slot' = Written(bear)
    /\ saved' = bear
    /\ Proceed(healthy)
    /\ UNCHANGED <<now, frame, seen, gap, forming, latest, bear, revised, sent,
                   started, inherited, lost, wentOn, late, stops>>

SaveFails ==
    /\ pc = "save"
    /\ lost < MaxLost
    /\ slot' \in {slot, Cut(bear)}
    /\ lost' = lost + 1 /\ wentOn' = TRUE
    /\ Proceed(FALSE)
    /\ UNCHANGED <<now, frame, seen, gap, forming, latest, bear, revised, sent, started,
                   inherited, saved, late, stops>>

\* EvaluateRevisedSide returns: BUY before SELL, and SELL only in good health.
SideDone(ok) ==
    /\ healthy' = ok
    /\ IF pc = "BUY" /\ ok THEN pc' = "SELL" /\ UNCHANGED pending ELSE NextBar

\* No setup to evaluate, or one whose decision is to wait; an old one is dropped.
NoEntry ==
    /\ pc \in Side
    /\ \E r \in Classify(revised) :
         revised' = IF Outlived(r, pc) THEN [r EXCEPT !.watch[pc] = 0] ELSE r
    /\ SideDone(healthy)
    /\ UNCHANGED <<now, frame, seen, gap, forming, latest, bear, slot, sent, history>>

\* ENTRY_READY or CANCELLED consumes the setup; SELL, and a BUY that is for
\* observation only, submits nothing.
Decided ==
    /\ pc \in Side
    /\ \E r \in Classify(revised) :
         /\ Evaluated(r, pc)
         /\ revised' = Consume(r, pc)
         /\ \/ UNCHANGED sent
            \/ pc = "BUY" /\ Submit("REVISED", r.watch[pc])
    /\ SideDone(healthy)
    /\ UNCHANGED <<now, frame, seen, gap, forming, latest, bear, slot, history>>

\* m_revised_engine.Evaluate reports an error.
EvaluationFails ==
    /\ pc \in Side
    /\ \E r \in Classify(revised) : Evaluated(r, pc) /\ revised' = r
    /\ SideDone(FALSE)
    /\ UNCHANGED <<now, frame, seen, gap, forming, latest, bear, slot, sent, started,
                   inherited, saved, lost, wentOn, late, stops>>

-----------------------------------------------------------------------------
(* The end of a run.                                                       *)

Ended ==
    /\ stops < MaxStops
    /\ stops' = stops + 1
    /\ pc' = "down"
    /\ healthy' = FALSE
    /\ bear' = Empty
    /\ frame' = 1 /\ seen' = 0 /\ gap' = FALSE /\ pending' = <<>>
    /\ forming' = None /\ latest' = None
    /\ started' = 0 /\ inherited' = [g \in Strategy |-> {}] /\ late' = FALSE
    /\ UNCHANGED <<now, sent, wentOn>>

\* Deinitialize saves once more; the globals stay when only the chart changes.
Stop ==
    /\ pc = "idle"
    /\ Ended
    /\ revised' \in {revised, Fresh}
    /\ \/ slot' = Written(bear) /\ saved' = bear /\ UNCHANGED lost
       \/ /\ lost < MaxLost
          /\ lost' = lost + 1
          /\ slot' \in {slot, Cut(bear)}
          /\ UNCHANGED saved

\* The terminal dies; inside a save the file may be cut short.
Crash ==
    /\ pc # "down"
    /\ Ended
    /\ revised' = Fresh
    /\ slot' \in IF pc = "save" THEN {slot, Cut(bear)} ELSE {slot}
    /\ lost' = IF pc = "save" THEN lost + 1 ELSE lost
    /\ UNCHANGED saved

Next ==
    \/ BarCloses
    \/ Warmup \/ InitScheduler \/ LoadBear \/ RefuseStart
    \/ LookUnchanged \/ LookChanged \/ Read \/ PollFails
    \/ DispatchClosedBar \/ SaveBear \/ SaveFails
    \/ NoEntry \/ Decided \/ EvaluationFails
    \/ Stop \/ Crash

Spec == Init /\ [][Next]_vars

-----------------------------------------------------------------------------
(* Properties.                                                             *)

TypeOK ==
    /\ now \in Time /\ started \in Time
    /\ pc \in {"down", "warmed", "loading", "idle", "look", "read", "dispatch", "save"} \cup Side
    /\ frame \in DOMAIN Frames /\ seen \in Time /\ {gap, healthy, late, wentOn} \subseteq BOOLEAN
    /\ pending \in Seq([frame : Frame, t : Time])
    /\ {forming, latest} \subseteq [Frame -> Time]
    /\ bear \in Machine
    /\ slot \in [{0, 1} -> Machine \cup {Missing, Torn}]
    /\ revised \in Detector
    /\ sent \in [Strategy -> [Time -> Nat]]
    /\ {lost, stops} \subseteq Nat

\* A watch ends within its window, counted over every feed, restart and race.
WindowsHold(b) ==
    /\ b.phase = "WATCH_M5" => M5Candidates(b) < WatchM5
    /\ b.phase = "WATCH_M1" => Cardinality(M1Candidates(b)) < EntryM1

\* A bar to be dispatched is never one before the machine's cursor, which
\* OnBarClose would answer with an error that stops the expert.
NothingBeforeCursor ==
    pc = "dispatch" => \A i \in DOMAIN pending : pending[i].t >= Cursor(bear, pending[i].frame)

\* What the two strategies and the two files always are: the windows hold in
\* memory and in both files (Advance), a file has the parity of its sequence
\* (Save), no bar is fed before the cursor (Poll), and the Revised detector
\* never watches both sides at once (ProcessCandidate).
SignalInv ==
    /\ TypeOK
    /\ WindowsHold(bear)
    /\ \A i \in {0, 1} : Complete(slot[i]) => WindowsHold(slot[i]) /\ SlotFor(slot[i]) = i
    /\ NothingBeforeCursor
    /\ ~\A s \in Side : revised.watch[s] # 0

\* A Revised setup is signalled once, whatever stops or fails (Consume, Update).
RevisedOnce == \A t \in Time : sent["REVISED"][t] <= 1

\* A setup is signalled once: a Revised one in any case, a Bear one unless a save
\* did not reach the disk (SubmitSignalPlan comes before Save).
OneSignal ==
    /\ RevisedOnce
    /\ \A t \in Time : sent["BEAR"][t] <= 1 + lost

\* A start that does not begin anew takes over the snapshot written last, while that
\* file is whole, although sequences begin at 0 again after a stale start and the
\* higher one may then be the older (Load).  Not so for a run that fed no bar, and
\* once a run went on after a failed save.
LoadedIsNewest ==
    [][(/\ pc = "loading" /\ pc' = "idle" /\ bear' # Seeded
        /\ saved \in {slot[0], slot[1]}
        /\ saved.seq # 0 /\ ~wentOn)
       => bear' = saved]_vars

\* While no bar closes between two readings, every bar of a run is dispatched,
\* in order and once (Poll, OnTick).
EveryBarOnce ==
    [][(pc = "dispatch" /\ pc' = "save" /\ ~late)
       => Bar.t = latest[Bar.frame] + Period[Bar.frame]]_vars

\* No setup of the warm-up is traded: a new signal is for a setup after it, or
\* for one the run took over (SeedWarmup, SeedClosedHistory).
NoHistoricalTrade ==
    [][\A g \in Strategy, t \in Time :
         sent'[g][t] > sent[g][t] => t > started \/ t \in inherited[g]]_vars

\* "No duplicate": a setup is signalled once whenever the expert restarts.
SignalledOnce ==
    \A g \in Strategy, t \in Time : sent[g][t] <= 1
=============================================================================
