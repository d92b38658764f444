-------------------------- MODULE EntryGate_proofs --------------------------
(***************************************************************************)
(* Theorems about the entry gate, for any number of starts, presses and     *)
(* crashes.                                                                *)
(*                                                                         *)
(* The argument: whatever a handler read, and whatever the command file     *)
(* says, is about a session not younger than the expert's, and strictly     *)
(* older while a new session file is being written.  So a command can only  *)
(* match the session it was written for, whose authority is the published   *)
(* one; and because updates are handled in order, the command file is       *)
(* never behind the last answer given.                                     *)
(***************************************************************************)
EXTENDS EntryGate, TLAPS

\* Nothing is published, written or asked yet.
LEMMA InitGateInv == Init => GateInv
  <1> SUFFICES ASSUME Init PROVE GateInv
    OBVIOUS
  <1> USE DEF Init, Unreadable, NoCommand, NoSession
  <1>1. TypeOK
    <2>1. published \in SessionFile /\ seen \in SessionFile
      BY DEF SessionFile
    <2>2. command \in CommandFile
      BY DEF CommandFile
    <2>3. pressed \in Seq(Update)
      OBVIOUS
    <2>4. Len(pressed) = 0 /\ offset = 0 /\ offset \in Nat /\ told \in Nat /\ crashes \in Nat
      OBVIOUS
    <2>5. session \in Nat /\ expert = "down" /\ pc = "idle" /\ ~enabled /\ fresh
          /\ enabled \in BOOLEAN /\ fresh \in BOOLEAN
      OBVIOUS
    <2> HIDE DEF Init
    <2> QED
      BY <2>1, <2>2, <2>3, <2>4, <2>5 DEF TypeOK
  <1>2. SessionInv
    BY DEF SessionInv
  <1>3. CommandInv
    BY DEF CommandInv, AuthorityKnown
  <1>4. OrderInv
    BY DEF OrderInv
  <1>5. RefreshInv
    BY DEF RefreshInv, Open
  <1> QED
    BY <1>1, <1>2, <1>3, <1>4, <1>5 DEF GateInv

\* One more update leaves the earlier ones as they are.
LEMMA PressAppends ==
    ASSUME GateInv, NEW on \in BOOLEAN, Press(on)
    PROVE  /\ pressed' \in Seq(Update)
           /\ Len(pressed') = Len(pressed) + 1
           /\ \A i \in DOMAIN pressed : i \in DOMAIN pressed' /\ pressed'[i] = pressed[i]
  <1>1. /\ pressed \in Seq(Update)
        /\ [on |-> on, session |-> published.session] \in Update
    BY DEF GateInv, TypeOK, SessionFile, Update
  <1> QED
    BY <1>1 DEF Press

LEMMA TypeStep == GateInv /\ [Next]_vars => TypeOK'
  <1> SUFFICES ASSUME GateInv, [Next]_vars PROVE TypeOK'
    OBVIOUS
  <1> USE DEF TypeOK, expertVars, panelVars
  <1>0. TypeOK
    BY DEF GateInv
  <1>1. CASE Start
    <2>1. session' \in Nat
      BY <1>0, <1>1 DEF Start
    <2>2. published' \in SessionFile
      BY <1>1 DEF Start, Unreadable, NoSession, SessionFile
    <2> QED
      BY <1>0, <1>1, <2>1, <2>2 DEF Start
  <1>2. CASE StartRejected
    <2>1. session' \in Nat
      BY <1>0, <1>2 DEF StartRejected
    <2> QED
      BY <1>0, <1>2, <2>1 DEF StartRejected
  <1>3. ASSUME NEW authority \in BOOLEAN, WriteSession(authority) PROVE TypeOK'
    BY <1>0, <1>3 DEF WriteSession, SessionFile
  <1>4. CASE Refresh
    BY <1>0, <1>4 DEF Refresh, ReadEnabledCommand, CommandFile
  <1>5. CASE Stop
    BY <1>0, <1>5 DEF Stop
  <1>6. ASSUME NEW on \in BOOLEAN, Press(on) PROVE TypeOK'
    BY <1>0, <1>6, PressAppends DEF Press
  <1>7. CASE ReadSession
    BY <1>0, <1>7 DEF ReadSession
  <1>8. CASE Refuse
    BY <1>0, <1>8 DEF Refuse
  <1>9. CASE ReplaceCommand
    <2>1. offset + 1 \in DOMAIN pressed
      BY <1>0, <1>9 DEF ReplaceCommand
    <2>2. pressed[offset + 1] \in Update
      BY <1>0, <2>1
    <2>3. command' \in CommandFile
      BY <1>0, <1>9, <2>2 DEF ReplaceCommand, SessionFile, CommandFile, Update
    <2> QED
      BY <1>0, <1>9, <2>3 DEF ReplaceCommand
  <1>10. CASE ReplaceRefused
    BY <1>0, <1>10 DEF ReplaceRefused
  <1>11. CASE Answer
    BY <1>0, <1>11 DEF Answer
  <1>12. CASE FinishUpdate
    BY <1>0, <1>12 DEF FinishUpdate
  <1>13. CASE Crash
    BY <1>0, <1>13 DEF Crash
  <1>14. CASE UNCHANGED vars
    BY <1>0, <1>14 DEF vars
  <1> QED
    BY <1>1, <1>2, <1>3, <1>4, <1>5, <1>6, <1>7, <1>8, <1>9, <1>10, <1>11, <1>12, <1>13,
       <1>14 DEF Next, HandleUpdate

\* What is published, seen and written never belongs to a later session.
LEMMA SessionStep == GateInv /\ [Next]_vars => SessionInv'
  <1> SUFFICES ASSUME GateInv, [Next]_vars PROVE SessionInv'
    OBVIOUS
  <1> USE DEF SessionInv, expertVars, panelVars, NoSession
  <1>0. TypeOK /\ SessionInv /\ CommandInv
    BY DEF GateInv
  <1>a. /\ session \in Nat /\ seen.session \in Nat /\ command.session \in Nat
        /\ seen.session <= session /\ command.session <= session
    BY <1>0 DEF TypeOK, SessionFile, CommandFile, CommandInv, AuthorityKnown
  <1>1. CASE Start
    BY <1>0, <1>a, <1>1 DEF Start, Unreadable
  <1>2. CASE StartRejected
    <2>1. published.session \in Nat /\ expert' = "down" /\ session' = session + 1
      BY <1>0, <1>2 DEF StartRejected, TypeOK, SessionFile
    <2> QED
      BY <1>0, <1>a, <1>2, <2>1 DEF StartRejected
  <1>3. ASSUME NEW authority \in BOOLEAN, WriteSession(authority) PROVE SessionInv'
    BY <1>0, <1>a, <1>3 DEF WriteSession
  <1>4. CASE Refresh
    BY <1>0, <1>4 DEF Refresh
  <1>5. CASE Stop
    BY <1>0, <1>5 DEF Stop
  <1>6. ASSUME NEW on \in BOOLEAN, Press(on) PROVE SessionInv'
    BY <1>0, <1>6 DEF Press
  <1>7. CASE ReadSession
    BY <1>0, <1>7 DEF ReadSession
  <1>8. CASE ReplaceCommand
    BY <1>0, <1>8 DEF ReplaceCommand
  <1>9. CASE Refuse \/ ReplaceRefused \/ Answer \/ FinishUpdate \/ Crash
    BY <1>0, <1>9 DEF Refuse, ReplaceRefused, Answer, FinishUpdate, Crash
  <1>10. CASE UNCHANGED vars
    BY <1>0, <1>10 DEF vars
  <1> QED
    BY <1>1, <1>2, <1>3, <1>4, <1>5, <1>6, <1>7, <1>8, <1>9, <1>10 DEF Next, HandleUpdate

\* A command stands for the press it was written for, and for an authority.
LEMMA CommandStep == GateInv /\ [Next]_vars => CommandInv'
  <1> SUFFICES ASSUME GateInv, [Next]_vars PROVE CommandInv'
    OBVIOUS
  <1> USE DEF CommandInv, AuthorityKnown, expertVars, panelVars, NoSession
  <1>0. TypeOK /\ SessionInv /\ CommandInv
    BY DEF GateInv
  <1>a. /\ session \in Nat /\ seen.session \in Nat /\ command.session \in Nat
        /\ published.session \in Nat
    BY <1>0 DEF TypeOK, SessionFile, CommandFile
  <1>1. CASE Start
    BY <1>0, <1>a, <1>1 DEF Start, Unreadable
  <1>2. CASE StartRejected
    BY <1>0, <1>a, <1>2 DEF StartRejected
  <1>3. ASSUME NEW authority \in BOOLEAN, WriteSession(authority) PROVE CommandInv'
    BY <1>0, <1>a, <1>3 DEF WriteSession, SessionInv
  <1>4. CASE Refresh
    BY <1>0, <1>4 DEF Refresh
  <1>5. CASE Stop
    BY <1>0, <1>5 DEF Stop
  <1>6. ASSUME NEW on \in BOOLEAN, Press(on) PROVE CommandInv'
    BY <1>0, <1>6, PressAppends DEF Press
  <1>7. CASE ReadSession
    BY <1>0, <1>a, <1>7 DEF ReadSession, SessionInv
  <1>8. CASE ReplaceCommand
    <2>1. offset + 1 \in DOMAIN pressed
      BY <1>0, <1>8 DEF ReplaceCommand, TypeOK
    <2> QED
      BY <1>0, <1>8, <2>1 DEF ReplaceCommand
  <1>9. CASE Refuse \/ ReplaceRefused \/ Answer \/ FinishUpdate \/ Crash
    BY <1>0, <1>9 DEF Refuse, ReplaceRefused, Answer, FinishUpdate, Crash
  <1>10. CASE UNCHANGED vars
    BY <1>0, <1>10 DEF vars
  <1> QED
    BY <1>1, <1>2, <1>3, <1>4, <1>5, <1>6, <1>7, <1>8, <1>9, <1>10 DEF Next, HandleUpdate

\* Updates are answered in order, never ahead of the command written for them.
LEMMA OrderStep == GateInv /\ [Next]_vars => OrderInv'
  <1> SUFFICES ASSUME GateInv, [Next]_vars PROVE OrderInv'
    OBVIOUS
  <1> USE DEF OrderInv, expertVars, panelVars
  <1>0. /\ OrderInv
        /\ offset \in Nat /\ told \in Nat /\ command.press \in Nat
    BY DEF GateInv, TypeOK, CommandFile
  <1>1. CASE ReplaceCommand
    BY <1>0, <1>1 DEF ReplaceCommand
  <1>2. CASE Answer
    BY <1>0, <1>2 DEF Answer
  <1>3. CASE FinishUpdate
    BY <1>0, <1>3 DEF FinishUpdate
  <1>4. CASE Crash \/ Refuse \/ ReplaceRefused \/ ReadSession
    BY <1>0, <1>4 DEF Crash, Refuse, ReplaceRefused, ReadSession
  <1>5. CASE Start \/ StartRejected \/ Refresh \/ Stop
    BY <1>0, <1>5 DEF Start, StartRejected, Refresh, Stop
  <1>6. ASSUME NEW authority \in BOOLEAN, WriteSession(authority) PROVE OrderInv'
    BY <1>0, <1>6 DEF WriteSession
  <1>7. ASSUME NEW on \in BOOLEAN, Press(on) PROVE OrderInv'
    BY <1>0, <1>7 DEF Press
  <1>8. CASE UNCHANGED vars
    BY <1>0, <1>8 DEF vars
  <1> QED
    BY <1>1, <1>2, <1>3, <1>4, <1>5, <1>6, <1>7, <1>8 DEF Next, HandleUpdate

\* A start closes the gate; only a refresh opens it, and says so.
LEMMA RefreshStep == GateInv /\ [Next]_vars => RefreshInv'
  <1> SUFFICES ASSUME GateInv, [Next]_vars PROVE RefreshInv'
    OBVIOUS
  <1> USE DEF RefreshInv, Open, ReadEnabledCommand, expertVars, panelVars
  <1>0. RefreshInv /\ SessionInv
    BY DEF GateInv
  <1>1. CASE Start \/ StartRejected \/ Stop
    BY <1>0, <1>1 DEF Start, StartRejected, Stop
  <1>2. ASSUME NEW authority \in BOOLEAN, WriteSession(authority) PROVE RefreshInv'
    BY <1>0, <1>2 DEF WriteSession, SessionInv
  <1>3. CASE Refresh
    BY <1>0, <1>3 DEF Refresh
  <1>4. ASSUME NEW on \in BOOLEAN, Press(on) PROVE RefreshInv'
    BY <1>0, <1>4 DEF Press
  <1>5. CASE ReplaceCommand
    BY <1>0, <1>5 DEF ReplaceCommand
  <1>6. CASE ReadSession \/ Refuse \/ ReplaceRefused \/ Answer \/ FinishUpdate \/ Crash
    BY <1>0, <1>6 DEF ReadSession, Refuse, ReplaceRefused, Answer, FinishUpdate, Crash
  <1>7. CASE UNCHANGED vars
    BY <1>0, <1>7 DEF vars
  <1> QED
    BY <1>1, <1>2, <1>3, <1>4, <1>5, <1>6, <1>7 DEF Next, HandleUpdate

-----------------------------------------------------------------------------
\* Session file, command file and gate agree at every step of expert and
\* orchestrator, across restarts of both (CEntryGate, EntryGateController).
THEOREM GateInvariant == Spec => []GateInv
  <1>1. GateInv /\ [Next]_vars => GateInv'
    BY TypeStep, SessionStep, CommandStep, OrderStep, RefreshStep DEF GateInv
  <1> QED
    BY InitGateInv, <1>1, PTL DEF Spec

\* An open gate the expert has refreshed is one the panel shows as ON: the command
\* matches the expert's session, so that session is published, with authority.
THEOREM PanelShowsOpenGates == Spec => []PanelAgrees
  <1>1. GateInv => PanelAgrees
    <2> SUFFICES ASSUME GateInv, Open, fresh PROVE StatusEnabled
      BY DEF PanelAgrees
    <2>1. command.on /\ command.session = session
      BY DEF GateInv, RefreshInv, ReadEnabledCommand
    <2>2. published.session = session /\ session # NoSession
      BY DEF GateInv, SessionInv, Open
    <2>3. published.authority
      BY <2>1, <2>2 DEF GateInv, CommandInv, AuthorityKnown
    <2> QED
      BY <2>1, <2>2, <2>3 DEF StatusEnabled
  <1> QED
    BY GateInvariant, <1>1, PTL

\* An OFF that was answered holds until ON is pressed: the command in the file was
\* written for that update or a later one (set_enabled, poll_once).
THEOREM AnsweredOffHolds == Spec => []OffHolds
  <1>1. GateInv => OffHolds
    <2> SUFFICES ASSUME GateInv, told > 0, fresh, Open,
                        \A i \in told .. Len(pressed) : ~pressed[i].on
                 PROVE  FALSE
      BY DEF OffHolds
    <2>1. command.on
      BY DEF GateInv, RefreshInv, ReadEnabledCommand
    <2>2. command.press \in DOMAIN pressed /\ pressed[command.press].on
      BY <2>1 DEF GateInv, CommandInv
    <2>3. command.press \in told .. Len(pressed)
      BY <2>2 DEF GateInv, TypeOK, OrderInv
    <2> QED
      BY <2>2, <2>3
  <1> QED
    BY GateInvariant, <1>1, PTL
=============================================================================
