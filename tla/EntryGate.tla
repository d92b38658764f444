----------------------------- MODULE EntryGate -----------------------------
(***************************************************************************)
(* The switch for new entries of one profile.  The expert publishes the     *)
(* session it was started with (GoldEngineEntryGate.mqh); an administrator  *)
(* presses ON or OFF in Telegram; the orchestrator writes a command for the *)
(* session it reads (gold_orchestrator/entry_gate.py, called from           *)
(* runtime.py); the expert refreshes its gate from that command on every    *)
(* tick and timer.  Expert and orchestrator share two files, and either may *)
(* be restarted between any two steps.                                      *)
(*                                                                         *)
(* A session number stands for what identifies one: fingerprint, account    *)
(* and m_session_id, which no two starts have in common.                    *)
(***************************************************************************)
EXTENDS Naturals, Sequences

CONSTANTS
    MaxStarts,      \* bound: starts of the expert
    MaxPresses,     \* bound: buttons pressed
    MaxCrashes      \* bound: deaths of the orchestrator

ASSUME BoundsAssumption == {MaxStarts, MaxPresses, MaxCrashes} \subseteq Nat

VARIABLES
    expert,     \* "down", "opened" (its session file is truncated), "up"
    session,    \* m_session_id of the latest start
    enabled,    \* m_enabled
    fresh,      \* history: m_enabled was refreshed since the command file changed
    published,  \* the session file: [session, authority]
    command,    \* the command file: [session, on, press]
    pressed,    \* Telegram's updates in order: [on, session the panel was about]
    offset,     \* updates Telegram will not deliver again
    pc,         \* where the orchestrator is with update offset + 1
    seen,       \* what _read_session returned to set_enabled
    told,       \* the latest update answered without failure
    crashes     \* how much of MaxCrashes is used

expertVars == <<expert, session, enabled>>
panelVars == <<pressed, offset, pc, seen, told, crashes>>
vars == <<expertVars, fresh, published, command, panelVars>>

NoSession == 0
SessionFile == [session : Nat, authority : BOOLEAN]
CommandFile == [session : Nat, on : BOOLEAN, press : Nat]
Update == [on : BOOLEAN, session : Nat]

\* A session file that is missing, empty or cut short: _read_session has no session.
Unreadable == [session |-> NoSession, authority |-> FALSE]
NoCommand == [session |-> NoSession, on |-> FALSE, press |-> 0]

\* Defect for a mutant run: the command counts whatever session it was written for.
AnySession == command.on

\* ReadEnabledCommand: only ENABLED for the expert's own session counts.
ReadEnabledCommand == command.on /\ command.session = session

\* status().enabled: what the panel shows.
StatusEnabled ==
    /\ published.session # NoSession
    /\ published.authority
    /\ command.on
    /\ command.session = published.session

\* SubmitSignalPlan admits a new entry.
Open == expert = "up" /\ enabled

-----------------------------------------------------------------------------
(* The expert.  One with a data fault handles no tick any more, and stands  *)
(* for down: its session file stays where it is.                            *)

\* Initialize, up to the FileOpen that truncates the session file.
Start ==
    /\ expert = "down"
    /\ session < MaxStarts
    /\ session' = session + 1
    /\ enabled' = FALSE
    /\ expert' = "opened"
    /\ published' = Unreadable
    /\ UNCHANGED <<fresh, command, panelVars>>

\* WriteSession cannot open the file: the start is rejected.
StartRejected ==
    /\ expert = "down"
    /\ session < MaxStarts
    /\ session' = session + 1
    /\ enabled' = FALSE
    /\ UNCHANGED <<expert, fresh, published, command, panelVars>>

\* The line of WriteSession is in the file, with the authority the broker
\* component had when it was initialised.
WriteSession(authority) ==
    /\ expert = "opened"
    /\ published' = [session |-> session, authority |-> authority]
    /\ expert' = "up"
    /\ UNCHANGED <<session, enabled, fresh, command, panelVars>>

\* Defect for a mutant run: the gate is opened by a command and never closed.
RefreshSticky ==
    /\ expert = "up"
    /\ enabled' = (enabled \/ ReadEnabledCommand)
    /\ fresh' = TRUE
    /\ UNCHANGED <<expert, session, published, command, panelVars>>

\* OnTick and OnTimer: a command that cannot be read counts as OFF.
Refresh ==
    /\ expert = "up"
    /\ enabled' \in {ReadEnabledCommand, FALSE}
    /\ fresh' = TRUE
    /\ UNCHANGED <<expert, session, published, command, panelVars>>

\* The terminal dies, the expert is removed, rejects its start or meets a data fault.
Stop ==
    /\ expert # "down"
    /\ expert' = "down"
    /\ UNCHANGED <<session, enabled, fresh, published, command, panelVars>>

-----------------------------------------------------------------------------
(* Telegram and the orchestrator.                                           *)

Press(on) ==
    /\ Len(pressed) < MaxPresses
    /\ pressed' = Append(pressed, [on |-> on, session |-> published.session])
    /\ UNCHANGED <<expertVars, fresh, published, command, offset, pc, seen, told, crashes>>

\* Defect for a mutant run: set_enabled does not look at the authority.
ReadAnySession ==
    /\ pc = "idle"
    /\ offset < Len(pressed)
    /\ published.session # NoSession
    /\ seen' = published
    /\ pc' = "checked"
    /\ UNCHANGED <<expertVars, fresh, published, command, pressed, offset, told, crashes>>

\* set_enabled reads the session and looks at its authority.
ReadSession ==
    /\ pc = "idle"
    /\ offset < Len(pressed)
    /\ published.session # NoSession
    /\ published.authority
    /\ seen' = published
    /\ pc' = "checked"
    /\ UNCHANGED <<expertVars, fresh, published, command, pressed, offset, told, crashes>>

\* It raises: no session, no authority, or the file cannot be read.
Refuse ==
    /\ pc = "idle"
    /\ offset < Len(pressed)
    /\ pc' = "answered"
    /\ UNCHANGED <<expertVars, fresh, published, command, pressed, offset, seen, told, crashes>>

\* os.replace puts the whole command in place of the old one.
ReplaceCommand ==
    /\ pc = "checked"
    /\ command' = [session |-> seen.session,
                   on |-> pressed[offset + 1].on,
                   press |-> offset + 1]
    /\ fresh' = FALSE
    /\ pc' = "replaced"
    /\ UNCHANGED <<expertVars, published, pressed, offset, seen, told, crashes>>

\* The expert has the command file open, or the temporary file cannot be written.
ReplaceRefused ==
    /\ pc = "checked"
    /\ pc' = "answered"
    /\ UNCHANGED <<expertVars, fresh, published, command, pressed, offset, seen, told, crashes>>

\* The administrator reads the new state; if the audit fails, an error instead.
Answer ==
    /\ pc = "replaced"
    /\ told' \in {offset + 1, told}
    /\ pc' = "answered"
    /\ UNCHANGED <<expertVars, fresh, published, command, pressed, offset, seen, crashes>>

\* poll_once saves the offset, or confirms it with the next getUpdates.
FinishUpdate ==
    /\ pc = "answered"
    /\ offset' = offset + 1
    /\ pc' = "idle"
    /\ UNCHANGED <<expertVars, fresh, published, command, pressed, seen, told, crashes>>

\* Defect for a mutant run: the offset is only saved now and then.
CrashForgets ==
    /\ pc # "idle"
    /\ crashes < MaxCrashes
    /\ crashes' = crashes + 1
    /\ pc' = "idle"
    /\ offset' \in 0 .. offset
    /\ UNCHANGED <<expertVars, fresh, published, command, pressed, seen, told>>

\* The orchestrator dies; Telegram delivers the update in hand again.
Crash ==
    /\ pc # "idle"
    /\ crashes < MaxCrashes
    /\ crashes' = crashes + 1
    /\ pc' = "idle"
    /\ UNCHANGED <<expertVars, fresh, published, command, pressed, offset, seen, told>>

-----------------------------------------------------------------------------
Init ==
    /\ expert = "down"
    /\ session = NoSession
    /\ enabled = FALSE
    /\ fresh = TRUE
    /\ published = Unreadable
    /\ command = NoCommand
    /\ pressed = <<>>
    /\ offset = 0
    /\ pc = "idle"
    /\ seen = Unreadable
    /\ told = 0
    /\ crashes = 0

HandleUpdate ==
    ReadSession \/ Refuse \/ ReplaceCommand \/ ReplaceRefused \/ Answer \/ FinishUpdate

Next ==
    \/ Start \/ StartRejected \/ Refresh \/ Stop
    \/ \E authority \in BOOLEAN : WriteSession(authority)
    \/ \E on \in BOOLEAN : Press(on)
    \/ HandleUpdate
    \/ Crash

Spec == Init /\ [][Next]_vars

\* The timer of an expert that is up fires every second; the orchestrator's loop
\* never stops handling updates.  Nothing is assumed of starts, or of people.
Fairness == WF_vars(Refresh) /\ WF_vars(HandleUpdate)

FairSpec == Spec /\ Fairness

-----------------------------------------------------------------------------
(* Properties.                                                              *)

\* Every variable keeps its type, and an update is only handled while there is one
\* (poll_once).
TypeOK ==
    /\ expert \in {"down", "opened", "up"}
    /\ session \in Nat
    /\ enabled \in BOOLEAN
    /\ fresh \in BOOLEAN
    /\ published \in SessionFile
    /\ command \in CommandFile
    /\ pressed \in Seq(Update)
    /\ offset \in Nat
    /\ offset <= Len(pressed)
    /\ pc \in {"idle", "checked", "replaced", "answered"}
    /\ pc # "idle" => offset < Len(pressed)
    /\ seen \in SessionFile
    /\ told \in Nat
    /\ crashes \in Nat

\* The session file is that of an expert that is up, and of an earlier start or
\* unreadable while one starts: whatever a handler read before belongs to the past.
SessionInv ==
    /\ published.session <= session
    /\ expert = "opened" =>
          published.session = NoSession /\ session # NoSession /\ ~enabled
    /\ expert = "up" => published.session = session /\ session # NoSession
    /\ expert = "opened" => seen.session < session /\ command.session < session

\* A session has one authority, and a command is only written with it.
AuthorityKnown(known) ==
    /\ known <= session
    /\ known # NoSession /\ known = published.session => published.authority

CommandInv ==
    /\ AuthorityKnown(seen.session)
    /\ AuthorityKnown(command.session)
    /\ pc = "checked" => seen.session # NoSession
    /\ command.session = NoSession => ~command.on
    /\ command.session # NoSession =>
          command.press \in DOMAIN pressed /\ command.on = pressed[command.press].on

\* Updates are handled in their order, one at a time.
OrderInv ==
    /\ command.press <= offset + 1
    /\ told <= command.press
    /\ pc = "replaced" => command.press = offset + 1

\* A refreshed gate says what the command file says.
RefreshInv == Open /\ fresh => ReadEnabledCommand

\* What the safety properties of the gate rest on: the session file, the command
\* file and the gate of CEntryGate agree across restarts of either side, also when
\* an expert restarts between _read_session and os.replace of set_enabled.
GateInv == TypeOK /\ SessionInv /\ CommandInv /\ OrderInv /\ RefreshInv

\* The panel never shows OFF for a gate that is open, but for a change of the
\* command the expert has yet to see: status() and ReadEnabledCommand judge the
\* same command against session files and sessions of their own.
PanelAgrees == Open /\ fresh => StatusEnabled

\* An OFF the administrator was told of holds until ON is pressed again, whatever
\* restarts, is repeated or fails in between (set_enabled, poll_once, Refresh).
OffHolds ==
    /\ told > 0
    /\ \A i \in told .. Len(pressed) : ~pressed[i].on
    /\ fresh
    => ~Open

\* An OFF the administrator was told of closes the gate, if nobody presses again.
OffTakesEffect ==
    \A i \in 1 .. MaxPresses :
        told = i /\ Len(pressed) = i /\ ~pressed[i].on
            ~> Len(pressed) > i \/ ~Open

=============================================================================
