------------------------------- MODULE Machine -------------------------------
(***************************************************************************)
(* The connection transition machine of crates/openvpn3-dbus/src/machine.rs:*)
(* events in, commands out, no I/O.                                        *)
(*                                                                         *)
(* The worker that drives it runs one event at a time: it calls handle,    *)
(* executes the batch of commands handle returns, in order, and only then  *)
(* looks at another event.  Executing CheckReady or NewTunnel calls handle *)
(* again before the rest of the batch.  `todo' is that call stack laid     *)
(* flat: what the worker still has to do before it is idle.  Each handler  *)
(* is an action whose last parameter is the work left after the event; the *)
(* batch it returns goes in front of it.                                   *)
(*                                                                         *)
(* Abstractions.  Session paths and configuration paths are elements of    *)
(* Session and Config.  ActiveSession is its session path: no handler reads *)
(* its config_path.  A credential request, a (type, group) pair, is an     *)
(* element of Group; Supported holds those route_attention gives a prompt  *)
(* kind.  Messages and the answers' values are left out.  Status and its   *)
(* transition are a StatusClass.                                           *)
(***************************************************************************)
EXTENDS Objects, Status, Sequences

VARIABLES
  state,             \* the ConnectionState the icon is to show
  active,            \* the session being displayed, or None
  pendingTarget,     \* profile to start once the teardown is over, or None
  awaitingTeardown,  \* session told to disconnect and not yet gone, or None
  promptOpen,        \* a prompt has been opened and not resolved
  todo               \* what the worker still has to do, first step first

machineVars == <<state, active, pendingTarget, awaitingTeardown, promptOpen>>

-----------------------------------------------------------------------------
(* enum Command *)

NewTunnel(c)        == [op |-> "NewTunnel", config |-> c]
EnableLogForward(s) == [op |-> "EnableLogForward", session |-> s]
Connect(s)          == [op |-> "Connect", session |-> s]
Disconnect(s)       == [op |-> "Disconnect", session |-> s]
OpenPrompt(s, gs)   == [op |-> "OpenPrompt", session |-> s, groups |-> gs]
ClosePrompt         == [op |-> "ClosePrompt"]
ProvideInput(s, gs) == [op |-> "ProvideInput", session |-> s, groups |-> gs]
CheckReady(s)       == [op |-> "CheckReady", session |-> s]
Note(s)             == [op |-> "Note", session |-> s]

Command ==
  [op : {"NewTunnel"}, config : Config]
    \cup [op : {"EnableLogForward", "Connect", "Disconnect", "CheckReady",
                "Note"}, session : Session]
    \cup [op : {"OpenPrompt", "ProvideInput"}, session : Session,
          groups : SUBSET Group]
    \cup [op : {"ClosePrompt"}]

Returns(commands, rest) == todo' = commands \o rest

\* A handler's early return: nothing changes, nothing is to be done.
Ignored(rest) == Returns(<<>>, rest) /\ UNCHANGED machineVars

-----------------------------------------------------------------------------
(* Helpers shared by the handlers *)

\* A prompt the new state makes pointless is closed.
ClosesPrompt(x) == promptOpen /\ x # "AuthPending"

\* apply_status: a mapped status is displayed, an unmapped one only noted.
ApplyStatus(s, x, rest) ==
  \/ /\ x \in ConnectionState
     /\ state' = x
     /\ promptOpen' = (promptOpen /\ ~ClosesPrompt(x))
     /\ Returns(IF ClosesPrompt(x) THEN <<ClosePrompt>> ELSE <<>>, rest)
  \/ /\ x = NoChange
     /\ Returns(<<Note(s)>>, rest)
     /\ UNCHANGED <<state, promptOpen>>

\* Mutant: gone is disconnected, whatever was displayed.
StateOnceGoneForgetful == "Disconnected"

\* A session that is gone is displayed as disconnected, however it went,
\* except that a failure stays on display.
StateOnceGone == IF state = "Failed" THEN "Failed" ELSE "Disconnected"

\* Mutant: no look at whether there is a target.
FinishTeardownUnguarded(rest) ==
  /\ awaitingTeardown' = None
  /\ promptOpen' = FALSE
  /\ pendingTarget' = None
  /\ state' = "Connecting"
  /\ Returns(<<NewTunnel(pendingTarget)>>, rest)
  /\ UNCHANGED active

\* Mutant: the target is taken and not started.
FinishTeardownForgetful(rest) ==
  /\ awaitingTeardown' = None
  /\ promptOpen' = FALSE
  /\ pendingTarget' = None
  /\ state' = StateOnceGone
  /\ Returns(<<>>, rest)
  /\ UNCHANGED active

\* finish_teardown, for the session being torn down.
FinishTeardown(rest) ==
  /\ awaitingTeardown' = None
  /\ promptOpen' = FALSE
  /\ pendingTarget' = None
  /\ \/ /\ pendingTarget # None
        /\ state' = "Connecting"
        /\ Returns(<<NewTunnel(pendingTarget)>>, rest)
     \/ /\ pendingTarget = None
        /\ state' = StateOnceGone
        /\ Returns(<<>>, rest)
  /\ UNCHANGED active

-----------------------------------------------------------------------------
(* Machine::handle: one action per event *)

\* Mutant: a teardown under way is not looked at.
ProfileSelectedUnguarded(c, rest) ==
  \/ /\ active # None
     /\ pendingTarget' = c
     /\ awaitingTeardown' = active
     /\ active' = None
     /\ state' = "Connecting"
     /\ Returns(<<Disconnect(active)>>, rest)
     /\ UNCHANGED promptOpen
  \/ /\ active = None
     /\ state' = "Connecting"
     /\ Returns(<<NewTunnel(c)>>, rest)
     /\ UNCHANGED <<active, pendingTarget, awaitingTeardown, promptOpen>>

\* Mutant: the tunnel is started without waiting for the old session to go.
ProfileSelectedAtOnce(c, rest) ==
  /\ state' = "Connecting"
  /\ active' = None
  /\ Returns((IF active = None THEN <<>> ELSE <<Disconnect(active)>>)
               \o <<NewTunnel(c)>>, rest)
  /\ UNCHANGED <<pendingTarget, awaitingTeardown, promptOpen>>

ProfileSelected(c, rest) ==
  \/ /\ awaitingTeardown # None
     /\ pendingTarget' = c
     /\ Returns(<<>>, rest)
     /\ UNCHANGED <<state, active, awaitingTeardown, promptOpen>>
  \/ /\ awaitingTeardown = None
     /\ active # None
     /\ pendingTarget' = c
     /\ awaitingTeardown' = active
     /\ active' = None
     /\ state' = "Connecting"
     /\ Returns(<<Disconnect(active)>>, rest)
     /\ UNCHANGED promptOpen
  \/ /\ awaitingTeardown = None
     /\ active = None
     /\ state' = "Connecting"
     /\ Returns(<<NewTunnel(c)>>, rest)
     /\ UNCHANGED <<active, pendingTarget, awaitingTeardown, promptOpen>>

\* Mutant: the profile waiting for the teardown is not dropped.
DisconnectRequestedKeepsTarget(rest) ==
  /\ \/ /\ active # None
        /\ awaitingTeardown' = active
        /\ active' = None
        /\ Returns(<<Disconnect(active)>>, rest)
     \/ /\ active = None
        /\ Returns(<<>>, rest)
        /\ UNCHANGED <<active, awaitingTeardown>>
  /\ UNCHANGED <<state, pendingTarget, promptOpen>>

\* Mutant: the session is dropped from the display and not told.
DisconnectRequestedSilent(rest) ==
  /\ pendingTarget' = None
  /\ active' = None
  /\ Returns(<<>>, rest)
  /\ UNCHANGED <<state, awaitingTeardown, promptOpen>>

DisconnectRequested(rest) ==
  /\ pendingTarget' = None
  /\ \/ /\ active # None
        /\ awaitingTeardown' = active
        /\ active' = None
        /\ Returns(<<Disconnect(active)>>, rest)
     \/ /\ active = None
        /\ Returns(<<>>, rest)
        /\ UNCHANGED <<active, awaitingTeardown>>
  /\ UNCHANGED <<state, promptOpen>>

\* Mutant: the readiness check, and so Connect, comes first.
StartUpSwapped(s) == <<CheckReady(s), EnableLogForward(s)>>

\* Log forwarding before the readiness check, which is before Connect (KTD4).
StartUp(s) == <<EnableLogForward(s), CheckReady(s)>>

SessionCreated(s, rest) ==
  /\ pendingTarget' = None
  /\ active' = s
  /\ state' = "Connecting"
  /\ Returns(StartUp(s), rest)
  /\ UNCHANGED <<awaitingTeardown, promptOpen>>

SessionReady(s, rest) ==
  \/ active # s /\ Ignored(rest)
  \/ /\ active = s
     /\ state' = "Connecting"
     /\ Returns(<<Connect(s)>>, rest)
     /\ UNCHANGED <<active, pendingTarget, awaitingTeardown, promptOpen>>

\* Mutant: a status without a display is no session to adopt.
ExternalSessionSeenIfShown(s, x, rest) ==
  \/ /\ awaitingTeardown # None \/ active # None \/ x \notin ConnectionState
     /\ Ignored(rest)
  \/ /\ awaitingTeardown = None /\ active = None /\ x \in ConnectionState
     /\ active' = s
     /\ ApplyStatus(s, x, rest)
     /\ UNCHANGED <<pendingTarget, awaitingTeardown>>

ExternalSessionSeen(s, x, rest) ==
  \/ /\ awaitingTeardown # None \/ active # None
     /\ Ignored(rest)
  \/ /\ awaitingTeardown = None
     /\ active = None
     /\ active' = s
     /\ ApplyStatus(s, x, rest)
     /\ UNCHANGED <<pendingTarget, awaitingTeardown>>

\* Mutant: CONN_DISCONNECTING (displayed as connecting) passes for the end.
StatusChangedEager(s, x, rest) ==
  \/ s \notin {active, awaitingTeardown} /\ Ignored(rest)
  \/ /\ s = awaitingTeardown
     /\ \/ x \in {"Disconnected", "Connecting"} /\ FinishTeardown(rest)
        \/ x \notin {"Disconnected", "Connecting"} /\ Ignored(rest)
  \/ /\ s = active
     /\ s # awaitingTeardown
     /\ ApplyStatus(s, x, rest)
     /\ UNCHANGED <<active, pendingTarget, awaitingTeardown>>

StatusChanged(s, x, rest) ==
  \/ s \notin {active, awaitingTeardown} /\ Ignored(rest)
  \/ /\ s = awaitingTeardown
     /\ \/ x = "Disconnected" /\ FinishTeardown(rest)
        \/ x # "Disconnected" /\ Ignored(rest)
  \/ /\ s = active
     /\ s # awaitingTeardown
     /\ ApplyStatus(s, x, rest)
     /\ UNCHANGED <<active, pendingTarget, awaitingTeardown>>

\* Mutant: only the end of a teardown is looked for.
SessionRemovedIfTornDown(s, rest) ==
  \/ s = awaitingTeardown /\ FinishTeardown(rest)
  \/ s # awaitingTeardown /\ Ignored(rest)

SessionRemoved(s, rest) ==
  \/ /\ s = awaitingTeardown
     /\ FinishTeardown(rest)
  \/ /\ s = active
     /\ s # awaitingTeardown
     /\ active' = None
     /\ promptOpen' = FALSE
     /\ state' = StateOnceGone
     /\ Returns(<<>>, rest)
     /\ UNCHANGED <<pendingTarget, awaitingTeardown>>
  \/ s \notin {active, awaitingTeardown} /\ Ignored(rest)

\* on_credentials_required: both the events CredentialsRequired, with every
\* queued request, and AttentionRequired, with one.
CredentialsRequired(s, requests, rest) ==
  \/ /\ active # s \/ promptOpen \/ requests = {}
     /\ Ignored(rest)
  \/ /\ active = s /\ ~promptOpen /\ requests # {}
     /\ ~ (requests \subseteq Supported)
     /\ state' = "Failed"
     /\ active' = None
     /\ awaitingTeardown' = s
     /\ Returns(<<Note(s), Disconnect(s)>>, rest)
     /\ UNCHANGED <<pendingTarget, promptOpen>>
  \/ /\ active = s /\ ~promptOpen /\ requests # {}
     /\ requests \subseteq Supported
     /\ state' = "AuthPending"
     /\ promptOpen' = TRUE
     /\ Returns(<<OpenPrompt(s, requests)>>, rest)
     /\ UNCHANGED <<active, pendingTarget, awaitingTeardown>>

\* Mutant: the prompt is closed last.
ResumeSwapped(s, answers) ==
  <<ProvideInput(s, answers), CheckReady(s), ClosePrompt>>

\* The prompt is closed before the check that may open the next one.
Resume(s, answers) == <<ProvideInput(s, answers), ClosePrompt, CheckReady(s)>>

PromptSubmitted(s, answers, rest) ==
  \/ active # s /\ Ignored(rest)
  \/ /\ active = s
     /\ promptOpen' = FALSE
     /\ state' = "Connecting"
     /\ Returns(Resume(s, answers), rest)
     /\ UNCHANGED <<active, pendingTarget, awaitingTeardown>>

\* Mutant: the session is not told to go.
PromptCancelledSilent(s, rest) ==
  \/ active # s /\ Ignored(rest)
  \/ /\ active = s
     /\ promptOpen' = FALSE
     /\ state' = "Failed"
     /\ active' = None
     /\ pendingTarget' = None
     /\ awaitingTeardown' = s
     /\ Returns(<<ClosePrompt>>, rest)

PromptCancelled(s, rest) ==
  \/ active # s /\ Ignored(rest)
  \/ /\ active = s
     /\ promptOpen' = FALSE
     /\ state' = "Failed"
     /\ active' = None
     /\ pendingTarget' = None
     /\ awaitingTeardown' = s
     /\ Returns(<<ClosePrompt, Disconnect(s)>>, rest)

FailureDismissed(rest) ==
  /\ state' = IF state = "Failed" THEN "Disconnected" ELSE state
  /\ Returns(<<>>, rest)
  /\ UNCHANGED <<active, pendingTarget, awaitingTeardown, promptOpen>>

-----------------------------------------------------------------------------
MachineTypeOK ==
  /\ state \in ConnectionState
  /\ active \in Session \cup {None}
  /\ pendingTarget \in Config \cup {None}
  /\ awaitingTeardown \in Session \cup {None}
  /\ promptOpen \in BOOLEAN

\* Machine::default.
MachineInit ==
  /\ state = "Disconnected"
  /\ active = None
  /\ pendingTarget = None
  /\ awaitingTeardown = None
  /\ promptOpen = FALSE
=============================================================================
