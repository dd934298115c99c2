------------------------------- MODULE Worker -------------------------------
(***************************************************************************)
(* The applet's D-Bus worker, crates/applet/src/dbus.rs: the loop that     *)
(* feeds UI commands, signals and settle ticks to the Machine, executes    *)
(* the commands the Machine returns as calls on Openvpn3, and publishes    *)
(* snapshots to the panel.                                                 *)
(*                                                                         *)
(* The worker is one task: when it is idle (todo is empty) it takes one    *)
(* input, and it takes no other until that one is dealt with.  But every   *)
(* call it makes is an await, during which the service goes on.  One step  *)
(* of the model therefore is one call and what the worker does with the    *)
(* answer before its next await; the service moves in between.             *)
(*                                                                         *)
(* Left out: names, uptime, the status text and the log buffer, which      *)
(* nothing here reads back, and what the commands about profiles do, which *)
(* is in Profiles.  A UI command may come at any time: Applet composes the *)
(* worker with the panel that sends them.                                  *)
(***************************************************************************)
EXTENDS Machine, Openvpn3

CONSTANT FaultyCalls   \* the calls that may fail for no reason we model

\* A prompt is no Option::None.
ASSUME WorkerAssumption ==
  /\ FaultyCalls \subseteq {"NewTunnel", "LogForward", "Connect", "Disconnect",
                            "Status", "List", "Ready", "Queue", "Provide",
                            "Watch"}
  /\ None \notin [session : Session, fields : SUBSET Group]

VARIABLES
  prompt,   \* PromptSpec on offer: [session, fields], or None
  shown,    \* the last snapshot published
  intent    \* history: the profile the user last chose; None once the user
            \* asked to disconnect

vars == <<machineVars, todo, openvpn3Vars, prompt, shown, intent>>

Idle == todo = <<>>

\* Worker::publish: what the panel gets to see.
Snapshot == [state |-> state, active |-> active, prompt |-> prompt]

-----------------------------------------------------------------------------
(* The steps of the worker that are not commands of the Machine *)

Adopt              == [op |-> "Adopt"]
SubscribeTo(s)     == [op |-> "SubscribeTo", session |-> s]
AdoptAs(s, x)      == [op |-> "AdoptAs", session |-> s, status |-> x]
WatchManager       == [op |-> "WatchManager"]
Created(s)         == [op |-> "Created", session |-> s]
ReconcileTeardown  == [op |-> "ReconcileTeardown"]
ReconcileStatus    == [op |-> "ReconcileStatus"]
StatusRead(s, x)   == [op |-> "StatusRead", session |-> s, status |-> x]
AskQueue(s)        == [op |-> "AskQueue", session |-> s]
Select(c)          == [op |-> "Select", config |-> c]
DisconnectActive   == [op |-> "DisconnectActive"]
Publish            == [op |-> "Publish"]
PublishIfNot(x)    == [op |-> "PublishIfNot", state |-> x]

Step ==
  Command
    \cup [op : {"Adopt", "WatchManager", "ReconcileTeardown",
                "ReconcileStatus", "DisconnectActive", "Publish"}]
    \cup [op : {"SubscribeTo", "Created", "AskQueue"}, session : Session]
    \cup [op : {"AdoptAs", "StatusRead"}, session : Session,
          status : StatusClass]
    \cup [op : {"Select"}, config : Config]
    \cup [op : {"PublishIfNot"}, state : ConnectionState]

\* The next step is op.  What comes after it is Rest.
Doing(op) == todo # <<>> /\ Head(todo).op = op
Rest == Tail(todo)
Done == todo' = Rest

Fails(call) == call \in FaultyCalls

-----------------------------------------------------------------------------
(* Inputs, taken when idle *)

\* Opening the menu, picking a profile and disconnecting first check what
\* the worker believes against the service.
Reconcile == <<ReconcileTeardown, ReconcileStatus>>

Receives(steps) ==
  /\ Idle
  /\ todo' = steps
  /\ UNCHANGED <<machineVars, openvpn3Vars, prompt, shown, intent>>

\* The service has a path left for every tunnel that may yet be started.  A
\* bound of the instance, not a guard of the code.
PathsLeft ==
  Cardinality({s \in Own : real[s] = "Unborn"})
    > Cardinality({pendingTarget} \ {None})

UiSelectProfile(c) ==
  PathsLeft /\ Receives(Reconcile \o <<Select(c), Publish>>)
UiDisconnect == Receives(Reconcile \o <<DisconnectActive, Publish>>)
UiRefresh == Receives(Reconcile \o <<Publish>>)

\* Mutant: the snapshot is not published.
UiDismissFailureSilent ==
  /\ Idle
  /\ FailureDismissed(<<>>)
  /\ UNCHANGED <<openvpn3Vars, prompt, shown, intent>>

UiDismissFailure ==
  /\ Idle
  /\ FailureDismissed(<<Publish>>)
  /\ UNCHANGED <<openvpn3Vars, prompt, shown, intent>>

\* Import, RenameProfile and DeleteProfile do not reach the Machine.
UiManageProfiles == Receives(<<Publish>>)

\* The answers to a prompt the panel showed, or its cancellation.  Neither
\* says which prompt: it is whatever prompt the worker has by then.
UiSubmitPrompt(answers) ==
  /\ Idle
  /\ \/ prompt # None /\ PromptSubmitted(prompt.session, answers, <<Publish>>)
     \/ prompt = None /\ Ignored(<<Publish>>)
  /\ UNCHANGED <<openvpn3Vars, prompt, shown, intent>>

UiCancelPrompt ==
  /\ Idle
  /\ \/ prompt # None /\ PromptCancelled(prompt.session, <<Publish>>)
     \/ prompt = None /\ Ignored(<<Publish>>)
  /\ UNCHANGED <<openvpn3Vars, prompt, shown, intent>>

\* on_wire.
ReceiveStatus(s) ==
  /\ Idle
  /\ statusQ[s] # <<>>
  /\ statusQ' = [statusQ EXCEPT ![s] = Tail(@)]
  /\ StatusChanged(s, Head(statusQ[s]), <<Publish>>)
  /\ UNCHANGED <<serviceVars, subscribed, watching, attentionQ, removedQ,
                 prompt, shown, intent>>

ReceiveAttention(s) ==
  /\ Idle
  /\ attentionQ[s] # <<>>
  /\ attentionQ' = [attentionQ EXCEPT ![s] = Tail(@)]
  /\ CredentialsRequired(s, {Head(attentionQ[s])} \cap Recognised, <<Publish>>)
  /\ UNCHANGED <<serviceVars, subscribed, watching, statusQ, removedQ,
                 prompt, shown, intent>>

ReceiveRemoved ==
  /\ Idle
  /\ removedQ # <<>>
  /\ removedQ' = Tail(removedQ)
  /\ SessionRemoved(Head(removedQ), <<Publish>>)
  /\ UNCHANGED <<serviceVars, subscribed, watching, statusQ, attentionQ,
                 prompt, shown, intent>>

\* Mutants: a teardown, or a connect, is not taken for a transition.
InFlightIfConnecting == state = "Connecting"
InFlightIfTearingDown == awaitingTeardown # None

TransitionInFlight == awaitingTeardown # None \/ state = "Connecting"

\* The settle tick of the loop.
Settle ==
  TransitionInFlight /\ Receives(Reconcile \o <<PublishIfNot(state)>>)

-----------------------------------------------------------------------------
(* What is done with them, one call at a time *)

\* adopt_existing_sessions: the first session in the list, which is in no
\* particular order, whose status can be read.  One that does not decode is one
\* that cannot be read.
AdoptExisting ==
  /\ Doing("Adopt")
  /\ \/ \E s \in Session :
          Exists(s) /\ Returns(<<AdoptAs(s, real[s])>>, Rest)
     \/ /\ Fails("List") \/ Fails("Status") \/ \A s \in Session : ~Exists(s)
        /\ Done
  /\ UNCHANGED <<machineVars, openvpn3Vars, prompt, shown, intent>>

\* The status is handled only after the session's configuration and age have
\* been asked for, which are awaits.
AdoptStatusRead ==
  /\ Doing("AdoptAs")
  /\ LET s == Head(todo).session IN
       ExternalSessionSeen(s, Head(todo).status, <<SubscribeTo(s)>> \o Rest)
  /\ UNCHANGED <<openvpn3Vars, prompt, shown, intent>>

\* A subscription that fails ends its forwarding task at once: its signals are
\* lost, as they may be where Lossy holds.
SubscribeSession ==
  /\ Doing("SubscribeTo")
  /\ Subscribe(Head(todo).session)
  /\ Done
  /\ UNCHANGED <<machineVars, prompt, shown, intent>>

WatchSessionManager ==
  /\ Doing("WatchManager")
  /\ Watch \/ (Fails("Watch") /\ UNCHANGED openvpn3Vars)
  /\ Done
  /\ UNCHANGED <<machineVars, prompt, shown, intent>>

\* new_tunnel, up to the answer.  A failure is noted and nothing else.
TunnelStarts ==
  /\ Doing("NewTunnel")
  /\ \E s \in Session, requests \in SUBSET Group :
       StartTunnel(s, requests) /\ Returns(<<Created(s)>>, Rest)
  /\ UNCHANGED <<machineVars, prompt, shown, intent>>

TunnelRefused ==
  /\ Doing("NewTunnel")
  /\ Done
  /\ UNCHANGED <<machineVars, openvpn3Vars, prompt, shown, intent>>

ExecNewTunnel == TunnelStarts \/ (Fails("NewTunnel") /\ TunnelRefused)

\* new_tunnel, from there: the subscriptions are up before the Machine hears
\* of the session.
TunnelCreated ==
  /\ Doing("Created")
  /\ Subscribe(Head(todo).session)
  /\ SessionCreated(Head(todo).session, Rest)
  /\ UNCHANGED <<prompt, shown, intent>>

ExecEnableLogForward ==
  /\ Doing("EnableLogForward")
  /\ \/ Exists(Head(todo).session) /\ ForwardLog(Head(todo).session)
     \/ /\ Fails("LogForward") \/ ~Exists(Head(todo).session)
        /\ UNCHANGED openvpn3Vars
  /\ Done
  /\ UNCHANGED <<machineVars, prompt, shown, intent>>

ExecConnect ==
  /\ Doing("Connect")
  /\ \/ Exists(Head(todo).session) /\ Dial(Head(todo).session)
     \/ /\ Fails("Connect") \/ ~Exists(Head(todo).session)
        /\ UNCHANGED openvpn3Vars
  /\ Done
  /\ UNCHANGED <<machineVars, prompt, shown, intent>>

\* The result of the call is not looked at.
ExecDisconnect ==
  /\ Doing("Disconnect")
  /\ \/ Exists(Head(todo).session) /\ Stop(Head(todo).session)
     \/ /\ Fails("Disconnect") \/ ~Exists(Head(todo).session)
        /\ UNCHANGED openvpn3Vars
  /\ Done
  /\ UNCHANGED <<machineVars, prompt, shown, intent>>

\* drain_input_queue: a field for each request still queued.  There are several
\* calls; the session may go, or one fail, after any of them.
Drained(s, groups) ==
  IF Exists(s) /\ ~Fails("Queue") THEN {groups \cap asks[s]} ELSE SUBSET groups

ExecOpenPrompt ==
  /\ Doing("OpenPrompt")
  /\ LET s == Head(todo).session IN
       \E fields \in Drained(s, Head(todo).groups) :
         prompt' = [session |-> s, fields |-> fields]
  /\ Done
  /\ UNCHANGED <<machineVars, openvpn3Vars, shown, intent>>

ExecClosePrompt ==
  /\ Doing("ClosePrompt")
  /\ prompt' = None
  /\ Done
  /\ UNCHANGED <<machineVars, openvpn3Vars, shown, intent>>

\* Each answer is one call.  While a session is not dialled, answering one
\* round of requests may bring up the next.
Accepted(groups) == IF Fails("Provide") THEN SUBSET groups ELSE {groups}
NextRound(s) == IF s \in dialled THEN {{}} ELSE SUBSET Group

ExecProvideInput ==
  /\ Doing("ProvideInput")
  /\ LET s == Head(todo).session IN
       \/ /\ Exists(s)
          /\ \E groups \in Accepted(Head(todo).groups), more \in NextRound(s) :
               Answer(s, groups, more)
       \/ ~Exists(s) /\ UNCHANGED openvpn3Vars
  /\ Done
  /\ UNCHANGED <<machineVars, prompt, shown, intent>>

ExecNote ==
  /\ Doing("Note")
  /\ Done
  /\ UNCHANGED <<machineVars, openvpn3Vars, prompt, shown, intent>>

\* check_ready: Ready succeeds when nothing is asked.
ExecCheckReady ==
  /\ Doing("CheckReady")
  /\ LET s == Head(todo).session IN
       \/ Exists(s) /\ asks[s] = {} /\ SessionReady(s, Rest)
       \/ /\ Exists(s)
          /\ asks[s] # {} \/ Fails("Ready")
          /\ Returns(<<AskQueue(s)>>, Rest)
          /\ UNCHANGED machineVars
       \/ ~Exists(s) /\ Ignored(Rest)
  /\ UNCHANGED <<openvpn3Vars, prompt, shown, intent>>

\* Otherwise the queue says what is asked.  Nothing comes of it when it is empty
\* or cannot be read, or holds only codes the applet cannot decode.
ExecAskQueue ==
  /\ Doing("AskQueue")
  /\ LET s == Head(todo).session
         requests == asks[s] \cap Recognised
     IN  \/ requests # {} /\ CredentialsRequired(s, requests, Rest)
         \/ (requests = {} \/ Fails("Queue")) /\ Ignored(Rest)
  /\ UNCHANGED <<openvpn3Vars, prompt, shown, intent>>

\* reconcile_teardown: the session is no longer listed.
ExecReconcileTeardown ==
  /\ Doing("ReconcileTeardown")
  /\ \/ /\ awaitingTeardown # None
        /\ ~Exists(awaitingTeardown)
        /\ SessionRemoved(awaitingTeardown, Rest)
     \/ /\ \/ awaitingTeardown = None
           \/ awaitingTeardown # None /\ Exists(awaitingTeardown)
           \/ Fails("List")
        /\ Ignored(Rest)
  /\ UNCHANGED <<openvpn3Vars, prompt, shown, intent>>

\* reconcile_active_status: a session that is gone has no status to read.
ExecReconcileStatus ==
  /\ Doing("ReconcileStatus")
  /\ \/ /\ active # None
        /\ Exists(active)
        /\ Returns(<<StatusRead(active, real[active])>>, Rest)
     \/ /\ \/ active = None
           \/ active # None /\ ~Exists(active)
           \/ Fails("Status")
        /\ Done
  /\ UNCHANGED <<machineVars, openvpn3Vars, prompt, shown, intent>>

\* The status is handled only after the session's age has been asked for, which
\* is an await: it may be out of date.
HandleStatusRead ==
  /\ Doing("StatusRead")
  /\ StatusChanged(Head(todo).session, Head(todo).status, Rest)
  /\ UNCHANGED <<openvpn3Vars, prompt, shown, intent>>

ExecSelect ==
  /\ Doing("Select")
  /\ ProfileSelected(Head(todo).config, Rest)
  /\ intent' = Head(todo).config
  /\ UNCHANGED <<openvpn3Vars, prompt, shown>>

ExecDisconnectActive ==
  /\ Doing("DisconnectActive")
  /\ DisconnectRequested(Rest)
  /\ intent' = None
  /\ UNCHANGED <<openvpn3Vars, prompt, shown>>

ExecPublish ==
  /\ Doing("Publish")
  /\ shown' = Snapshot
  /\ Done
  /\ UNCHANGED <<machineVars, openvpn3Vars, prompt, intent>>

\* A tick publishes only if it changed the state.
ExecPublishIfNot ==
  /\ Doing("PublishIfNot")
  /\ shown' = IF state # Head(todo).state THEN Snapshot ELSE shown
  /\ Done
  /\ UNCHANGED <<machineVars, openvpn3Vars, prompt, intent>>

-----------------------------------------------------------------------------
Ui ==
  \/ \E c \in Config : UiSelectProfile(c)
  \/ UiDisconnect
  \/ UiRefresh
  \/ UiDismissFailure
  \/ UiManageProfiles
  \/ \E answers \in SUBSET Supported : UiSubmitPrompt(answers)
  \/ UiCancelPrompt

Signal ==
  \/ \E s \in Session : ReceiveStatus(s) \/ ReceiveAttention(s)
  \/ ReceiveRemoved

\* Every step but NewTunnel and the publishing.
Call ==
  \/ AdoptExisting \/ AdoptStatusRead \/ SubscribeSession \/ WatchSessionManager
  \/ TunnelCreated
  \/ ExecEnableLogForward \/ ExecConnect \/ ExecDisconnect
  \/ ExecOpenPrompt \/ ExecClosePrompt \/ ExecProvideInput \/ ExecNote
  \/ ExecCheckReady \/ ExecAskQueue
  \/ ExecReconcileTeardown \/ ExecReconcileStatus \/ HandleStatusRead
  \/ ExecSelect \/ ExecDisconnectActive

Work == Call \/ ExecNewTunnel \/ ExecPublish \/ ExecPublishIfNot

\* The service moves while the worker waits for an answer, or is idle.
Service ==
  Openvpn3Next /\ UNCHANGED <<machineVars, todo, prompt, shown, intent>>

Next == Ui \/ Signal \/ Settle \/ Work \/ Service

\* The beginning of run.
Init ==
  /\ MachineInit
  /\ Openvpn3Init
  /\ prompt = None
  /\ shown = [state |-> "Disconnected", active |-> None, prompt |-> None]
  /\ intent = None
  /\ todo = <<Adopt, WatchManager, Publish>>

Spec == Init /\ [][Next]_vars

\* The runtime keeps running the worker; its select! picks among the ready
\* branches at random, so neither a signal nor a due tick waits for ever; a
\* session told to disconnect goes away.  Nobody has to click anything.
Fairness ==
  /\ WF_vars(Work)
  /\ SF_vars(Settle)
  /\ \A s \in Session :
       /\ SF_vars(ReceiveStatus(s))
       /\ SF_vars(ReceiveAttention(s))
       /\ WF_vars(s \in told /\ Service /\ RemoveSession(s))
  /\ SF_vars(ReceiveRemoved)

FairSpec == Spec /\ Fairness

-----------------------------------------------------------------------------
(* Properties *)

Prompt == [session : Session, fields : SUBSET Group] \cup {None}

\* Every variable holds a value of its kind.
TypeOK ==
  /\ MachineTypeOK
  /\ todo \in Seq(Step)
  /\ Openvpn3TypeOK
  /\ prompt \in Prompt
  /\ shown \in [state : ConnectionState, active : Session \cup {None},
                prompt : Prompt]
  /\ intent \in Config \cup {None}

\* The Machine never displays one session while it waits for another to go,
\* and a target waits only for a teardown.
Exclusive ==
  /\ active = None \/ awaitingTeardown = None
  /\ pendingTarget # None => awaitingTeardown # None

\* A tunnel is being started only when it is the very next thing to do and no
\* other session is in the Machine's hands.
StartOps == {"NewTunnel", "Created"}
StartsAlone ==
  \A i \in 1..Len(todo) :
    todo[i].op \in StartOps => i = 1 /\ active = None /\ awaitingTeardown = None

\* KTD5: one chain of transitions at a time, whatever inputs interleave.
OneChain == Exclusive /\ StartsAlone

\* The session whose creation has been answered but not yet handled.
Newborn == IF Doing("Created") THEN {Head(todo).session} ELSE {}

\* No session the applet started runs without the applet knowing it: it is
\* displayed, or being torn down, or just being created.  Whatever signals
\* are lost and whatever calls fail.
NoOrphan ==
  \A s \in Own : Running(s) => s \in {active, awaitingTeardown} \cup Newborn

\* AE1: of the sessions the applet started at most one runs at any time.
AtMostOneLive ==
  \A s, t \in Own : Running(s) /\ Running(t) => s = t

\* A session the Machine waits for was told to go, whichever way the teardown
\* began, unless it is gone or the call may be refused: the worker never waits
\* for an end that nobody asked for.
TeardownIsTold ==
  Idle /\ "Disconnect" \notin FaultyCalls /\ awaitingTeardown # None =>
    awaitingTeardown \in told \/ ~Exists(awaitingTeardown)

\* KTD4: unless the call itself is refused, a session the applet started has
\* its log forwarded before it is dialled, through every prompt and retry.
ForwardBeforeConnect ==
  "LogForward" \notin FaultyCalls => dialled \cap Own \subseteq forwarded

\* When the Machine believes a prompt is open there is one on offer, for a
\* session it has in hand: nobody waits for an answer that was not asked.
PromptOpenIsBacked ==
  Idle /\ promptOpen =>
    prompt # None /\ prompt.session \in {active, awaitingTeardown}

\* The tunnel being started is for the profile the user chose last, however
\* selections, disconnects and teardowns interleave.
TunnelIsWanted ==
  Doing("NewTunnel") => Head(todo).config = intent

\* The panel shows the Machine's state whenever the worker is idle, also
\* after the ticks that publish nothing.
ShownStateIsCurrent ==
  Idle => shown.state = state

\* The tunnels the applet starts, as the user sees them.
LiveOwn == {s \in Own : Running(s)}

Tunnels ==
  INSTANCE SingleSession WITH
    wanted <- intent, live <- LiveOwn,
    dialled <- dialled \cap LiveOwn, leaving <- told \cap LiveOwn

\* R5, R6: behind all its signals, ticks and teardowns the worker starts one
\* session at a time, only while the user wants a profile, and neither dials
\* nor starts anything while a session it has told to go is still there.
ImplementsSingleSession == Tunnels!Spec

\* AE2: a failed attempt whose session is out of the Machine's hands stays
\* on display until the user dismisses it or has chosen a profile; neither a
\* signal nor a reconciliation takes it away.
FailureStaysVisible ==
  [][ state = "Failed" /\ state' # "Failed" /\ active = None =>
        \/ Idle /\ UNCHANGED queueVars
        \/ Doing("Select")
        \/ pendingTarget # None ]_vars
-----------------------------------------------------------------------------
(* Liveness, under FairSpec *)

\* A teardown ends, even if the signal of its end is lost: otherwise every
\* later selection would silently do nothing.
TeardownEnds == awaitingTeardown # None ~> awaitingTeardown = None

\* A profile chosen during a teardown gets its tunnel, unless the user
\* chooses otherwise in the meantime.
TargetIsTried ==
  \A c \in Config :
    pendingTarget = c ~> intent # c \/ (Doing("NewTunnel") /\ Head(todo).config = c)

\* A session that has connected is not left on display as connecting, even
\* if the signal is lost.
ConnectedIsShown ==
  \A s \in Session :
    active = s /\ real[s] = "Connected" /\ shown.state = "Connecting"
      ~> active # s \/ real[s] # "Connected" \/ shown.state # "Connecting"

\* Off is off: when the user has disconnected, no session the applet started
\* goes on running, whatever was under way, unless a profile is chosen again.
OffMeansOff ==
  intent = None ~> intent # None \/ \A s \in Own : ~Running(s)

-----------------------------------------------------------------------------
(* What the documents say of the program and the program does not do *)

\* The settle tick "goes idle the moment it settles, so it is a bounded
\* safety net rather than polling" (dbus.rs): the icon is never connecting
\* for good with no session to wait for.
ConnectingHasSession ==
  Idle /\ state = "Connecting" => {active, awaitingTeardown} # {None}

\* "A Disconnect that returns a D-Bus error leaves state at failed ..., not
\* stuck at connecting" (the plan).
RefusedDisconnectIsNotStuck ==
  awaitingTeardown # None /\ state = "Connecting"
    ~> awaitingTeardown = None \/ state # "Connecting"
=============================================================================
