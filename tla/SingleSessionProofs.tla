------------------------- MODULE SingleSessionProofs -------------------------
(***************************************************************************)
(* Worker implements SingleSession, for any number of sessions, profiles   *)
(* and requests, whatever calls fail and whatever signals are lost.        *)
(*                                                                         *)
(* The invariant of WorkerProofs is not enough: that no session is dialled *)
(* after it was told to go depends on where Connect and Disconnect stand   *)
(* among the worker's steps.  Connect is always the very next step, for    *)
(* the session on display, and Disconnect the next or the next but one,    *)
(* for the session being torn down; so no other step comes between a       *)
(* decision of the Machine and the call that carries it out.               *)
(*                                                                         *)
(* From the same places follows, at the end, that the worker waits only    *)
(* for sessions that were told to go.                                      *)
(***************************************************************************)
EXTENDS WorkerProofs

-----------------------------------------------------------------------------
(* The inductive invariant *)

AdoptOps == {"Adopt", "AdoptAs"}
Notices  == {"Note", "ClosePrompt"}

\* Where the steps stand that depend on whom the Machine has in hand.
InPlace ==
  \A i \in 1..Len(todo) :
    /\ todo[i].op = "Connect" => i = 1 /\ todo[i].session = active
    /\ todo[i].op = "Disconnect" =>
         /\ i = 1 \/ (i = 2 /\ todo[1].op \in Notices)
         /\ active = None
         /\ todo[i].session = awaitingTeardown
    /\ todo[i].op \in AdoptOps => i = 1

\* The session on display has not been told to go, nor has the newborn, nor
\* has any when the worker adopts one.
NotTold ==
  /\ active # None => active \notin told
  /\ Newborn \cap told = {}
  /\ Doing("Adopt") \/ Doing("AdoptAs") => told = {}

\* A session that was dialled or told has been there.
MarksAreOfBorn == \A s \in dialled \cup told : real[s] # "Unborn"

SInv == InPlace /\ NotTold /\ MarksAreOfBorn

-----------------------------------------------------------------------------
(* Steps and batches *)

\* The steps that may stand anywhere.
CalmStep == {x \in QuietStep : x.op \notin {"Connect", "Disconnect"} \cup AdoptOps}

\* What follows a step that is no notice is calm.
LEMMA RestIsCalm ==
  ASSUME IInv, InPlace, todo # <<>>, Head(todo).op \notin Notices
  PROVE  Rest \in Seq(CalmStep)
<1>1. Rest \in Seq(QuietStep) /\ todo \in Seq(Step)
  BY RestIsQuiet, Parts
<1>2. \A i \in 1..Len(Rest) : Rest[i] = todo[i + 1] /\ i + 1 \in 1..Len(todo)
  BY <1>1 DEF Rest
<1>3. todo[1] = Head(todo)
  BY <1>1
<1>4. ASSUME NEW i \in 1..Len(Rest) PROVE Rest[i] \in CalmStep
  <2>1. Rest[i] \in QuietStep
    BY <1>1
  <2>2. i + 1 # 1 /\ (i + 1 = 2 => todo[1].op \notin Notices)
    BY <1>1, <1>3
  <2>3. Rest[i].op \notin {"Connect", "Disconnect"} \cup AdoptOps
    BY <1>2, <2>2 DEF InPlace
  <2> QED BY <2>1, <2>3 DEF CalmStep
<1> QED BY <1>1, <1>4

\* A step that was quiet alone is so in a batch: what the handlers return.
LEMMA CalmBatches ==
  /\ <<>> \in Seq(CalmStep)
  /\ <<ClosePrompt>> \in Seq(CalmStep)
  /\ \A s \in Session :
       /\ <<Note(s)>> \in Seq(CalmStep)
       /\ <<AskQueue(s)>> \in Seq(CalmStep)
       /\ <<SubscribeTo(s)>> \in Seq(CalmStep)
       /\ StartUp(s) \in Seq(CalmStep)
       /\ \A gs \in SUBSET Group :
            /\ <<OpenPrompt(s, gs)>> \in Seq(CalmStep)
            /\ Resume(s, gs) \in Seq(CalmStep)
<1>1. ClosePrompt \in CalmStep
  BY QuietCommands DEF CalmStep, ClosePrompt, AdoptOps
<1>2. ASSUME NEW s \in Session
      PROVE  /\ Note(s) \in CalmStep
             /\ EnableLogForward(s) \in CalmStep
             /\ CheckReady(s) \in CalmStep
  BY QuietCommands DEF CalmStep, Note, EnableLogForward, CheckReady, AdoptOps
<1>3. ASSUME NEW s \in Session
      PROVE  AskQueue(s) \in CalmStep /\ SubscribeTo(s) \in CalmStep
  BY DEF AskQueue, SubscribeTo, CalmStep, QuietStep, Step, StartOps, AdoptOps
<1>4. ASSUME NEW s \in Session, NEW gs \in SUBSET Group
      PROVE  OpenPrompt(s, gs) \in CalmStep /\ ProvideInput(s, gs) \in CalmStep
  BY QuietCommands DEF CalmStep, OpenPrompt, ProvideInput, AdoptOps
<1>5. /\ <<>> \in Seq(CalmStep)
      /\ \A x \in CalmStep : <<x>> \in Seq(CalmStep)
      /\ \A x, y \in CalmStep : <<x, y>> \in Seq(CalmStep)
      /\ \A x, y, z \in CalmStep : <<x, y, z>> \in Seq(CalmStep)
  OBVIOUS
<1> QED BY <1>1, <1>2, <1>3, <1>4, <1>5 DEF StartUp, Resume

\* The steps are in place, and the worker does not adopt.
Settled == InPlace' /\ ~Doing("Adopt")' /\ ~Doing("AdoptAs")'

\* Calm steps are in place wherever they are.
LEMMA CalmBatch ==
  ASSUME NEW cs \in Seq(CalmStep), NEW rest \in Seq(CalmStep),
         Returns(cs, rest)
  PROVE  Settled /\ ~Doing("Created")'
<1>1. todo' \in Seq(CalmStep)
  BY DEF Returns
<1>2. \A i \in 1..Len(todo') : todo'[i] \in CalmStep
  BY <1>1
<1>3. todo' # <<>> => Head(todo') \in CalmStep
  BY <1>1
<1> QED BY <1>2, <1>3
        DEF InPlace, Settled, Doing, CalmStep, AdoptOps, QuietStep, StartOps

\* One step before calm ones is in place if it is so first.
LEMMA FirstInPlace ==
  ASSUME NEW x, NEW rest \in Seq(CalmStep), Returns(<<x>>, rest),
         x.op = "Connect" => x.session = active',
         x.op = "Disconnect" => active' = None /\ x.session = awaitingTeardown'
  PROVE  InPlace' /\ Head(todo') = x /\ todo' # <<>>
<1>1. /\ todo'[1] = x /\ Head(todo') = x /\ todo' # <<>>
      /\ \A i \in 1..Len(todo') : i # 1 => todo'[i] \in CalmStep
  BY DEF Returns
<1> QED BY <1>1 DEF InPlace, CalmStep, AdoptOps

\* A Disconnect after a notice is in place.
LEMMA SecondInPlace ==
  ASSUME NEW n, NEW x, NEW rest \in Seq(CalmStep), Returns(<<n, x>>, rest),
         n.op \in Notices, x.op = "Disconnect",
         active' = None, x.session = awaitingTeardown'
  PROVE  Settled /\ ~Doing("Created")'
<1>1. /\ todo'[1] = n /\ todo'[2] = x /\ Head(todo') = n
      /\ \A i \in 1..Len(todo') : i \notin {1, 2} => todo'[i] \in CalmStep
  BY DEF Returns
<1>2. InPlace'
  <2> SUFFICES ASSUME NEW i \in 1..Len(todo')
               PROVE  /\ todo'[i].op = "Connect" => i = 1 /\ todo'[i].session = active'
                      /\ todo'[i].op = "Disconnect" =>
                           /\ i = 1 \/ (i = 2 /\ todo'[1].op \in Notices)
                           /\ active' = None
                           /\ todo'[i].session = awaitingTeardown'
                      /\ todo'[i].op \in AdoptOps => i = 1
    BY DEF InPlace
  <2>1. CASE i = 1
    BY <1>1, <2>1 DEF Notices, AdoptOps
  <2>2. CASE i = 2
    BY <1>1, <2>2 DEF Notices, AdoptOps
  <2>3. CASE i \notin {1, 2}
    BY <1>1, <2>3 DEF CalmStep
  <2> QED BY <2>1, <2>2, <2>3
<1> QED BY <1>1, <1>2 DEF Settled, Doing, Notices

-----------------------------------------------------------------------------
(* The Machine's handlers *)

\* A handler that takes no session in hand leaves the steps in place.
Places == Settled /\ ~Doing("Created")' /\ active' \in {active, None}

\* finish_teardown starts the profile that waits.
LEMMA FinishTeardownPlaces ==
  ASSUME NEW rest \in Seq(CalmStep), FinishTeardown(rest)
  PROVE  Places
<1>1. CASE pendingTarget # None
  <2>1. Returns(<<NewTunnel(pendingTarget)>>, rest) /\ active' = active
    BY <1>1 DEF FinishTeardown
  <2>2. InPlace' /\ Head(todo') = NewTunnel(pendingTarget)
    BY <2>1, FirstInPlace DEF NewTunnel
  <2> QED BY <2>1, <2>2 DEF Places, Settled, Doing, NewTunnel
<1>2. CASE pendingTarget = None
  BY <1>2, CalmBatches, CalmBatch DEF FinishTeardown, Places
<1> QED BY <1>1, <1>2

\* apply_status returns a notice at most.
LEMMA ApplyStatusPlaces ==
  ASSUME NEW s \in Session, NEW x \in StatusClass,
         NEW rest \in Seq(CalmStep), ApplyStatus(s, x, rest)
  PROVE  Settled /\ ~Doing("Created")'
<1>1. \E cs \in Seq(CalmStep) : Returns(cs, rest)
  BY CalmBatches DEF ApplyStatus
<1> QED BY <1>1, CalmBatch

\* An event that is ignored changes nothing.
LEMMA IgnoredPlaces ==
  ASSUME NEW rest \in Seq(CalmStep), Ignored(rest)
  PROVE  Places
BY CalmBatches, CalmBatch DEF Ignored, machineVars, Places

\* The handlers that take no session in hand.
LEMMA HandlersPlace ==
  ASSUME NEW s \in Session, NEW rest \in Seq(CalmStep)
  PROVE  /\ SessionReady(s, rest) => Places
         /\ SessionRemoved(s, rest) => Places
         /\ PromptCancelled(s, rest) => Places
         /\ \A x \in StatusClass : StatusChanged(s, x, rest) => Places
         /\ \A gs \in SUBSET Group :
              /\ CredentialsRequired(s, gs, rest) => Places
              /\ PromptSubmitted(s, gs, rest) => Places
<1>1. ASSUME SessionReady(s, rest) PROVE Places
  <2>1. CASE active # s
    BY <1>1, <2>1, IgnoredPlaces DEF SessionReady
  <2>2. CASE active = s
    <3>1. Returns(<<Connect(s)>>, rest) /\ active' = s
      BY <1>1, <2>2, IgnoredPlaces DEF SessionReady, Ignored, machineVars
    <3>2. InPlace' /\ Head(todo') = Connect(s)
      BY <3>1, FirstInPlace DEF Connect
    <3> QED BY <2>2, <3>1, <3>2 DEF Places, Settled, Doing, Connect
  <2> QED BY <2>1, <2>2
<1>2. SessionRemoved(s, rest) => Places
  BY CalmBatches, CalmBatch, FinishTeardownPlaces, IgnoredPlaces
     DEF SessionRemoved, Places
<1>3. ASSUME PromptCancelled(s, rest) PROVE Places
  <2>1. CASE active # s
    BY <1>3, <2>1, IgnoredPlaces DEF PromptCancelled
  <2>2. CASE active = s
    <3>1. /\ Returns(<<ClosePrompt, Disconnect(s)>>, rest)
          /\ active' = None /\ awaitingTeardown' = s
      BY <1>3, <2>2 DEF PromptCancelled
    <3> QED BY <3>1, SecondInPlace DEF Places, ClosePrompt, Disconnect, Notices
  <2> QED BY <2>1, <2>2
<1>4. ASSUME NEW x \in StatusClass, StatusChanged(s, x, rest) PROVE Places
  BY <1>4, ApplyStatusPlaces, FinishTeardownPlaces, IgnoredPlaces
     DEF StatusChanged, Places
<1>5. ASSUME NEW gs \in SUBSET Group, CredentialsRequired(s, gs, rest)
      PROVE  Places
  <2>1. CASE Ignored(rest)
    BY <2>1, IgnoredPlaces
  <2>2. CASE /\ Returns(<<Note(s), Disconnect(s)>>, rest)
             /\ active' = None /\ awaitingTeardown' = s
    BY <2>2, SecondInPlace DEF Places, Note, Disconnect, Notices
  <2>3. CASE Returns(<<OpenPrompt(s, gs)>>, rest) /\ active' = active
    BY <2>3, CalmBatches, CalmBatch DEF Places
  <2> QED BY <1>5, <2>1, <2>2, <2>3 DEF CredentialsRequired
<1>6. ASSUME NEW gs \in SUBSET Group, PromptSubmitted(s, gs, rest)
      PROVE  Places
  BY <1>6, CalmBatches, CalmBatch, IgnoredPlaces DEF PromptSubmitted, Places
<1> QED BY <1>1, <1>2, <1>3, <1>4, <1>5, <1>6

\* So do the choices of the user.
LEMMA ChoicesPlace ==
  ASSUME Before, NEW rest \in Seq(CalmStep)
  PROVE  /\ \A c \in Config : ProfileSelected(c, rest) => Places
         /\ DisconnectRequested(rest) => Places
         /\ FailureDismissed(rest) => Places
<1>1. ASSUME Returns(<<Disconnect(active)>>, rest),
             active' = None, awaitingTeardown' = active
      PROVE  Places
  <2>1. InPlace' /\ Head(todo') = Disconnect(active)
    BY <1>1, FirstInPlace DEF Disconnect
  <2> QED BY <1>1, <2>1 DEF Places, Settled, Doing, Disconnect
<1>2. ASSUME NEW c \in Config, Returns(<<NewTunnel(c)>>, rest), active' = active
      PROVE  Places
  <2>1. InPlace' /\ Head(todo') = NewTunnel(c)
    BY <1>2, FirstInPlace DEF NewTunnel
  <2> QED BY <1>2, <2>1 DEF Places, Settled, Doing, NewTunnel
<1>3. ASSUME Returns(<<>>, rest), active' = active PROVE Places
  BY <1>3, CalmBatches, CalmBatch DEF Places
<1>4. ASSUME NEW c \in Config, ProfileSelected(c, rest) PROVE Places
  BY <1>1, <1>2, <1>3, <1>4 DEF ProfileSelected
<1>5. DisconnectRequested(rest) => Places
  BY <1>1, <1>3 DEF DisconnectRequested
<1>6. FailureDismissed(rest) => Places
  BY <1>3 DEF FailureDismissed
<1> QED BY <1>4, <1>5, <1>6

-----------------------------------------------------------------------------
(* Every step keeps the invariant *)

\* What the service knows of the sessions, as far as the invariant tells.
Known == <<real, dialled, told>>

\* A step that takes no session in hand and tells none to go.
LEMMA PlacesKeep ==
  ASSUME SInv, Places, told' \subseteq told, MarksAreOfBorn'
  PROVE  SInv'
BY DEF SInv, Places, Settled, NotTold, Newborn

\* The same, if the service does not notice.
LEMMA PlacesKeepStill ==
  ASSUME SInv, Places, UNCHANGED Known
  PROVE  SInv'
<1>1. MarksAreOfBorn'
  BY DEF SInv, MarksAreOfBorn, Known
<1> QED BY <1>1, PlacesKeep DEF Known

\* The batches of the inputs are calm.
LEMMA CalmInputs ==
  /\ <<Publish>> \in Seq(CalmStep)
  /\ Reconcile \o <<Publish>> \in Seq(CalmStep)
  /\ Reconcile \o <<DisconnectActive, Publish>> \in Seq(CalmStep)
  /\ \A c \in Config : Reconcile \o <<Select(c), Publish>> \in Seq(CalmStep)
  /\ \A x \in ConnectionState :
       Reconcile \o <<PublishIfNot(x)>> \in Seq(CalmStep)
<1>1. /\ Publish \in CalmStep
      /\ ReconcileTeardown \in CalmStep
      /\ ReconcileStatus \in CalmStep
      /\ DisconnectActive \in CalmStep
      /\ \A c \in Config : Select(c) \in CalmStep
      /\ \A x \in ConnectionState : PublishIfNot(x) \in CalmStep
  BY DEF CalmStep, QuietStep, Step, StartOps, AdoptOps, Publish,
         ReconcileTeardown, ReconcileStatus, DisconnectActive, Select,
         PublishIfNot
<1>2. Reconcile \in Seq(CalmStep)
  BY <1>1 DEF Reconcile
<1>3. \A x \in CalmStep : <<x>> \in Seq(CalmStep)
  OBVIOUS
<1>4. \A x, y \in CalmStep : <<x, y>> \in Seq(CalmStep)
  OBVIOUS
<1> QED BY <1>1, <1>2, <1>3, <1>4

\* A command of the panel.
LEMMA UiPlaces ==
  ASSUME IInv, SInv, Ui
  PROVE  Places /\ UNCHANGED Known
<1>1. UNCHANGED Known
  BY DEF Ui, UiSelectProfile, UiDisconnect, UiRefresh, UiDismissFailure,
     UiManageProfiles, UiSubmitPrompt, UiCancelPrompt, Receives, openvpn3Vars,
     serviceVars, Known
<1>2. ASSUME NEW steps \in Seq(CalmStep), Receives(steps) PROVE Places
  <2>1. Returns(steps, <<>>) /\ active' = active
    BY <1>2 DEF Receives, Returns, machineVars
  <2> QED BY <2>1, CalmBatches, CalmBatch DEF Places
<1>3. ASSUME NEW c \in Config, UiSelectProfile(c) PROVE Places
  BY <1>2, <1>3, CalmInputs DEF UiSelectProfile
<1>4. CASE UiDisconnect \/ UiRefresh \/ UiManageProfiles
  <2>1. Places
    BY <1>2, <1>4, CalmInputs DEF UiDisconnect, UiRefresh, UiManageProfiles
  <2> QED BY <1>1, <2>1
<1>5. CASE UiDismissFailure
  <2>1. Places
    BY <1>5, Parts, CalmInputs, ChoicesPlace DEF UiDismissFailure
  <2> QED BY <1>1, <2>1
<1>6. ASSUME NEW answers \in SUBSET Supported, UiSubmitPrompt(answers)
      PROVE  Places
  <2>1. CASE prompt = None
    BY <1>6, <2>1, CalmInputs, IgnoredPlaces DEF UiSubmitPrompt
  <2>2. CASE prompt # None
    <3>1. prompt.session \in Session /\ answers \in SUBSET Group
      BY <2>2, Parts, ObjectsAssumption DEF PanelOK, Prompt
    <3> QED BY <1>6, <2>2, <3>1, CalmInputs, HandlersPlace DEF UiSubmitPrompt
  <2> QED BY <2>1, <2>2
<1>7. CASE UiCancelPrompt
  <2>1. Places
    <3>1. CASE prompt = None
      BY <1>7, <3>1, CalmInputs, IgnoredPlaces DEF UiCancelPrompt
    <3>2. CASE prompt # None
      <4>1. prompt.session \in Session
        BY <3>2, Parts DEF PanelOK, Prompt
      <4> QED BY <1>7, <3>2, <4>1, CalmInputs, HandlersPlace DEF UiCancelPrompt
    <3> QED BY <3>1, <3>2
  <2> QED BY <1>1, <2>1
<1> QED BY <1>1, <1>3, <1>4, <1>5, <1>6, <1>7 DEF Ui

\* A signal, or a tick.
LEMMA InputPlaces ==
  ASSUME IInv, SInv, Signal \/ Settle
  PROVE  Places /\ UNCHANGED Known
<1>1. UNCHANGED Known
  BY DEF Signal, Settle, ReceiveStatus, ReceiveAttention, ReceiveRemoved,
     Receives, openvpn3Vars, serviceVars, Known
<1>2. ASSUME NEW s \in Session, ReceiveStatus(s) PROVE Places
  <2>1. /\ statusQ[s] \in Seq(StatusClass) /\ statusQ[s] # <<>>
        /\ StatusChanged(s, Head(statusQ[s]), <<Publish>>)
    BY <1>2, Parts DEF BusOK, Openvpn3TypeOK, ReceiveStatus
  <2>2. Head(statusQ[s]) \in StatusClass
    BY <2>1
  <2> QED BY <2>1, <2>2, CalmInputs, HandlersPlace
<1>3. ASSUME NEW s \in Session, ReceiveAttention(s) PROVE Places
  <2>1. {Head(attentionQ[s])} \cap Recognised \in SUBSET Group
    BY ObjectsAssumption
  <2> QED BY <1>3, <2>1, CalmInputs, HandlersPlace DEF ReceiveAttention
<1>4. ASSUME ReceiveRemoved PROVE Places
  <2>1. removedQ \in Seq(Session) /\ removedQ # <<>>
    BY <1>4, Parts DEF BusOK, Openvpn3TypeOK, ReceiveRemoved
  <2>2. Head(removedQ) \in Session
    BY <2>1
  <2> QED BY <1>4, <2>2, CalmInputs, HandlersPlace DEF ReceiveRemoved
<1>5. ASSUME Settle PROVE Places
  <2> DEFINE steps == Reconcile \o <<PublishIfNot(state)>>
  <2>1. steps \in Seq(CalmStep)
    BY CalmInputs, Parts DEF Before, MachineTypeOK
  <2>2. Returns(steps, <<>>) /\ active' = active
    BY <1>5, <2>1 DEF Settle, Receives, Returns, machineVars
  <2> HIDE DEF steps
  <2> QED BY <2>1, <2>2, CalmBatches, CalmBatch DEF Places
<1> QED BY <1>1, <1>2, <1>3, <1>4, <1>5 DEF Signal

\* What is left after a step is in place.
LEMMA DonePlaces ==
  ASSUME IInv, InPlace, todo # <<>>, Done, UNCHANGED machineVars
  PROVE  Places
<1>1. Rest \in Seq(QuietStep) /\ todo \in Seq(Step)
  BY RestIsQuiet, Parts
<1>2. /\ todo' = Rest
      /\ \A i \in 1..Len(Rest) : Rest[i] = todo[i + 1] /\ i + 1 \in 1..Len(todo)
  BY <1>1 DEF Rest, Done
<1>3. InPlace'
  <2> SUFFICES ASSUME NEW i \in 1..Len(Rest)
               PROVE  /\ Rest[i].op # "Connect"
                      /\ Rest[i].op = "Disconnect" =>
                           /\ i = 1
                           /\ active' = None
                           /\ Rest[i].session = awaitingTeardown'
                      /\ Rest[i].op \notin AdoptOps
    BY <1>2 DEF InPlace
  <2>1. i \in Nat /\ i + 1 # 1 /\ (i + 1 = 2 => i = 1)
    BY <1>1
  <2> QED BY <1>2, <2>1 DEF InPlace, machineVars
<1>4. Rest # <<>> => Head(Rest) = todo[2] /\ 2 \in 1..Len(todo) /\ Head(Rest) \in QuietStep
  BY <1>1, <1>2
<1>5. ~Doing("Adopt")' /\ ~Doing("AdoptAs")' /\ ~Doing("Created")'
  BY <1>2, <1>4 DEF InPlace, Doing, AdoptOps, QuietStep, StartOps
<1> QED BY <1>3, <1>5 DEF Places, Settled, machineVars

\* The steps of the worker that neither tell a session to go nor take one in
\* hand.
LEMMA PlainWorkKeeps ==
  ASSUME IInv, SInv,
         \/ SubscribeSession \/ WatchSessionManager
         \/ ExecEnableLogForward \/ ExecConnect \/ ExecOpenPrompt
         \/ ExecClosePrompt \/ ExecProvideInput \/ ExecNote \/ ExecPublish
         \/ ExecPublishIfNot
  PROVE  SInv'
<1>1. todo # <<>> /\ Done /\ UNCHANGED machineVars
  BY DEF SubscribeSession, WatchSessionManager, ExecEnableLogForward,
     ExecConnect, ExecOpenPrompt, ExecClosePrompt, ExecProvideInput, ExecNote,
     ExecPublish, ExecPublishIfNot, Doing
<1>2. Places
  BY <1>1, DonePlaces DEF SInv
<1>3. CASE ExecConnect
  <2>1. /\ told' = told /\ real' = real
        /\ \/ dialled' = dialled
           \/ /\ Exists(Head(todo).session)
              /\ dialled' = dialled \cup {Head(todo).session}
    BY <1>3 DEF ExecConnect, Dial, openvpn3Vars, serviceVars
  <2>2. MarksAreOfBorn'
    BY <2>1 DEF SInv, MarksAreOfBorn, Exists
  <2> QED BY <1>2, <2>1, <2>2, PlacesKeep
<1>4. CASE ~ExecConnect
  <2>1. UNCHANGED Known
    BY <1>4 DEF SubscribeSession, WatchSessionManager, ExecEnableLogForward,
       ExecOpenPrompt, ExecClosePrompt, ExecProvideInput, ExecNote,
       ExecPublish, ExecPublishIfNot, Subscribe, Watch, ForwardLog, Answer,
       openvpn3Vars, serviceVars, Known
  <2> QED BY <1>2, <2>1, PlacesKeepStill
<1> QED BY <1>3, <1>4

\* A session that is told to go is the one being torn down, and none is on
\* display.
LEMMA ExecDisconnectKeeps ==
  ASSUME IInv, SInv, ExecDisconnect
  PROVE  SInv'
<1> DEFINE s == Head(todo).session
<1>1. /\ todo # <<>> /\ Head(todo).op = "Disconnect"
      /\ Done /\ UNCHANGED machineVars /\ real' = real /\ dialled' = dialled
      /\ told' = told \/ (Exists(s) /\ told' = told \cup {s})
  BY DEF ExecDisconnect, Doing, Stop, openvpn3Vars, serviceVars
<1>2. active = None
  <2>1. 1 \in 1..Len(todo) /\ todo[1] = Head(todo)
    BY <1>1, Parts
  <2> QED BY <1>1, <2>1 DEF SInv, InPlace
<1>3. Places
  BY <1>1, DonePlaces DEF SInv
<1>4. MarksAreOfBorn'
  BY <1>1 DEF SInv, MarksAreOfBorn, Exists
<1> QED BY <1>2, <1>3, <1>4
        DEF SInv, Places, Settled, NotTold, Newborn

\* The session adopted goes on display, and is subscribed to next.
LEMMA AdoptStatusPlaces ==
  ASSUME IInv, SInv, AdoptStatusRead
  PROVE  Settled /\ ~Doing("Created")'
<1> DEFINE s == Head(todo).session
           rest == <<SubscribeTo(s)>> \o Rest
<1>1. todo # <<>> /\ Head(todo).op = "AdoptAs"
  BY DEF AdoptStatusRead, Doing
<1>2. s \in Session /\ Head(todo).status \in StatusClass
  BY <1>1, HeadTypes, Parts
<1>3. rest \in Seq(CalmStep)
  <2>1. Rest \in Seq(CalmStep)
    BY <1>1, RestIsCalm DEF SInv, Notices
  <2>2. <<SubscribeTo(s)>> \in Seq(CalmStep)
    BY <1>2, CalmBatches
  <2> QED BY <2>1, <2>2
<1>4. ExternalSessionSeen(s, Head(todo).status, rest)
  BY DEF AdoptStatusRead
<1> HIDE DEF rest
<1> QED BY <1>2, <1>3, <1>4, IgnoredPlaces, ApplyStatusPlaces
        DEF ExternalSessionSeen, Places

\* Nothing has been told when the worker adopts.
LEMMA AdoptKeeps ==
  ASSUME IInv, SInv, AdoptExisting \/ AdoptStatusRead
  PROVE  SInv'
<1>1. todo # <<>> /\ Head(todo).op \in AdoptOps /\ UNCHANGED openvpn3Vars
  BY DEF AdoptExisting, AdoptStatusRead, Doing, AdoptOps
<1>2. told' = {} /\ MarksAreOfBorn'
  BY <1>1 DEF SInv, NotTold, Doing, AdoptOps, MarksAreOfBorn, openvpn3Vars,
     serviceVars
<1>3. Rest \in Seq(CalmStep)
  BY <1>1, RestIsCalm DEF SInv, Notices, AdoptOps
<1>4. InPlace'
  <2>1. ASSUME NEW s \in Session, Returns(<<AdoptAs(s, real[s])>>, Rest)
        PROVE  InPlace'
    BY <1>3, <2>1, FirstInPlace DEF AdoptAs
  <2>2. CASE Done /\ UNCHANGED machineVars
    BY <1>1, <2>2, DonePlaces DEF SInv, Places, Settled
  <2>3. CASE AdoptStatusRead
    BY <2>3, AdoptStatusPlaces DEF Settled
  <2> QED BY <2>1, <2>2, <2>3 DEF AdoptExisting
<1> QED BY <1>2, <1>4 DEF SInv, NotTold

\* The session of a tunnel that starts is new, so nobody has told it.
LEMMA ExecNewTunnelKeeps ==
  ASSUME IInv, SInv, ExecNewTunnel
  PROVE  SInv'
<1>1. todo # <<>> /\ Head(todo).op = "NewTunnel" /\ UNCHANGED machineVars
  BY DEF ExecNewTunnel, TunnelStarts, TunnelRefused, Doing
<1>2. Rest \in Seq(CalmStep)
  BY <1>1, RestIsCalm DEF SInv, Notices
<1>3. CASE UNCHANGED openvpn3Vars /\ Done
  <2>1. Places
    BY <1>1, <1>3, DonePlaces DEF SInv
  <2> QED BY <1>3, <2>1, PlacesKeepStill DEF openvpn3Vars, serviceVars, Known
<1>4. ASSUME NEW s \in Session, NEW requests \in SUBSET Group,
             StartTunnel(s, requests), Returns(<<Created(s)>>, Rest)
      PROVE  SInv'
  <2>1. InPlace' /\ Head(todo') = Created(s) /\ todo' # <<>>
    BY <1>2, <1>4, FirstInPlace DEF Created
  <2>2. /\ real[s] = "Unborn" /\ real' = [real EXCEPT ![s] = NoChange]
        /\ dialled' = dialled /\ told' = told
    BY <1>4 DEF StartTunnel
  <2>3. real \in [Session -> StatusClass \cup {"Unborn", "Gone"}]
        /\ dialled \subseteq Session /\ told \subseteq Session
    BY Parts DEF BusOK, Openvpn3TypeOK
  <2>4. MarksAreOfBorn' /\ s \notin told
    BY <2>2, <2>3 DEF SInv, MarksAreOfBorn, NoChange
  <2>5. Newborn' = {s} /\ ~Doing("Adopt")' /\ ~Doing("AdoptAs")'
    BY <2>1 DEF Newborn, Doing, Created
  <2> QED BY <1>1, <2>1, <2>2, <2>4, <2>5 DEF SInv, NotTold, machineVars
<1> QED BY <1>3, <1>4 DEF ExecNewTunnel, TunnelStarts, TunnelRefused

\* The newborn goes on display untold.
LEMMA TunnelCreatedKeeps ==
  ASSUME IInv, SInv, TunnelCreated
  PROVE  SInv'
<1> DEFINE s == Head(todo).session
<1>1. /\ Doing("Created") /\ todo # <<>> /\ Head(todo).op = "Created"
      /\ SessionCreated(s, Rest) /\ UNCHANGED Known
  BY DEF TunnelCreated, Doing, Subscribe, serviceVars, Known
<1>2. s \in Session
  BY <1>1, HeadTypes, Parts
<1>3. Rest \in Seq(CalmStep)
  BY <1>1, RestIsCalm DEF SInv, Notices
<1>4. s \notin told
  BY <1>1 DEF SInv, NotTold, Newborn
<1>5. Settled /\ ~Doing("Created")' /\ active' = s
  BY <1>1, <1>2, <1>3, CalmBatches, CalmBatch DEF SessionCreated
<1> QED BY <1>1, <1>4, <1>5
        DEF SInv, Settled, NotTold, Newborn, MarksAreOfBorn, Known

\* The steps that hand an answer of the service to the Machine, and those that
\* carry out a choice.
LEMMA EventWorkPlaces ==
  ASSUME IInv, SInv,
         \/ ExecCheckReady \/ ExecAskQueue \/ ExecReconcileTeardown
         \/ ExecReconcileStatus \/ HandleStatusRead \/ ExecSelect
         \/ ExecDisconnectActive
  PROVE  Places /\ UNCHANGED Known
<1>1. /\ todo # <<>>
      /\ Head(todo).op \in {"CheckReady", "AskQueue", "ReconcileTeardown",
                            "ReconcileStatus", "StatusRead", "Select",
                            "DisconnectActive"}
      /\ UNCHANGED Known
  BY DEF ExecCheckReady, ExecAskQueue, ExecReconcileTeardown,
     ExecReconcileStatus, HandleStatusRead, ExecSelect, ExecDisconnectActive,
     Doing, openvpn3Vars, serviceVars, Known
<1>2. Rest \in Seq(CalmStep)
  BY <1>1, RestIsCalm DEF SInv, Notices
<1>3. Head(todo).op \in {"CheckReady", "AskQueue", "StatusRead"} =>
        Head(todo).session \in Session
  BY <1>1, HeadTypes, Parts
<1>4. CASE ExecCheckReady
  <2>1. Head(todo).session \in Session
    BY <1>3, <1>4 DEF ExecCheckReady, Doing
  <2>2. Returns(<<AskQueue(Head(todo).session)>>, Rest) /\ UNCHANGED machineVars
          => Places
    BY <1>2, <2>1, CalmBatches, CalmBatch DEF Places, machineVars
  <2>3. Places
    BY <1>2, <1>4, <2>1, <2>2, HandlersPlace, IgnoredPlaces DEF ExecCheckReady
  <2> QED BY <1>1, <2>3
<1>5. CASE ExecAskQueue
  <2>1. Head(todo).session \in Session
    BY <1>3, <1>5 DEF ExecAskQueue, Doing
  <2>2. asks[Head(todo).session] \cap Recognised \in SUBSET Group
    BY ObjectsAssumption
  <2>3. Places
    BY <1>2, <1>5, <2>1, <2>2, HandlersPlace, IgnoredPlaces DEF ExecAskQueue
  <2> QED BY <1>1, <2>3
<1>6. CASE ExecReconcileTeardown
  <2>1. awaitingTeardown \in Session \cup {None}
    BY Parts DEF Before, MachineTypeOK
  <2>2. Places
    BY <1>2, <1>6, <2>1, HandlersPlace, IgnoredPlaces DEF ExecReconcileTeardown
  <2> QED BY <1>1, <2>2
<1>7. CASE ExecReconcileStatus
  <2>1. CASE Done
    <3>1. Places
      BY <1>1, <1>7, <2>1, DonePlaces DEF ExecReconcileStatus, SInv
    <3> QED BY <1>1, <3>1
  <2>2. CASE Returns(<<StatusRead(active, real[active])>>, Rest)
    <3>1. InPlace' /\ Head(todo') = StatusRead(active, real[active])
      BY <1>2, <2>2, FirstInPlace DEF StatusRead
    <3>2. Places
      BY <1>7, <3>1
         DEF Places, Settled, Doing, StatusRead, ExecReconcileStatus, machineVars
    <3> QED BY <1>1, <3>2
  <2> QED BY <1>7, <2>1, <2>2 DEF ExecReconcileStatus
<1>8. CASE HandleStatusRead
  <2>1. Head(todo).session \in Session /\ Head(todo).status \in StatusClass
    BY <1>1, <1>8, HeadTypes, Parts DEF HandleStatusRead, Doing
  <2>2. Places
    BY <1>2, <1>8, <2>1, HandlersPlace DEF HandleStatusRead
  <2> QED BY <1>1, <2>2
<1>9. CASE ExecSelect
  <2>1. Head(todo).config \in Config
    BY <1>1, <1>9, HeadTypes, Parts DEF ExecSelect, Doing
  <2>2. Places
    BY <1>2, <1>9, <2>1, Parts, ChoicesPlace DEF ExecSelect
  <2> QED BY <1>1, <2>2
<1>10. CASE ExecDisconnectActive
  <2>1. Places
    BY <1>2, <1>10, Parts, ChoicesPlace DEF ExecDisconnectActive
  <2> QED BY <1>1, <2>1
<1> QED BY <1>4, <1>5, <1>6, <1>7, <1>8, <1>9, <1>10

\* The service tells nobody, and what it starts is new.
LEMMA ServiceKeeps ==
  ASSUME IInv, SInv, Service
  PROVE  SInv'
<1>1. UNCHANGED <<machineVars, todo>>
  BY DEF Service
<1>2. told' \subseteq told /\ MarksAreOfBorn'
  <2>1. PICK s \in Session :
          \/ \E x \in Reports : ReportStatus(s, x)
          \/ \E g \in Group : RequireAttention(s, g)
          \/ RemoveSession(s)
          \/ StartFromTerminal(s)
    BY DEF Service, Openvpn3Next
  <2>2. /\ real \in [Session -> StatusClass \cup {"Unborn", "Gone"}]
        /\ dialled \subseteq Session /\ told \subseteq Session
    BY Parts DEF BusOK, Openvpn3TypeOK
  <2>3. ASSUME NEW x \in Reports, ReportStatus(s, x)
        PROVE  told' \subseteq told /\ MarksAreOfBorn'
    <3>1. x # "Unborn"
      BY Openvpn3Assumption DEF StatusClass, ConnectionState, NoChange
    <3> QED BY <2>2, <2>3, <3>1 DEF ReportStatus, SInv, MarksAreOfBorn
  <2>4. ASSUME NEW g \in Group, RequireAttention(s, g)
        PROVE  told' \subseteq told /\ MarksAreOfBorn'
    BY <2>4 DEF RequireAttention, SInv, MarksAreOfBorn
  <2>5. CASE RemoveSession(s)
    BY <2>2, <2>5 DEF RemoveSession, SInv, MarksAreOfBorn
  <2>6. CASE StartFromTerminal(s)
    BY <2>2, <2>6 DEF StartFromTerminal, SInv, MarksAreOfBorn
  <2> QED BY <2>1, <2>3, <2>4, <2>5, <2>6
<1> QED BY <1>1, <1>2 DEF SInv, InPlace, NotTold, Newborn, Doing, machineVars

\* Every step preserves the invariant.
LEMMA SInvNext == IInv /\ SInv /\ [Next]_vars => SInv'
<1> SUFFICES ASSUME IInv, SInv, [Next]_vars PROVE SInv'
  OBVIOUS
<1>1. CASE Work
  BY <1>1, PlainWorkKeeps, ExecDisconnectKeeps, AdoptKeeps, ExecNewTunnelKeeps,
     TunnelCreatedKeeps, EventWorkPlaces, PlacesKeepStill DEF Work, Call
<1>2. CASE UNCHANGED vars
  BY <1>2 DEF vars, machineVars, openvpn3Vars, serviceVars, SInv, InPlace,
     NotTold, Newborn, Doing, MarksAreOfBorn
<1> QED BY <1>1, <1>2, UiPlaces, InputPlaces, ServiceKeeps, PlacesKeepStill DEF Next

\* It holds when the worker starts.
LEMMA SInvInit == Init => SInv
<1> SUFFICES ASSUME Init PROVE SInv
  OBVIOUS
<1>1. todo = <<Adopt, WatchManager, Publish>> /\ active = None /\ told = {}
  BY DEF Init, MachineInit, Openvpn3Init
<1>2. InPlace
  BY <1>1 DEF InPlace, AdoptOps, Adopt, WatchManager, Publish
<1>3. NotTold
  BY <1>1 DEF NotTold
<1>4. MarksAreOfBorn
  BY DEF Init, Openvpn3Init, MarksAreOfBorn
<1> QED BY <1>2, <1>3, <1>4 DEF SInv

-----------------------------------------------------------------------------
(* The refinement *)

\* A step that the user of the tunnels does not see.
LEMMA Unseen ==
  ASSUME UNCHANGED Known, UNCHANGED intent
  PROVE  UNCHANGED <<intent, LiveOwn, dialled \cap LiveOwn, told \cap LiveOwn>>
BY DEF Known, LiveOwn, Running, Exists

\* The applet dials the session on display, which nobody has told to go.
LEMMA ConnectRefines ==
  ASSUME IInv, SInv, ExecConnect
  PROVE  [Tunnels!Next]_<<intent, LiveOwn, dialled \cap LiveOwn, told \cap LiveOwn>>
<1> DEFINE s == Head(todo).session
<1>1. /\ todo # <<>> /\ Head(todo).op = "Connect"
      /\ real' = real /\ told' = told /\ intent' = intent
      /\ dialled' = dialled \/ dialled' = dialled \cup {s}
  BY DEF ExecConnect, Doing, Dial, openvpn3Vars, serviceVars
<1>2. s = active /\ s \in Session
  <2>1. 1 \in 1..Len(todo) /\ todo[1] = Head(todo)
    BY <1>1, Parts
  <2> QED BY <1>1, <2>1, HeadTypes, Parts DEF SInv, InPlace
<1>3. s \notin told
  BY <1>2, ObjectsAssumption DEF SInv, NotTold
<1>4. LiveOwn' = LiveOwn
  BY <1>1 DEF LiveOwn, Running, Exists
<1>5. CASE dialled' = dialled \cup {s} /\ s \in LiveOwn
  <2>1. Tunnels!Dial(s)
    BY <1>1, <1>3, <1>4, <1>5 DEF Tunnels!Dial
  <2>2. s \in Own
    BY <1>5 DEF LiveOwn
  <2> QED BY <2>1, <2>2 DEF Tunnels!Next
<1>6. CASE dialled' = dialled \/ s \notin LiveOwn
  BY <1>1, <1>4, <1>6
<1> QED BY <1>1, <1>5, <1>6

\* It tells a session to go.
LEMMA DisconnectRefines ==
  ASSUME ExecDisconnect
  PROVE  [Tunnels!Next]_<<intent, LiveOwn, dialled \cap LiveOwn, told \cap LiveOwn>>
<1> DEFINE s == Head(todo).session
<1>1. /\ real' = real /\ dialled' = dialled /\ intent' = intent
      /\ told' = told \/ told' = told \cup {s}
  BY DEF ExecDisconnect, Stop, openvpn3Vars, serviceVars
<1>2. LiveOwn' = LiveOwn
  BY <1>1 DEF LiveOwn, Running, Exists
<1>3. CASE told' = told \cup {s} /\ s \in LiveOwn
  <2>1. Tunnels!Tell(s)
    BY <1>1, <1>2, <1>3 DEF Tunnels!Tell
  <2>2. s \in Own
    BY <1>3 DEF LiveOwn
  <2> QED BY <2>1, <2>2 DEF Tunnels!Next
<1>4. CASE told' = told \/ s \notin LiveOwn
  BY <1>1, <1>2, <1>4
<1> QED BY <1>1, <1>3, <1>4

\* It starts a tunnel only while a profile is wanted and none of its sessions
\* lives.
LEMMA NewTunnelRefines ==
  ASSUME IInv, NoOrphan, SInv, Wanted, ExecNewTunnel
  PROVE  [Tunnels!Next]_<<intent, LiveOwn, dialled \cap LiveOwn, told \cap LiveOwn>>
<1>1. /\ todo # <<>> /\ Doing("NewTunnel") /\ Head(todo).op = "NewTunnel"
      /\ intent' = intent
  BY DEF ExecNewTunnel, TunnelStarts, TunnelRefused, Doing
<1>2. CASE UNCHANGED openvpn3Vars
  BY <1>1, <1>2, Unseen DEF openvpn3Vars, serviceVars, Known
<1>3. ASSUME NEW s \in Session, NEW requests \in SUBSET Group,
             StartTunnel(s, requests)
      PROVE  Tunnels!Next
  <2>1. intent # None
    <3>1. Head(todo).config \in Config
      BY <1>1, HeadTypes, Parts
    <3> QED BY <1>1, <3>1, ObjectsAssumption DEF Wanted, TunnelIsWanted
  <2>2. LiveOwn = {}
    <3>1. 1 \in 1..Len(todo) /\ Head(todo) = todo[1]
      BY <1>1, Parts
    <3>2. active = None /\ awaitingTeardown = None /\ Newborn = {}
      BY <1>1, <3>1, Parts, NoNewborn DEF StartsAlone, StartOps
    <3> QED BY <3>2, Parts, ObjectsAssumption DEF NoOrphan, LiveOwn
  <2>3. /\ s \in Own /\ real[s] = "Unborn"
        /\ real' = [real EXCEPT ![s] = NoChange]
        /\ dialled' = dialled /\ told' = told
    BY <1>3 DEF StartTunnel
  <2>4. real \in [Session -> StatusClass \cup {"Unborn", "Gone"}]
    BY Parts DEF BusOK, Openvpn3TypeOK
  <2>5. LiveOwn' = {s}
    BY <2>2, <2>3, <2>4, ObjectsAssumption DEF LiveOwn, Running, Exists, NoChange
  <2>6. s \notin dialled /\ s \notin told
    BY <2>3 DEF SInv, MarksAreOfBorn
  <2>7. Tunnels!Start(s)
    BY <1>1, <2>1, <2>2, <2>3, <2>5, <2>6 DEF Tunnels!Start
  <2> QED BY <2>3, <2>7 DEF Tunnels!Next
<1> QED BY <1>2, <1>3 DEF ExecNewTunnel, TunnelStarts, TunnelRefused

\* The user's choice is carried out.
LEMMA ChoiceRefines ==
  ASSUME IInv, ExecSelect \/ ExecDisconnectActive
  PROVE  Tunnels!Next
<1>1. intent' \in Config \cup {None} /\ UNCHANGED Known
  <2>1. ExecSelect => Head(todo).config \in Config
    BY HeadTypes, Parts DEF ExecSelect, Doing
  <2> QED BY <2>1
          DEF ExecSelect, ExecDisconnectActive, openvpn3Vars, serviceVars, Known
<1>2. LiveOwn' = LiveOwn /\ dialled' = dialled /\ told' = told
  BY <1>1 DEF Known, LiveOwn, Running, Exists
<1>3. Tunnels!Choose(intent')
  BY <1>2 DEF Tunnels!Choose
<1> QED BY <1>1, <1>3 DEF Tunnels!Next

\* A session ends, or changes in a way the user does not see.
LEMMA ServiceRefines ==
  ASSUME IInv, Service
  PROVE  [Tunnels!Next]_<<intent, LiveOwn, dialled \cap LiveOwn, told \cap LiveOwn>>
<1>1. PICK s \in Session :
        \/ \E x \in Reports : ReportStatus(s, x)
        \/ \E g \in Group : RequireAttention(s, g)
        \/ RemoveSession(s)
        \/ StartFromTerminal(s)
  BY DEF Service, Openvpn3Next
<1>2. real \in [Session -> StatusClass \cup {"Unborn", "Gone"}]
      /\ intent' = intent /\ Own \subseteq Session
  BY Parts, ObjectsAssumption DEF BusOK, Openvpn3TypeOK, Service
<1>3. ASSUME real' = [real EXCEPT ![s] = "Gone"] \/ real' = [real EXCEPT ![s] = "Disconnected"],
             s \in LiveOwn, dialled' \in {dialled, dialled \ {s}},
             told' \in {told, told \ {s}}
      PROVE  Tunnels!Next
  <2>1. LiveOwn' = LiveOwn \ {s}
    BY <1>2, <1>3 DEF LiveOwn, Running, Exists
  <2>2. /\ dialled' \cap LiveOwn' = (dialled \cap LiveOwn) \ {s}
        /\ told' \cap LiveOwn' = (told \cap LiveOwn) \ {s}
    BY <1>3, <2>1
  <2>3. Tunnels!End(s)
    BY <1>2, <1>3, <2>1, <2>2 DEF Tunnels!End
  <2> QED BY <1>3, <2>3 DEF Tunnels!Next, LiveOwn
<1>4. ASSUME LiveOwn' = LiveOwn, s \notin LiveOwn \/ UNCHANGED <<dialled, told>>,
             dialled' \in {dialled, dialled \ {s}, dialled \cup {s}},
             told' \in {told, told \ {s}}
      PROVE  UNCHANGED <<intent, LiveOwn, dialled \cap LiveOwn, told \cap LiveOwn>>
  BY <1>2, <1>4
<1>5. ASSUME NEW x \in Reports, ReportStatus(s, x)
      PROVE  [Tunnels!Next]_<<intent, LiveOwn, dialled \cap LiveOwn, told \cap LiveOwn>>
  <2>1. /\ x \notin {"Unborn", "Gone"} /\ Running(s)
        /\ real' = [real EXCEPT ![s] = x] /\ dialled' = dialled /\ told' = told
    BY <1>5, Openvpn3Assumption
       DEF ReportStatus, StatusClass, ConnectionState, NoChange
  <2>2. CASE x = "Disconnected" /\ s \in LiveOwn
    BY <1>3, <2>1, <2>2
  <2>3. CASE x # "Disconnected" \/ s \notin LiveOwn
    <3>1. LiveOwn' = LiveOwn
      BY <1>2, <2>1, <2>3 DEF LiveOwn, Running, Exists
    <3> QED BY <1>4, <2>1, <3>1
  <2> QED BY <2>2, <2>3
<1>6. ASSUME NEW g \in Group, RequireAttention(s, g)
      PROVE  UNCHANGED <<intent, LiveOwn, dialled \cap LiveOwn, told \cap LiveOwn>>
  BY <1>2, <1>6, Unseen DEF RequireAttention, Known
<1>7. CASE RemoveSession(s)
  <2>1. /\ real' = [real EXCEPT ![s] = "Gone"]
        /\ dialled' = dialled \ {s} /\ told' = told \ {s}
    BY <1>7 DEF RemoveSession
  <2>2. s \notin LiveOwn => LiveOwn' = LiveOwn
    BY <1>2, <2>1 DEF LiveOwn, Running, Exists
  <2> QED BY <1>3, <1>4, <2>1, <2>2
<1>8. CASE StartFromTerminal(s)
  <2>1. /\ s \notin Own /\ real' = [real EXCEPT ![s] = "Connecting"]
        /\ dialled' = dialled \cup {s} /\ told' = told
    BY <1>8 DEF StartFromTerminal
  <2>2. LiveOwn' = LiveOwn /\ s \notin LiveOwn
    BY <1>2, <2>1 DEF LiveOwn, Running, Exists
  <2> QED BY <1>4, <2>1, <2>2
<1> QED BY <1>1, <1>5, <1>6, <1>7, <1>8

\* Every step is a step of SingleSession, or leaves it alone.
LEMMA StepRefines ==
  IInv /\ NoOrphan /\ SInv /\ Wanted /\ [Next]_vars
    => [Tunnels!Next]_<<intent, LiveOwn, dialled \cap LiveOwn, told \cap LiveOwn>>
<1> SUFFICES ASSUME IInv, NoOrphan, SInv, Wanted, [Next]_vars
             PROVE  [Tunnels!Next]_<<intent, LiveOwn, dialled \cap LiveOwn, told \cap LiveOwn>>
  OBVIOUS
<1>1. CASE Ui \/ Signal \/ Settle \/ UNCHANGED vars
  <2>1. UNCHANGED Known /\ UNCHANGED intent
    BY <1>1
       DEF Ui, UiSelectProfile, UiDisconnect, UiRefresh, UiDismissFailure,
           UiManageProfiles, UiSubmitPrompt, UiCancelPrompt, Receives, Signal,
           ReceiveStatus, ReceiveAttention, ReceiveRemoved, Settle,
           vars, openvpn3Vars, serviceVars, Known
  <2> QED BY <2>1, Unseen
<1>2. CASE \/ AdoptExisting \/ AdoptStatusRead \/ SubscribeSession
           \/ WatchSessionManager \/ TunnelCreated \/ ExecEnableLogForward
           \/ ExecOpenPrompt \/ ExecClosePrompt \/ ExecProvideInput \/ ExecNote
           \/ ExecCheckReady \/ ExecAskQueue \/ ExecReconcileTeardown
           \/ ExecReconcileStatus \/ HandleStatusRead \/ ExecPublish
           \/ ExecPublishIfNot
  <2>1. UNCHANGED Known /\ UNCHANGED intent
    BY <1>2
       DEF AdoptExisting, AdoptStatusRead, SubscribeSession,
           WatchSessionManager, TunnelCreated, ExecEnableLogForward,
           ExecOpenPrompt, ExecClosePrompt, ExecProvideInput, ExecNote,
           ExecCheckReady, ExecAskQueue, ExecReconcileTeardown,
           ExecReconcileStatus, HandleStatusRead, ExecPublish,
           ExecPublishIfNot, Subscribe, Watch, ForwardLog, Answer,
           openvpn3Vars, serviceVars, Known
  <2> QED BY <2>1, Unseen
<1> QED BY <1>1, <1>2, ConnectRefines, DisconnectRefines, NewTunnelRefines,
           ChoiceRefines, ServiceRefines DEF Next, Work, Call

\* At first nothing is wanted and none of the applet's sessions is there.
LEMMA InitRefines == Init => Tunnels!Init
<1> SUFFICES ASSUME Init PROVE Tunnels!Init
  OBVIOUS
<1>1. LiveOwn = {}
  BY DEF Init, Openvpn3Init, LiveOwn, Running, Exists
<1> QED BY <1>1 DEF Init, Tunnels!Init

\* R5, R6 and AE1: behind its signals, ticks and teardowns the worker starts one
\* session at a time, only while the user wants a profile, and dials none that
\* it has told to go, whatever calls fail and whatever signals are lost.
THEOREM OneSessionKept == Spec => ImplementsSingleSession
<1>1. Spec => []SInv
  BY SInvInit, SInvNext, Invariance, PTL DEF Spec
<1>2. Spec => []Wanted
  BY WantedInit, WantedNext, Invariance, PTL DEF Spec
<1>3. Spec => [][Tunnels!Next]_<<intent, LiveOwn, dialled \cap LiveOwn, told \cap LiveOwn>>
  BY <1>1, <1>2, StepRefines, Invariance, NothingIsOrphaned, PTL DEF Spec
<1> QED BY <1>3, InitRefines, PTL DEF Spec, ImplementsSingleSession, Tunnels!Spec

-----------------------------------------------------------------------------
(* Who is waited for has been told *)

\* The session that is about to be adopted.
Adopting == IF Doing("AdoptAs") THEN {Head(todo).session} ELSE {}

\* A session is about to be told to go: by InPlace, the one being torn down.
Telling == \E i \in 1..Len(todo) : todo[i].op = "Disconnect"

\* The sessions the worker has to do with have been there, so that none of them
\* is one that a terminal is yet to start.
HeldAreBorn == \A s \in Held \cup Adopting : real[s] # "Unborn"

\* TeardownIsTold, while the worker is not idle.
ToldOrTelling ==
  "Disconnect" \notin FaultyCalls /\ awaitingTeardown # None =>
    awaitingTeardown \in told \/ Telling \/ ~Exists(awaitingTeardown)

TInv == HeldAreBorn /\ ToldOrTelling

\* What a handler does with the sessions in hand: it takes no other, and one it
\* begins to tear down is told.
Tells ==
  /\ active' \in {active, None}
  /\ awaitingTeardown' \in {awaitingTeardown, active, None}
  /\ awaitingTeardown' \in {awaitingTeardown, None} \/ Telling'

\* A handler that begins a teardown says so, first or after a notice.
LEMMA TellingSoon ==
  ASSUME NEW s, NEW n, NEW rest \in Seq(CalmStep),
         \/ Returns(<<Disconnect(s)>>, rest)
         \/ Returns(<<n, Disconnect(s)>>, rest)
  PROVE  Telling'
<1>1. CASE Returns(<<Disconnect(s)>>, rest)
  <2>1. 1 \in 1..Len(todo') /\ todo'[1] = Disconnect(s)
    BY <1>1 DEF Returns
  <2> QED BY <2>1 DEF Telling, Disconnect
<1>2. CASE Returns(<<n, Disconnect(s)>>, rest)
  <2>1. 2 \in 1..Len(todo') /\ todo'[2] = Disconnect(s)
    BY <1>2 DEF Returns
  <2> QED BY <2>1 DEF Telling, Disconnect
<1> QED BY <1>1, <1>2

\* Every handler is of that kind but the two that take a session in hand.
LEMMA HandlersTell ==
  ASSUME NEW s, NEW rest \in Seq(CalmStep)
  PROVE  /\ SessionReady(s, rest) => Tells
         /\ SessionRemoved(s, rest) => Tells
         /\ PromptCancelled(s, rest) => Tells
         /\ \A x : StatusChanged(s, x, rest) => Tells
         /\ \A gs : CredentialsRequired(s, gs, rest) => Tells
         /\ \A gs : PromptSubmitted(s, gs, rest) => Tells
         /\ \A c : ProfileSelected(c, rest) => Tells
         /\ DisconnectRequested(rest) => Tells
         /\ FailureDismissed(rest) => Tells
         /\ Ignored(rest) => Tells
<1> USE DEF Tells
<1>1. Ignored(rest) => Tells
  BY DEF Ignored, machineVars
<1>2. FinishTeardown(rest) => Tells
  BY DEF FinishTeardown
<1>3. SessionReady(s, rest) => Tells
  BY <1>1 DEF SessionReady
<1>4. SessionRemoved(s, rest) => Tells
  BY <1>1, <1>2 DEF SessionRemoved
<1>5. PromptCancelled(s, rest) => Tells
  BY <1>1, TellingSoon DEF PromptCancelled
<1>6. \A x : StatusChanged(s, x, rest) => Tells
  BY <1>1, <1>2 DEF StatusChanged
<1>7. \A gs : CredentialsRequired(s, gs, rest) => Tells
  BY <1>1, TellingSoon DEF CredentialsRequired
<1>8. \A gs : PromptSubmitted(s, gs, rest) => Tells
  BY <1>1 DEF PromptSubmitted
<1>9. \A c : ProfileSelected(c, rest) => Tells
  BY TellingSoon DEF ProfileSelected
<1>10. DisconnectRequested(rest) => Tells
  BY TellingSoon DEF DisconnectRequested
<1>11. FailureDismissed(rest) => Tells
  BY DEF FailureDismissed
<1> QED BY <1>1, <1>3, <1>4, <1>5, <1>6, <1>7, <1>8, <1>9, <1>10, <1>11

\* Nobody is about to be told but when a Disconnect, or a notice before one, is
\* the next step.
LEMMA OthersTellNone ==
  ASSUME SInv, todo = <<>> \/ Head(todo).op \notin Notices \cup {"Disconnect"},
         todo \in Seq(Step)
  PROVE  ~Telling
<1>1. todo # <<>> => todo[1] = Head(todo)
  OBVIOUS
<1>2. todo = <<>> => 1..Len(todo) = {}
  OBVIOUS
<1> QED BY <1>1, <1>2 DEF SInv, InPlace, Telling

\* A handler preserves the invariant: who is told already stays told, and a
\* session that begins to be torn down is about to be.
LEMMA TellsKeeps ==
  ASSUME TInv, Tells, ~Telling, UNCHANGED <<real, told>>,
         ~Doing("Created")', ~Doing("AdoptAs")'
  PROVE  TInv'
<1>1. HeldAreBorn'
  <2>1. Hands' \subseteq Hands /\ Newborn' = {} /\ Adopting' = {}
    BY DEF Tells, Hands, Newborn, Adopting
  <2> QED BY <2>1 DEF TInv, HeldAreBorn, Held
<1>2. ToldOrTelling'
  BY DEF TInv, ToldOrTelling, Tells, Exists
<1> QED BY <1>1, <1>2 DEF TInv

\* Taking an input is of that kind.
LEMMA InputTells ==
  ASSUME IInv, SInv, Ui \/ Signal \/ Settle
  PROVE  Tells
<1>1. /\ <<>> \in Seq(CalmStep) /\ <<Publish>> \in Seq(CalmStep)
      /\ Ignored(<<Publish>>) => Tells
  BY CalmBatches, CalmInputs DEF Ignored, machineVars, Tells
<1>2. ASSUME NEW steps, Receives(steps) PROVE Tells
  BY <1>2 DEF Receives, machineVars, Tells
<1>3. CASE Ui
  <2>1. UiDismissFailure => Tells
    BY <1>1, HandlersTell DEF UiDismissFailure
  <2>2. \A answers : UiSubmitPrompt(answers) => Tells
    BY <1>1, HandlersTell DEF UiSubmitPrompt
  <2>3. UiCancelPrompt => Tells
    BY <1>1, HandlersTell DEF UiCancelPrompt
  <2>4. \A c : UiSelectProfile(c) => Tells
    BY <1>2 DEF UiSelectProfile
  <2>5. UiDisconnect \/ UiRefresh \/ UiManageProfiles => Tells
    BY <1>2 DEF UiDisconnect, UiRefresh, UiManageProfiles
  <2> QED BY <1>3, <2>1, <2>2, <2>3, <2>4, <2>5 DEF Ui
<1>4. CASE Signal
  BY <1>1, <1>4, HandlersTell
     DEF Signal, ReceiveStatus, ReceiveAttention, ReceiveRemoved
<1>5. CASE Settle
  BY <1>2, <1>5 DEF Settle
<1> QED BY <1>3, <1>4, <1>5

\* So are the steps that hand an answer of the service to the Machine, and those
\* that carry out a choice.
LEMMA EventWorkTells ==
  ASSUME NEW rest \in Seq(CalmStep), rest = Rest,
         \/ ExecCheckReady \/ ExecAskQueue \/ ExecReconcileTeardown
         \/ ExecReconcileStatus \/ HandleStatusRead \/ ExecSelect
         \/ ExecDisconnectActive
  PROVE  Tells
<1>1. UNCHANGED machineVars => Tells
  BY DEF machineVars, Tells
<1>2. ExecCheckReady => Tells
  BY <1>1, HandlersTell DEF ExecCheckReady
<1>3. ExecAskQueue => Tells
  BY HandlersTell DEF ExecAskQueue
<1>4. ExecReconcileTeardown => Tells
  BY HandlersTell DEF ExecReconcileTeardown
<1>5. ExecReconcileStatus => Tells
  BY <1>1 DEF ExecReconcileStatus
<1>6. HandleStatusRead => Tells
  BY HandlersTell DEF HandleStatusRead
<1>7. ExecSelect => Tells
  BY HandlersTell DEF ExecSelect
<1>8. ExecDisconnectActive => Tells
  BY HandlersTell DEF ExecDisconnectActive
<1> QED BY <1>2, <1>3, <1>4, <1>5, <1>6, <1>7, <1>8

\* A step that is done leaves the next one as it was, so that a session about to
\* be told still is.
LEMMA DoneTells ==
  ASSUME todo \in Seq(Step), todo # <<>>, Done
  PROVE  Telling => Telling' \/ Head(todo).op = "Disconnect"
<1>1. /\ \A i \in 1..Len(todo) : i # 1 => i - 1 \in 1..Len(Rest) /\ Rest[i - 1] = todo[i]
      /\ todo[1] = Head(todo) /\ todo' = Rest
  BY DEF Rest, Done
<1> QED BY <1>1 DEF Telling

\* Steps that neither hand anything to the Machine nor tell a session to go.
LEMMA PlainWorkTold ==
  ASSUME IInv, SInv, TInv,
         \/ SubscribeSession \/ WatchSessionManager
         \/ ExecEnableLogForward \/ ExecConnect \/ ExecOpenPrompt
         \/ ExecClosePrompt \/ ExecProvideInput \/ ExecNote \/ ExecPublish
         \/ ExecPublishIfNot
  PROVE  TInv'
<1>1. /\ todo # <<>> /\ Done /\ UNCHANGED machineVars
      /\ Head(todo).op # "Disconnect"
  BY DEF SubscribeSession, WatchSessionManager, ExecEnableLogForward,
     ExecConnect, ExecOpenPrompt, ExecClosePrompt, ExecProvideInput, ExecNote,
     ExecPublish, ExecPublishIfNot, Doing
<1>2. UNCHANGED <<real, told>>
  BY DEF SubscribeSession, WatchSessionManager, ExecEnableLogForward,
     ExecConnect, ExecOpenPrompt, ExecClosePrompt, ExecProvideInput, ExecNote,
     ExecPublish, ExecPublishIfNot, Subscribe, Watch, ForwardLog, Dial, Answer,
     openvpn3Vars, serviceVars
<1>3. ~Doing("Created")' /\ ~Doing("AdoptAs")'
  BY <1>1, DonePlaces DEF SInv, Places, Settled
<1>4. Telling => Telling'
  BY <1>1, DoneTells, Parts
<1>5. HeldAreBorn'
  BY <1>1, <1>2, <1>3
     DEF TInv, HeldAreBorn, Held, Hands, Newborn, Adopting, machineVars
<1>6. ToldOrTelling'
  BY <1>1, <1>2, <1>4 DEF TInv, ToldOrTelling, Exists, machineVars
<1> QED BY <1>5, <1>6 DEF TInv

\* The call itself: the session is told, or the call may fail, or there is no
\* session to tell.
LEMMA ExecDisconnectTold ==
  ASSUME IInv, SInv, TInv, ExecDisconnect
  PROVE  TInv'
<1> DEFINE s == Head(todo).session
<1>1. /\ todo # <<>> /\ Head(todo).op = "Disconnect"
      /\ Done /\ UNCHANGED machineVars /\ real' = real
      /\ \/ told' = told \cup {s}
         \/ told' = told /\ ("Disconnect" \in FaultyCalls \/ ~Exists(s))
  BY DEF ExecDisconnect, Doing, Stop, Fails, openvpn3Vars, serviceVars
<1>2. s = awaitingTeardown
  <2>1. 1 \in 1..Len(todo) /\ todo[1] = Head(todo)
    BY <1>1, Parts
  <2> QED BY <1>1, <2>1 DEF SInv, InPlace
<1>3. ~Doing("Created")' /\ ~Doing("AdoptAs")'
  BY <1>1, DonePlaces DEF SInv, Places, Settled
<1>4. HeldAreBorn'
  BY <1>1, <1>3
     DEF TInv, HeldAreBorn, Held, Hands, Newborn, Adopting, machineVars
<1>5. ToldOrTelling'
  BY <1>1, <1>2 DEF ToldOrTelling, Exists, machineVars
<1> QED BY <1>4, <1>5 DEF TInv

\* A session that is adopted is there, and waits for nothing.
LEMMA AdoptTold ==
  ASSUME IInv, SInv, TInv, AdoptExisting \/ AdoptStatusRead
  PROVE  TInv'
<1>1. todo # <<>> /\ Head(todo).op \in AdoptOps /\ UNCHANGED <<real, told>>
  BY DEF AdoptExisting, AdoptStatusRead, Doing, AdoptOps, openvpn3Vars,
     serviceVars
<1>2. ~Telling
  BY <1>1, OthersTellNone, Parts DEF Notices, AdoptOps
<1>3. awaitingTeardown' = awaitingTeardown
  BY DEF AdoptExisting, AdoptStatusRead, ExternalSessionSeen, Ignored,
     machineVars
<1>4. ToldOrTelling'
  BY <1>1, <1>2, <1>3 DEF TInv, ToldOrTelling, Exists
<1>5. ASSUME NEW s \in Session, Exists(s), Returns(<<AdoptAs(s, real[s])>>, Rest),
             UNCHANGED machineVars
      PROVE  HeldAreBorn'
  <2>1. Rest \in Seq(CalmStep)
    BY <1>1, RestIsCalm DEF SInv, Notices, AdoptOps
  <2>2. todo' # <<>> /\ Head(todo') = AdoptAs(s, real[s])
    BY <1>5, <2>1 DEF Returns
  <2>3. Adopting' = {s} /\ Newborn' = {}
    BY <2>2 DEF Adopting, Newborn, Doing, AdoptAs
  <2> QED BY <1>1, <1>5, <2>3
          DEF TInv, HeldAreBorn, Held, Hands, Exists, machineVars
<1>6. CASE Done /\ UNCHANGED machineVars
  <2>1. ~Doing("Created")' /\ ~Doing("AdoptAs")'
    BY <1>1, <1>6, DonePlaces DEF SInv, Places, Settled
  <2> QED BY <1>1, <1>4, <1>6, <2>1
          DEF TInv, HeldAreBorn, Held, Hands, Newborn, Adopting, machineVars
<1>7. CASE AdoptStatusRead
  <2>1. active' \in {active, Head(todo).session}
    BY <1>7 DEF AdoptStatusRead, ExternalSessionSeen, Ignored, machineVars
  <2>2. Head(todo).session \in Adopting
    BY <1>7 DEF AdoptStatusRead, Adopting
  <2>3. Newborn' = {} /\ Adopting' = {}
    BY <1>7, AdoptStatusPlaces DEF Settled, Newborn, Adopting
  <2>4. HeldAreBorn'
    BY <1>1, <1>3, <2>1, <2>2, <2>3 DEF TInv, HeldAreBorn, Held, Hands
  <2> QED BY <1>4, <2>4 DEF TInv
<1> QED BY <1>4, <1>5, <1>6, <1>7 DEF AdoptExisting, TInv

\* So is a newborn, who goes on display next.
LEMMA NewbornTold ==
  ASSUME IInv, SInv, TInv, ExecNewTunnel \/ TunnelCreated
  PROVE  TInv'
<1>1. todo # <<>> /\ Head(todo).op \in {"NewTunnel", "Created"} /\ told' = told
  BY DEF ExecNewTunnel, TunnelStarts, TunnelRefused, TunnelCreated, Doing,
     StartTunnel, Subscribe, openvpn3Vars, serviceVars
<1>2. awaitingTeardown = None /\ awaitingTeardown' = None
  <2>1. 1 \in 1..Len(todo) /\ todo[1] = Head(todo)
    BY <1>1, Parts
  <2>2. awaitingTeardown = None
    BY <1>1, <2>1, Parts DEF StartsAlone, StartOps
  <2> QED BY <2>2 DEF ExecNewTunnel, TunnelStarts, TunnelRefused,
                      TunnelCreated, SessionCreated, machineVars
<1>3. ToldOrTelling'
  BY <1>2 DEF ToldOrTelling
<1>4. Rest \in Seq(CalmStep)
  BY <1>1, RestIsCalm DEF SInv, Notices
<1>5. ASSUME NEW s \in Session, NEW requests \in SUBSET Group,
             StartTunnel(s, requests), Returns(<<Created(s)>>, Rest),
             UNCHANGED machineVars
      PROVE  HeldAreBorn'
  <2>1. todo' # <<>> /\ Head(todo') = Created(s)
    BY <1>4, <1>5 DEF Returns
  <2>2. Newborn' = {s} /\ Adopting' = {}
    BY <2>1 DEF Newborn, Adopting, Doing, Created
  <2>3. real' = [real EXCEPT ![s] = NoChange]
    BY <1>5 DEF StartTunnel
  <2>4. real \in [Session -> StatusClass \cup {"Unborn", "Gone"}]
    BY Parts DEF BusOK, Openvpn3TypeOK
  <2>5. real'[s] # "Unborn" /\ \A t \in Session : real[t] # "Unborn" => real'[t] # "Unborn"
    BY <2>3, <2>4 DEF NoChange
  <2>6. Hands' \subseteq Session /\ Hands' = Hands
    BY <1>5, Parts DEF Before, MachineTypeOK, Hands, machineVars
  <2> QED BY <2>2, <2>5, <2>6 DEF TInv, HeldAreBorn, Held
<1>6. CASE ExecNewTunnel /\ Done /\ UNCHANGED openvpn3Vars
  <2>1. ~Doing("Created")' /\ ~Doing("AdoptAs")' /\ UNCHANGED machineVars
    BY <1>1, <1>6, DonePlaces
       DEF SInv, Places, Settled, ExecNewTunnel, TunnelStarts, TunnelRefused
  <2> QED BY <1>6, <2>1, <1>3
          DEF TInv, HeldAreBorn, Held, Hands, Newborn, Adopting, machineVars,
              openvpn3Vars, serviceVars
<1>7. CASE TunnelCreated
  <2>1. Head(todo).session \in Newborn /\ active' = Head(todo).session
    BY <1>7 DEF TunnelCreated, SessionCreated, Newborn
  <2>2. Head(todo).session \in Session
    BY <1>1, <1>7, HeadTypes, Parts DEF TunnelCreated, Doing
  <2>3. ~Doing("Created")' /\ ~Doing("AdoptAs")'
    BY <1>4, <1>7, <2>2, CalmBatches, CalmBatch
       DEF TunnelCreated, SessionCreated, Settled
  <2>4. real' = real
    BY <1>7 DEF TunnelCreated, Subscribe, serviceVars
  <2> QED BY <1>2, <1>3, <2>1, <2>3, <2>4
          DEF TInv, HeldAreBorn, Held, Hands, Newborn, Adopting
<1> QED BY <1>3, <1>5, <1>6, <1>7
        DEF TInv, ExecNewTunnel, TunnelStarts, TunnelRefused

\* The service forgets who was told only when the session goes, and starts none
\* that the worker has to do with.
LEMMA ServiceTold ==
  ASSUME IInv, SInv, TInv, Service
  PROVE  TInv'
<1>1. UNCHANGED <<machineVars, todo>>
  BY DEF Service
<1>2. Held \cup Adopting \subseteq Session
  BY HeadTypes, Parts
     DEF Before, MachineTypeOK, Held, Hands, Newborn, Adopting, Doing
<1>3. PICK s \in Session :
        \/ \E x \in Reports : ReportStatus(s, x)
        \/ \E g \in Group : RequireAttention(s, g)
        \/ RemoveSession(s)
        \/ StartFromTerminal(s)
  BY DEF Service, Openvpn3Next
<1>4. real \in [Session -> StatusClass \cup {"Unborn", "Gone"}]
  BY Parts DEF BusOK, Openvpn3TypeOK
<1>5. \A t \in Session : real[t] # "Unborn" =>
        /\ real'[t] # "Unborn"
        /\ Exists(t)' => Exists(t) /\ (t \in told => t \in told')
  <2>1. ASSUME NEW x \in Reports, ReportStatus(s, x)
        PROVE  \A t \in Session : real[t] # "Unborn" =>
                 /\ real'[t] # "Unborn"
                 /\ Exists(t)' => Exists(t) /\ (t \in told => t \in told')
    <3>1. x \in StatusClass /\ x # "Unborn"
      BY Openvpn3Assumption DEF StatusClass, ConnectionState, NoChange
    <3> QED BY <1>4, <2>1, <3>1 DEF ReportStatus, Running, Exists
  <2>2. ASSUME NEW g \in Group, RequireAttention(s, g)
        PROVE  UNCHANGED <<real, told>>
    BY <2>2 DEF RequireAttention
  <2>3. CASE RemoveSession(s)
    BY <1>4, <2>3 DEF RemoveSession, Exists
  <2>4. CASE StartFromTerminal(s)
    BY <1>4, <2>4 DEF StartFromTerminal, Exists
  <2> QED BY <1>3, <2>1, <2>2, <2>3, <2>4 DEF Exists
<1>6. HeldAreBorn'
  BY <1>1, <1>2, <1>5
     DEF TInv, HeldAreBorn, Held, Hands, Newborn, Adopting, Doing, machineVars
<1>7. ToldOrTelling'
  <2>1. awaitingTeardown # None => awaitingTeardown \in Held
    BY DEF Held, Hands
  <2>2. Telling' = Telling
    BY <1>1 DEF Telling
  <2> QED BY <1>1, <1>2, <1>5, <2>1, <2>2
          DEF TInv, HeldAreBorn, ToldOrTelling, machineVars
<1> QED BY <1>6, <1>7 DEF TInv

\* Every step preserves the invariant.
LEMMA TInvNext == IInv /\ SInv /\ TInv /\ [Next]_vars => TInv'
<1> SUFFICES ASSUME IInv, SInv, TInv, [Next]_vars PROVE TInv'
  OBVIOUS
<1>1. ASSUME Places, Tells, UNCHANGED Known,
             todo = <<>> \/ Head(todo).op \notin Notices \cup {"Disconnect"}
      PROVE  TInv'
  <2>1. ~Telling
    BY <1>1, OthersTellNone, Parts
  <2> QED BY <1>1, <2>1, TellsKeeps DEF Places, Settled, Known
<1>2. CASE Ui \/ Signal \/ Settle
  <2>1. todo = <<>>
    BY <1>2 DEF Ui, UiSelectProfile, UiDisconnect, UiRefresh, UiDismissFailure,
       UiManageProfiles, UiSubmitPrompt, UiCancelPrompt, Receives, Signal,
       ReceiveStatus, ReceiveAttention, ReceiveRemoved, Settle, Idle
  <2> QED BY <1>1, <1>2, <2>1, UiPlaces, InputPlaces, InputTells
<1>3. CASE \/ ExecCheckReady \/ ExecAskQueue \/ ExecReconcileTeardown
           \/ ExecReconcileStatus \/ HandleStatusRead \/ ExecSelect
           \/ ExecDisconnectActive
  <2>1. /\ todo # <<>>
        /\ Head(todo).op \notin Notices \cup {"Disconnect"}
    BY <1>3 DEF ExecCheckReady, ExecAskQueue, ExecReconcileTeardown,
       ExecReconcileStatus, HandleStatusRead, ExecSelect, ExecDisconnectActive,
       Doing, Notices
  <2>2. Rest \in Seq(CalmStep)
    BY <2>1, RestIsCalm DEF SInv
  <2> QED BY <1>1, <1>3, <2>1, <2>2, EventWorkPlaces, EventWorkTells
<1>4. CASE UNCHANGED vars
  BY <1>4 DEF vars, machineVars, openvpn3Vars, serviceVars, TInv, HeldAreBorn,
     Held, Hands, Newborn, Adopting, ToldOrTelling, Telling, Doing, Exists
<1> QED BY <1>2, <1>3, <1>4, PlainWorkTold, ExecDisconnectTold, AdoptTold,
           NewbornTold, ServiceTold DEF Next, Work, Call

\* At first there is nobody to tell.
LEMMA TInvInit == Init => TInv
BY DEF Init, MachineInit, TInv, HeldAreBorn, Held, Hands, Newborn, Adopting,
       ToldOrTelling, Doing, Adopt

\* Unless the call may be refused, a session the Machine waits for when idle was
\* told to go, or is gone: of the four ways into a teardown none forgets the
\* call, and nothing the worker does next overtakes it.
THEOREM WaitsOnlyForTold == Spec => []TeardownIsTold
<1>1. TInv => TeardownIsTold
  <2> SUFFICES ASSUME TInv, Idle PROVE ~Telling
    BY DEF TInv, ToldOrTelling, TeardownIsTold
  <2>1. 1..Len(todo) = {}
    BY DEF Idle
  <2> QED BY <2>1 DEF Telling
<1> QED BY <1>1, TInvInit, TInvNext, SInvInit, SInvNext, Invariance,
           PTL DEF Spec
=============================================================================
