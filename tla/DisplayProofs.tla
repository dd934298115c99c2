---------------------------- MODULE DisplayProofs ----------------------------
(***************************************************************************)
(* What holds of what the user gets to see, for any number of sessions,    *)
(* profiles and requests: the snapshot shown, the prompt on offer and a    *)
(* failure on display.                                                     *)
(*                                                                         *)
(* All three depend on the order of the worker's steps.  A turn of the     *)
(* Machine puts a batch in front of what is left to do; Turn says what the *)
(* batches have in common, one lemma shows it of every handler and one of  *)
(* every step of the worker, and each invariant is then preserved by turns *)
(* and by the few steps that touch what it is about.                       *)
(***************************************************************************)
EXTENDS SingleSessionProofs, SequenceTheorems, Functions

-----------------------------------------------------------------------------
(* Turns of the Machine *)

PublishOps == {"Publish", "PublishIfNot"}
PromptOps  == {"OpenPrompt", "ClosePrompt"}

\* The steps that neither publish nor look for sessions, and those among them
\* that leave the prompt alone.
InnerStep == {x \in Step : x.op \notin PublishOps \cup AdoptOps}
PlainStep == {x \in InnerStep : x.op \notin PromptOps}

\* A batch opens a prompt only first and with the prompt noted as open, for a
\* session in hand; it closes one only first, or right after the answers, with
\* the prompt noted as closed.  Whoever else has a prompt open keeps what he
\* has in hand.
PromptTurn(rest) ==
  \/ /\ \E cs \in Seq(PlainStep) : Returns(cs, rest)
     /\ promptOpen' => promptOpen /\ Hands \subseteq Hands'
  \/ /\ \E s \in Hands', gs \in SUBSET Supported, cs \in Seq(PlainStep) :
          Returns(<<OpenPrompt(s, gs)>> \o cs, rest)
     /\ promptOpen'
  \/ /\ \E cs \in Seq(PlainStep) : Returns(<<ClosePrompt>> \o cs, rest)
     /\ ~promptOpen'
  \/ /\ \E s \in Session, gs \in SUBSET Group, cs \in Seq(PlainStep) :
          Returns(<<ProvideInput(s, gs), ClosePrompt>> \o cs, rest)
     /\ ~promptOpen'

Turn(rest) ==
  /\ \E cs \in Seq(InnerStep) : Returns(cs, rest)
  /\ PromptTurn(rest)
  /\ Doing("NewTunnel")' => state' = "Connecting"
  /\ ~Doing("Created")'

\* No session gets on display.
TakesNone == active' \in {active, None}

\* A failure whose session is out of hand is not taken from the display,
\* unless another profile is waiting.
KeepsFailure ==
  state = "Failed" /\ active = None /\ pendingTarget = None => state' = "Failed"

Steady == TakesNone /\ KeepsFailure

\* The steps the handlers return, by kind.
LEMMA PlainCommands ==
  /\ PlainStep \subseteq InnerStep
  /\ ClosePrompt \in InnerStep
  /\ \A c \in Config : NewTunnel(c) \in PlainStep
  /\ \A s \in Session :
       /\ EnableLogForward(s) \in PlainStep
       /\ Connect(s) \in PlainStep
       /\ Disconnect(s) \in PlainStep
       /\ CheckReady(s) \in PlainStep
       /\ Note(s) \in PlainStep
       /\ \A gs \in SUBSET Group :
            /\ OpenPrompt(s, gs) \in InnerStep
            /\ ProvideInput(s, gs) \in PlainStep
BY DEF PlainStep, InnerStep, PublishOps, AdoptOps, PromptOps, Step, Command,
       NewTunnel, EnableLogForward, Connect, Disconnect, OpenPrompt,
       ClosePrompt, ProvideInput, CheckReady, Note

\* Batches of them.
LEMMA PlainBatches ==
  /\ <<>> \in Seq(PlainStep)
  /\ \A x \in PlainStep : <<x>> \in Seq(PlainStep)
  /\ \A x, y \in PlainStep : <<x, y>> \in Seq(PlainStep)
  /\ \A x \in InnerStep : <<x>> \in Seq(InnerStep)
  /\ \A x, y \in InnerStep : <<x, y>> \in Seq(InnerStep)
  /\ \A x, y, z \in InnerStep : <<x, y, z>> \in Seq(InnerStep)
  /\ Seq(PlainStep) \subseteq Seq(InnerStep)
BY PlainCommands

\* A turn that returns quiet plain steps, and keeps an open prompt's session.
LEMMA PlainTurn ==
  ASSUME NEW cs \in Seq(PlainStep), cs \in Seq(QuietStep),
         NEW rest \in Seq(QuietStep), Returns(cs, rest),
         promptOpen' => promptOpen /\ Hands \subseteq Hands'
  PROVE  Turn(rest)
<1>1. ~Doing("NewTunnel")' /\ ~Doing("Created")'
  <2>1. todo' \in Seq(QuietStep)
    BY DEF Returns
  <2>2. todo' # <<>> => Head(todo') \in QuietStep
    BY <2>1
  <2> QED BY <2>2 DEF Doing, QuietStep, StartOps
<1> QED BY <1>1, PlainBatches DEF Turn, PromptTurn

\* A turn that starts a tunnel.
LEMMA StartTurn ==
  ASSUME NEW c \in Config, NEW rest \in Seq(QuietStep),
         Returns(<<NewTunnel(c)>>, rest), state' = "Connecting",
         promptOpen' => promptOpen /\ Hands \subseteq Hands'
  PROVE  Turn(rest)
<1>1. Head(todo') = NewTunnel(c)
  BY DEF Returns
<1>2. <<NewTunnel(c)>> \in Seq(PlainStep)
  BY PlainCommands, PlainBatches
<1>3. ~Doing("Created")'
  BY <1>1 DEF Doing, NewTunnel
<1>4. PromptTurn(rest)
  BY <1>2 DEF PromptTurn
<1> QED BY <1>2, <1>3, <1>4, PlainBatches DEF Turn

\* Nothing happens.
LEMMA IgnoredTurn ==
  ASSUME NEW rest \in Seq(QuietStep), Ignored(rest)
  PROVE  Turn(rest) /\ Steady
<1>1. Turn(rest)
  BY PlainTurn, PlainBatches, QuietBatches DEF Ignored, machineVars, Hands
<1> QED BY <1>1 DEF Ignored, machineVars, Steady, TakesNone, KeepsFailure

\* finish_teardown closes the machine's prompt.
LEMMA FinishTeardownTurn ==
  ASSUME Before, NEW rest \in Seq(QuietStep), FinishTeardown(rest)
  PROVE  Turn(rest) /\ Steady
<1>1. CASE pendingTarget # None
  <2>1. pendingTarget \in Config
    BY <1>1 DEF Before, MachineTypeOK
  <2> QED BY <1>1, <2>1, StartTurn
          DEF FinishTeardown, Steady, TakesNone, KeepsFailure
<1>2. CASE pendingTarget = None
  BY <1>2, PlainTurn, PlainBatches, QuietBatches
     DEF FinishTeardown, Steady, TakesNone, KeepsFailure, StateOnceGone
<1> QED BY <1>1, <1>2

\* apply_status closes a prompt it makes pointless.
LEMMA ApplyStatusTurn ==
  ASSUME NEW s \in Session, NEW x \in StatusClass, NEW rest \in Seq(QuietStep),
         ApplyStatus(s, x, rest), promptOpen \in BOOLEAN,
         Hands \subseteq Hands'
  PROVE  Turn(rest)
<1>1. CASE ClosesPrompt(x) /\ x \in ConnectionState
  <2>1. x # NoChange
    BY <1>1 DEF ConnectionState, NoChange
  <2>2. ~promptOpen' /\ Returns(<<ClosePrompt>>, rest)
    BY <1>1, <2>1 DEF ApplyStatus
  <2>3. <<ClosePrompt>> \o <<>> = <<ClosePrompt>>
    OBVIOUS
  <2>4. PromptTurn(rest)
    BY <2>2, <2>3, PlainBatches DEF PromptTurn
  <2>5. Head(todo') = ClosePrompt
    BY <2>2 DEF Returns
  <2>6. ~Doing("NewTunnel")' /\ ~Doing("Created")'
    BY <2>5 DEF Doing, ClosePrompt
  <2>7. <<ClosePrompt>> \in Seq(InnerStep)
    BY PlainCommands, PlainBatches
  <2> QED BY <2>2, <2>4, <2>6, <2>7 DEF Turn
<1>2. CASE ~ClosesPrompt(x) \/ x \notin ConnectionState
  <2>1. promptOpen' => promptOpen
    BY <1>2 DEF ApplyStatus
  <2>2. \E cs \in Seq(PlainStep) : cs \in Seq(QuietStep) /\ Returns(cs, rest)
    BY <1>2, PlainCommands, PlainBatches, QuietBatches DEF ApplyStatus
  <2> QED BY <2>1, <2>2, PlainTurn
<1> QED BY <1>1, <1>2

\* The events that neither choose a profile nor bring a session along.
LEMMA SteadyTurns ==
  ASSUME Before, NEW s \in Session, NEW rest \in Seq(QuietStep)
  PROVE  /\ \/ SessionReady(s, rest) \/ SessionRemoved(s, rest)
            \/ PromptCancelled(s, rest)
            => Turn(rest) /\ TakesNone
         /\ SessionReady(s, rest) \/ SessionRemoved(s, rest) => KeepsFailure
         /\ \A x \in StatusClass :
              StatusChanged(s, x, rest) => Turn(rest) /\ Steady
         /\ \A gs \in SUBSET Group :
              /\ CredentialsRequired(s, gs, rest) => Turn(rest) /\ Steady
              /\ PromptSubmitted(s, gs, rest) => Turn(rest) /\ Steady
<1> USE ObjectsAssumption, IgnoredTurn
<1>1. SessionReady(s, rest) => Turn(rest) /\ Steady
  <2>1. CASE active = s /\ SessionReady(s, rest)
    <3>1. Returns(<<Connect(s)>>, rest)
          /\ UNCHANGED <<active, awaitingTeardown, promptOpen>>
      BY <2>1, QuietBatches, PlainBatches DEF SessionReady
    <3>2. Turn(rest)
      BY <3>1, PlainTurn, PlainCommands, PlainBatches, QuietBatches DEF Hands
    <3> QED BY <2>1, <3>1, <3>2 DEF Steady, TakesNone, KeepsFailure
  <2> QED BY <2>1 DEF SessionReady
<1>2. SessionRemoved(s, rest) => Turn(rest) /\ Steady
  <2>1. CASE SessionRemoved(s, rest) /\ s = active /\ s # awaitingTeardown
    <3>1. ~promptOpen' /\ Returns(<<>>, rest)
      BY <2>1 DEF SessionRemoved
    <3>2. Turn(rest)
      BY <3>1, PlainTurn, PlainBatches, QuietBatches
    <3> QED BY <2>1, <3>2 DEF SessionRemoved, Steady, TakesNone, KeepsFailure
  <2> QED BY <2>1, FinishTeardownTurn DEF SessionRemoved
<1>3. PromptCancelled(s, rest) => Turn(rest) /\ TakesNone
  <2>1. CASE PromptCancelled(s, rest) /\ active = s
    <3>1. /\ ~promptOpen' /\ active' = None
          /\ Returns(<<ClosePrompt, Disconnect(s)>>, rest)
      BY <2>1 DEF PromptCancelled
    <3>2. <<ClosePrompt, Disconnect(s)>> = <<ClosePrompt>> \o <<Disconnect(s)>>
      OBVIOUS
    <3>3. <<Disconnect(s)>> \in Seq(PlainStep)
      BY PlainCommands, PlainBatches
    <3>4. PromptTurn(rest)
      BY <3>1, <3>2, <3>3 DEF PromptTurn
    <3>5. Head(todo') = ClosePrompt
      BY <3>1 DEF Returns
    <3>6. ~Doing("NewTunnel")' /\ ~Doing("Created")'
      BY <3>5 DEF Doing, ClosePrompt
    <3>7. <<ClosePrompt, Disconnect(s)>> \in Seq(InnerStep)
      BY PlainCommands, PlainBatches
    <3> QED BY <3>1, <3>4, <3>6, <3>7 DEF Turn, TakesNone
  <2> QED BY <2>1 DEF PromptCancelled, Steady
<1>4. ASSUME NEW x \in StatusClass, StatusChanged(s, x, rest)
      PROVE  Turn(rest) /\ Steady
  <2>1. CASE s = active /\ s # awaitingTeardown
    <3>1. ApplyStatus(s, x, rest)
          /\ UNCHANGED <<active, pendingTarget, awaitingTeardown>>
      BY <1>4, <2>1 DEF StatusChanged
    <3>2. Turn(rest)
      BY <3>1, ApplyStatusTurn DEF Hands, Before, MachineTypeOK
    <3> QED BY <2>1, <3>1, <3>2 DEF Steady, TakesNone, KeepsFailure
  <2> QED BY <1>4, <2>1, FinishTeardownTurn DEF StatusChanged
<1>5. ASSUME NEW gs \in SUBSET Group, CredentialsRequired(s, gs, rest)
      PROVE  Turn(rest) /\ Steady
  <2>1. CASE active = s /\ ~promptOpen /\ gs # {} /\ ~(gs \subseteq Supported)
    <3>1. /\ promptOpen' = promptOpen /\ active' = None
          /\ Returns(<<Note(s), Disconnect(s)>>, rest)
      BY <1>5, <2>1 DEF CredentialsRequired
    <3>2. <<Note(s), Disconnect(s)>> \in Seq(PlainStep)
      BY PlainCommands, PlainBatches
    <3>3. <<Note(s), Disconnect(s)>> \in Seq(QuietStep)
      BY QuietBatches
    <3>4. Turn(rest)
      BY <2>1, <3>1, <3>2, <3>3, PlainTurn
    <3> QED BY <2>1, <3>1, <3>4 DEF Steady, TakesNone, KeepsFailure
  <2>2. CASE active = s /\ ~promptOpen /\ gs # {} /\ gs \subseteq Supported
    <3>1. /\ promptOpen' /\ UNCHANGED <<active, awaitingTeardown>>
          /\ Returns(<<OpenPrompt(s, gs)>>, rest)
      BY <1>5, <2>2 DEF CredentialsRequired
    <3>2. s \in Hands'
      BY <2>2, <3>1 DEF Hands
    <3>3. <<OpenPrompt(s, gs)>> \o <<>> = <<OpenPrompt(s, gs)>>
      OBVIOUS
    <3>8. PromptTurn(rest)
      BY <2>2, <3>1, <3>2, <3>3, PlainBatches DEF PromptTurn
    <3>4. Head(todo') = OpenPrompt(s, gs)
      BY <3>1 DEF Returns
    <3>5. ~Doing("NewTunnel")' /\ ~Doing("Created")'
      BY <3>4 DEF Doing, OpenPrompt
    <3>6. <<OpenPrompt(s, gs)>> \in Seq(InnerStep)
      BY PlainCommands, PlainBatches
    <3>7. Turn(rest)
      BY <3>1, <3>5, <3>6, <3>8 DEF Turn
    <3> QED BY <2>2, <3>1, <3>7 DEF Steady, TakesNone, KeepsFailure
  <2> QED BY <1>5, <2>1, <2>2 DEF CredentialsRequired
<1>6. ASSUME NEW gs \in SUBSET Group, PromptSubmitted(s, gs, rest)
      PROVE  Turn(rest) /\ Steady
  <2>1. CASE active = s
    <3>1. /\ ~promptOpen' /\ active' = active
          /\ Returns(Resume(s, gs), rest)
      BY <1>6, <2>1 DEF PromptSubmitted
    <3>2. Resume(s, gs)
            = <<ProvideInput(s, gs), ClosePrompt>> \o <<CheckReady(s)>>
      BY DEF Resume
    <3>3. <<CheckReady(s)>> \in Seq(PlainStep)
      BY PlainCommands, PlainBatches
    <3>4. PromptTurn(rest)
      BY <3>1, <3>2, <3>3 DEF PromptTurn
    <3>5. Head(todo') = ProvideInput(s, gs)
      BY <3>1 DEF Returns, Resume
    <3>6. ~Doing("NewTunnel")' /\ ~Doing("Created")'
      BY <3>5 DEF Doing, ProvideInput
    <3>7. Resume(s, gs) \in Seq(InnerStep)
      BY PlainCommands, PlainBatches DEF Resume
    <3>8. Turn(rest)
      BY <3>1, <3>4, <3>6, <3>7 DEF Turn
    <3> QED BY <2>1, <3>1, <3>8 DEF Steady, TakesNone, KeepsFailure
  <2> QED BY <1>6, <2>1 DEF PromptSubmitted
<1> QED BY <1>1, <1>2, <1>3, <1>4, <1>5, <1>6 DEF Steady

\* The events that change what is to be displayed.
LEMMA ChangingTurns ==
  ASSUME Before, NEW rest \in Seq(QuietStep)
  PROVE  /\ \A c \in Config :
              ProfileSelected(c, rest) => Turn(rest) /\ TakesNone
         /\ DisconnectRequested(rest) => Turn(rest) /\ Steady
         /\ FailureDismissed(rest) => Turn(rest) /\ TakesNone
         /\ \A s \in Session :
              Hands = {} /\ SessionCreated(s, rest) => Turn(rest)
         /\ \A s \in Session, x \in StatusClass :
              ExternalSessionSeen(s, x, rest) => Turn(rest)
<1>1. active # None => active \in Session
  BY DEF Before, MachineTypeOK
<1>2. \A s \in Session :
        <<Disconnect(s)>> \in Seq(PlainStep) /\ StartUp(s) \in Seq(PlainStep)
  BY PlainCommands, PlainBatches DEF StartUp
<1>3. ASSUME NEW c \in Config, ProfileSelected(c, rest)
      PROVE  Turn(rest) /\ TakesNone
  <2>1. UNCHANGED promptOpen /\ TakesNone /\ Hands \subseteq Hands'
    BY <1>3, ProfileSelectedLemma DEF ProfileSelected, TakesNone
  <2>2. CASE Returns(<<NewTunnel(c)>>, rest) /\ state' = "Connecting"
    BY <2>1, <2>2, StartTurn
  <2>3. CASE Returns(<<>>, rest)
    BY <2>1, <2>3, PlainTurn, PlainBatches, QuietBatches
  <2>4. CASE active # None /\ Returns(<<Disconnect(active)>>, rest)
    BY <1>1, <1>2, <2>1, <2>4, PlainTurn, QuietBatches
  <2> QED BY <1>3, <2>1, <2>2, <2>3, <2>4 DEF ProfileSelected
<1>4. ASSUME DisconnectRequested(rest)
      PROVE  Turn(rest) /\ Steady
  <2>1. /\ UNCHANGED <<promptOpen, state>> /\ TakesNone /\ Hands \subseteq Hands'
    BY <1>4, DisconnectRequestedLemma DEF DisconnectRequested, TakesNone
  <2>2. CASE Returns(<<>>, rest)
    BY <2>1, <2>2, PlainTurn, PlainBatches, QuietBatches
       DEF Steady, KeepsFailure
  <2>3. CASE active # None /\ Returns(<<Disconnect(active)>>, rest)
    BY <1>1, <1>2, <2>1, <2>3, PlainTurn, QuietBatches DEF Steady, KeepsFailure
  <2> QED BY <1>4, <2>2, <2>3 DEF DisconnectRequested
<1>5. ASSUME FailureDismissed(rest)
      PROVE  Turn(rest) /\ TakesNone
  <2>1. /\ Returns(<<>>, rest) /\ UNCHANGED <<active, promptOpen>>
        /\ Hands' = Hands
    BY <1>5 DEF FailureDismissed, Hands
  <2>2. Turn(rest)
    BY <2>1, PlainTurn, PlainBatches, QuietBatches
  <2> QED BY <2>1, <2>2 DEF TakesNone
<1>6. ASSUME NEW s \in Session, Hands = {}, SessionCreated(s, rest)
      PROVE  Turn(rest)
  BY <1>2, <1>6, PlainTurn, QuietBatches DEF SessionCreated
<1>7. ASSUME NEW s \in Session, NEW x \in StatusClass,
             ExternalSessionSeen(s, x, rest)
      PROVE  Turn(rest)
  <2>1. CASE awaitingTeardown # None \/ active # None
    BY <1>7, <2>1, IgnoredTurn DEF ExternalSessionSeen
  <2>2. CASE awaitingTeardown = None /\ active = None
    BY <1>7, <2>2, ApplyStatusTurn
       DEF ExternalSessionSeen, Before, MachineTypeOK, Hands
  <2> QED BY <2>1, <2>2
<1> QED BY <1>3, <1>4, <1>5, <1>6, <1>7

-----------------------------------------------------------------------------
(* Turns of the worker *)

\* One more step behind a batch belongs to it.
LEMMA Regroup ==
  ASSUME NEW cs \in Seq(Step), NEW x \in Step, NEW rest \in Seq(Step),
         Returns(cs, <<x>> \o rest)
  PROVE  Returns(cs \o <<x>>, rest)
BY DEF Returns

\* So a turn in front of one more step is a turn in front of the rest.
LEMMA TurnMore ==
  ASSUME NEW x \in PlainStep, NEW rest \in Seq(QuietStep),
         Turn(<<x>> \o rest)
  PROVE  Turn(rest)
<1>1. /\ Seq(QuietStep) \subseteq Seq(Step) /\ PlainStep \subseteq InnerStep
      /\ InnerStep \subseteq Step
  BY DEF QuietStep, PlainStep, InnerStep
<1>2. x \in Step /\ rest \in Seq(Step)
  BY <1>1
<1>3. \A cs \in Seq(PlainStep) :
        cs \in Seq(Step) /\ cs \o <<x>> \in Seq(PlainStep)
  BY <1>1
<1>4. \E cs \in Seq(InnerStep) : Returns(cs, rest)
  <2>1. PICK cs \in Seq(InnerStep) : Returns(cs, <<x>> \o rest)
    BY DEF Turn
  <2>2. cs \in Seq(Step) /\ cs \o <<x>> \in Seq(InnerStep)
    BY <1>1
  <2> QED BY <1>2, <2>1, <2>2, Regroup
<1>5. PromptTurn(rest)
  <2>1. CASE /\ \E cs \in Seq(PlainStep) : Returns(cs, <<x>> \o rest)
             /\ promptOpen' => promptOpen /\ Hands \subseteq Hands'
    <3>1. PICK cs \in Seq(PlainStep) : Returns(cs, <<x>> \o rest)
      BY <2>1
    <3> QED BY <1>2, <1>3, <2>1, <3>1, Regroup DEF PromptTurn
  <2>2. CASE /\ \E s \in Hands', gs \in SUBSET Supported, cs \in Seq(PlainStep) :
                  Returns(<<OpenPrompt(s, gs)>> \o cs, <<x>> \o rest)
             /\ promptOpen'
    <3>1. PICK s \in Hands', gs \in SUBSET Supported, cs \in Seq(PlainStep) :
            Returns(<<OpenPrompt(s, gs)>> \o cs, <<x>> \o rest)
      BY <2>2
    <3>2. Returns(<<OpenPrompt(s, gs)>> \o (cs \o <<x>>), rest)
      BY <1>2, <1>3, <3>1 DEF Returns
    <3> QED BY <1>3, <2>2, <3>2 DEF PromptTurn
  <2>3. CASE /\ \E cs \in Seq(PlainStep) :
                  Returns(<<ClosePrompt>> \o cs, <<x>> \o rest)
             /\ ~promptOpen'
    <3>1. PICK cs \in Seq(PlainStep) :
            Returns(<<ClosePrompt>> \o cs, <<x>> \o rest)
      BY <2>3
    <3>2. Returns(<<ClosePrompt>> \o (cs \o <<x>>), rest)
      BY <1>2, <1>3, <3>1 DEF Returns
    <3> QED BY <1>3, <2>3, <3>2 DEF PromptTurn
  <2>4. CASE /\ \E s \in Session, gs \in SUBSET Group, cs \in Seq(PlainStep) :
                  Returns(<<ProvideInput(s, gs), ClosePrompt>> \o cs,
                          <<x>> \o rest)
             /\ ~promptOpen'
    <3>1. PICK s \in Session, gs \in SUBSET Group, cs \in Seq(PlainStep) :
            Returns(<<ProvideInput(s, gs), ClosePrompt>> \o cs, <<x>> \o rest)
      BY <2>4
    <3>2. Returns(<<ProvideInput(s, gs), ClosePrompt>> \o (cs \o <<x>>), rest)
      BY <1>2, <1>3, <3>1 DEF Returns
    <3> QED BY <1>3, <2>4, <3>2 DEF PromptTurn
  <2> QED BY <2>1, <2>2, <2>3, <2>4 DEF Turn, PromptTurn
<1> QED BY <1>4, <1>5 DEF Turn

\* What an input has the worker do.
LEMMA PlainInputs ==
  /\ Reconcile \in Seq(PlainStep)
  /\ Reconcile \o <<DisconnectActive>> \in Seq(PlainStep)
  /\ \A c \in Config : Reconcile \o <<Select(c)>> \in Seq(PlainStep)
<1>1. /\ ReconcileTeardown \in PlainStep
      /\ ReconcileStatus \in PlainStep
      /\ DisconnectActive \in PlainStep
      /\ \A c \in Config : Select(c) \in PlainStep
  BY DEF PlainStep, InnerStep, PublishOps, AdoptOps, PromptOps, Step,
         ReconcileTeardown, ReconcileStatus, DisconnectActive, Select
<1>2. Reconcile \in Seq(PlainStep)
  BY <1>1, PlainBatches DEF Reconcile
<1> QED BY <1>1, <1>2

\* Input that only queues steps is a turn, too.
LEMMA ReceivesTurn ==
  ASSUME NEW cs \in Seq(PlainStep), cs \in Seq(QuietStep),
         NEW x \in QuietStep, Receives(cs \o <<x>>)
  PROVE  Turn(<<x>>) /\ Steady
<1>1. Returns(cs, <<x>>) /\ UNCHANGED machineVars /\ Hands' = Hands
  BY DEF Receives, Returns, machineVars, Hands
<1>2. <<x>> \in Seq(QuietStep)
  OBVIOUS
<1>3. Turn(<<x>>)
  BY <1>1, <1>2, PlainTurn DEF machineVars
<1> QED BY <1>1, <1>3 DEF machineVars, Steady, TakesNone, KeepsFailure

\* A batch of four, as one of three and its last step.
LEMMA OneByOne ==
  \A a, b, x, y \in QuietStep :
    <<a, b>> \o <<x, y>> = (<<a, b>> \o <<x>>) \o <<y>>
<1> TAKE a, b, x, y \in QuietStep
<1>1. <<x, y>> = <<x>> \o <<y>>
  <2>1. <<x, y>> = Append(<<x>>, y)
    OBVIOUS
  <2>2. Append(<<x>>, y) = <<x>> \o <<y>>
    BY AppendIsConcat
  <2> QED BY <2>1, <2>2
<1>2. \A p, q, r \in Seq(QuietStep) : p \o (q \o r) = (p \o q) \o r
  OBVIOUS
<1>3. <<a, b>> \in Seq(QuietStep) /\ <<x>> \in Seq(QuietStep)
      /\ <<y>> \in Seq(QuietStep)
  OBVIOUS
<1>4. <<a, b>> \o (<<x>> \o <<y>>) = (<<a, b>> \o <<x>>) \o <<y>>
  BY <1>2, <1>3
<1> QED BY <1>1, <1>4

\* The worker publishes after every command of the panel.
LEMMA UiTurns ==
  ASSUME IInv, Ui
  PROVE  Turn(<<Publish>>) /\ TakesNone
<1>1. /\ Publish \in QuietStep
      /\ ReconcileTeardown \in QuietStep
      /\ ReconcileStatus \in QuietStep
      /\ DisconnectActive \in QuietStep
      /\ \A c \in Config : Select(c) \in QuietStep
  BY DEF QuietStep, Step, StartOps, Publish, ReconcileTeardown,
         ReconcileStatus, DisconnectActive, Select
<1>2. /\ Reconcile \in Seq(QuietStep)
      /\ Reconcile \o <<DisconnectActive>> \in Seq(QuietStep)
      /\ \A c \in Config : Reconcile \o <<Select(c)>> \in Seq(QuietStep)
  BY <1>1, ShortBatches DEF Reconcile
<1>3. ASSUME NEW c \in Config, UiSelectProfile(c)
      PROVE  Turn(<<Publish>>) /\ TakesNone
  <2>1. Reconcile \o <<Select(c), Publish>>
          = (Reconcile \o <<Select(c)>>) \o <<Publish>>
    BY <1>1, OneByOne DEF Reconcile
  <2>2. Receives((Reconcile \o <<Select(c)>>) \o <<Publish>>)
    BY <1>3, <2>1 DEF UiSelectProfile
  <2>3. /\ Reconcile \o <<Select(c)>> \in Seq(PlainStep)
        /\ Reconcile \o <<Select(c)>> \in Seq(QuietStep)
    BY <1>2, PlainInputs
  <2> QED BY <1>1, <2>2, <2>3, ReceivesTurn DEF Steady
<1>4. CASE UiDisconnect
  <2>1. Reconcile \o <<DisconnectActive, Publish>>
          = (Reconcile \o <<DisconnectActive>>) \o <<Publish>>
    BY <1>1, OneByOne DEF Reconcile
  <2>2. Receives((Reconcile \o <<DisconnectActive>>) \o <<Publish>>)
    BY <1>4, <2>1 DEF UiDisconnect
  <2>3. /\ Reconcile \o <<DisconnectActive>> \in Seq(PlainStep)
        /\ Reconcile \o <<DisconnectActive>> \in Seq(QuietStep)
    BY <1>2, PlainInputs
  <2> QED BY <1>1, <2>2, <2>3, ReceivesTurn DEF Steady
<1>5. CASE UiRefresh
  BY <1>1, <1>2, <1>5, PlainInputs, ReceivesTurn DEF UiRefresh, Steady
<1>6. CASE UiManageProfiles
  <2>1. <<Publish>> = <<>> \o <<Publish>>
    OBVIOUS
  <2> QED BY <1>1, <1>6, <2>1, PlainBatches, QuietBatches, ReceivesTurn
          DEF UiManageProfiles, Steady
<1>7. CASE UiDismissFailure
  BY <1>7, Parts, QuietInputs, ChangingTurns DEF UiDismissFailure
<1>8. ASSUME NEW answers \in SUBSET Supported, UiSubmitPrompt(answers)
      PROVE  Turn(<<Publish>>) /\ TakesNone
  <2>1. CASE prompt = None
    BY <1>8, <2>1, QuietInputs, IgnoredTurn DEF UiSubmitPrompt, Steady
  <2>2. CASE prompt # None
    <3>1. prompt.session \in Session /\ answers \in SUBSET Group
      BY <2>2, Parts, ObjectsAssumption DEF PanelOK, Prompt
    <3> QED BY <1>8, <2>2, <3>1, Parts, QuietInputs, SteadyTurns
            DEF UiSubmitPrompt, Steady
  <2> QED BY <2>1, <2>2
<1>9. CASE UiCancelPrompt
  <2>1. CASE prompt = None
    BY <1>9, <2>1, QuietInputs, IgnoredTurn DEF UiCancelPrompt, Steady
  <2>2. CASE prompt # None
    <3>1. prompt.session \in Session
      BY <2>2, Parts DEF PanelOK, Prompt
    <3> QED BY <1>9, <2>2, <3>1, Parts, QuietInputs, SteadyTurns
            DEF UiCancelPrompt
  <2> QED BY <2>1, <2>2
<1> QED BY <1>3, <1>4, <1>5, <1>6, <1>7, <1>8, <1>9 DEF Ui

\* And after every signal; none takes a failure away.
LEMMA SignalTurns ==
  ASSUME IInv, Signal
  PROVE  Turn(<<Publish>>) /\ Steady
<1>1. ASSUME NEW s \in Session, ReceiveStatus(s)
      PROVE  Turn(<<Publish>>) /\ Steady
  <2>1. /\ statusQ[s] \in Seq(StatusClass) /\ statusQ[s] # <<>>
        /\ StatusChanged(s, Head(statusQ[s]), <<Publish>>)
    BY <1>1, Parts DEF BusOK, Openvpn3TypeOK, ReceiveStatus
  <2>2. Head(statusQ[s]) \in StatusClass
    BY <2>1
  <2> QED BY <2>1, <2>2, Parts, QuietInputs, SteadyTurns
<1>2. ASSUME NEW s \in Session, ReceiveAttention(s)
      PROVE  Turn(<<Publish>>) /\ Steady
  <2>1. {Head(attentionQ[s])} \cap Recognised \in SUBSET Group
    BY ObjectsAssumption
  <2> QED BY <1>2, <2>1, Parts, QuietInputs, SteadyTurns DEF ReceiveAttention
<1>3. CASE ReceiveRemoved
  <2>1. removedQ \in Seq(Session) /\ removedQ # <<>>
    BY <1>3, Parts DEF BusOK, Openvpn3TypeOK, ReceiveRemoved
  <2>2. Head(removedQ) \in Session
    BY <2>1
  <2> QED BY <1>3, <2>2, Parts, QuietInputs, SteadyTurns
          DEF ReceiveRemoved, Steady
<1> QED BY <1>1, <1>2, <1>3 DEF Signal

\* A tick compares with the state it finds.
LEMMA SettleTurns ==
  ASSUME IInv, Settle
  PROVE  Turn(<<PublishIfNot(state)>>) /\ Steady
<1>1. PublishIfNot(state) \in QuietStep
  BY Parts DEF Before, MachineTypeOK, QuietStep, Step, StartOps, PublishIfNot
<1>2. Reconcile \in Seq(QuietStep)
  BY DEF Reconcile, QuietStep, Step, StartOps, ReconcileTeardown,
         ReconcileStatus
<1> QED BY <1>1, <1>2, PlainInputs, ReceivesTurn DEF Settle

\* A step that is replaced by the handling of its answer is one, too.
LEMMA AnswerTurn ==
  ASSUME NEW x \in PlainStep, x.op \notin StartOps, NEW rest \in Seq(QuietStep),
         Returns(<<x>>, rest), UNCHANGED machineVars
  PROVE  Turn(rest) /\ Steady
<1>1. Head(todo') = x
  BY DEF Returns
<1>2. ~Doing("NewTunnel")' /\ ~Doing("Created")'
  BY <1>1 DEF Doing, StartOps
<1>3. <<x>> \in Seq(PlainStep)
  BY PlainBatches
<1>4. PromptTurn(rest)
  BY <1>3 DEF PromptTurn, machineVars, Hands
<1>5. Turn(rest)
  BY <1>2, <1>3, <1>4, PlainBatches DEF Turn
<1> QED BY <1>5 DEF machineVars, Steady, TakesNone, KeepsFailure

\* A session has been found whose status is to be looked at.
FindsOne ==
  /\ Doing("Adopt")
  /\ UNCHANGED machineVars
  /\ \E s \in Session :
       Exists(s) /\ Returns(<<AdoptAs(s, real[s])>>, Rest)

\* Every step of the worker but two is a turn in front of what is left.
LEMMA WorkTurns ==
  ASSUME IInv, Work
  PROVE  /\ todo # <<>>
         /\ Turn(Rest) \/ FindsOne \/ TunnelStarts
         /\ Head(todo).op \notin {"AdoptAs", "Created", "Select"} => Steady
<1> DEFINE Shown ==
      /\ Turn(Rest) \/ FindsOne \/ TunnelStarts
      /\ Head(todo).op \notin {"AdoptAs", "Created", "Select"} => Steady
<1>1. todo # <<>>
  BY DEF Work, Call, AdoptExisting, AdoptStatusRead, SubscribeSession,
     WatchSessionManager, TunnelCreated, ExecEnableLogForward, ExecConnect,
     ExecDisconnect, ExecOpenPrompt, ExecClosePrompt, ExecProvideInput,
     ExecNote, ExecCheckReady, ExecAskQueue, ExecReconcileTeardown,
     ExecReconcileStatus, HandleStatusRead, ExecNewTunnel, TunnelStarts,
     TunnelRefused, ExecPublish, ExecPublishIfNot, ExecSelect,
     ExecDisconnectActive, Doing
<1>2. Rest \in Seq(QuietStep) /\ Before
  BY <1>1, RestIsQuiet, Parts
<1>3. Ignored(Rest) => Shown
  BY <1>2, IgnoredTurn
<1>4. Done /\ UNCHANGED machineVars => Shown
  BY <1>2, <1>3 DEF Ignored, Returns, Done
<1>5. CASE \/ SubscribeSession \/ WatchSessionManager
           \/ ExecEnableLogForward \/ ExecConnect \/ ExecDisconnect
           \/ ExecOpenPrompt \/ ExecClosePrompt \/ ExecProvideInput
           \/ ExecNote \/ ExecPublish \/ ExecPublishIfNot
  BY <1>1, <1>4, <1>5
     DEF SubscribeSession, WatchSessionManager, ExecEnableLogForward,
         ExecConnect, ExecDisconnect, ExecOpenPrompt, ExecClosePrompt,
         ExecProvideInput, ExecNote, ExecPublish, ExecPublishIfNot
<1>6. CASE AdoptExisting
  <2>1. CASE Done
    BY <1>1, <1>4, <1>6, <2>1 DEF AdoptExisting
  <2>2. CASE ~Done
    <3>1. FindsOne
      BY <1>6, <2>2 DEF AdoptExisting, FindsOne
    <3>2. Steady
      BY <3>1 DEF FindsOne, machineVars, Steady, TakesNone, KeepsFailure
    <3> QED BY <1>1, <3>1, <3>2
  <2> QED BY <2>1, <2>2
<1>7. CASE AdoptStatusRead
  <2> DEFINE s == Head(todo).session
  <2>1. /\ s \in Session /\ Head(todo).status \in StatusClass
        /\ Head(todo).op = "AdoptAs"
    BY <1>1, <1>7, HeadTypes, Parts DEF AdoptStatusRead, Doing
  <2>2. SubscribeTo(s) \in PlainStep /\ SubscribeTo(s) \in QuietStep
    BY <2>1 DEF SubscribeTo, QuietStep, StartOps, PlainStep, InnerStep, Step,
       PublishOps, AdoptOps, PromptOps
  <2>3. <<SubscribeTo(s)>> \o Rest \in Seq(QuietStep)
    BY <1>2, <2>2
  <2>4. Turn(<<SubscribeTo(s)>> \o Rest)
    BY <1>2, <1>7, <2>1, <2>3, ChangingTurns DEF AdoptStatusRead
  <2>5. Turn(Rest)
    BY <1>2, <2>2, <2>4, TurnMore
  <2> QED BY <1>1, <2>1, <2>5
<1>8. CASE TunnelCreated
  <2>1. Head(todo).session \in Session /\ Head(todo).op = "Created"
    BY <1>1, <1>8, HeadTypes, Parts DEF TunnelCreated, Doing
  <2>2. Hands = {}
    <3>1. 1 \in 1..Len(todo) /\ Head(todo) = todo[1]
      BY <1>1, Parts
    <3> QED BY <2>1, <3>1, Parts DEF StartsAlone, StartOps, Hands
  <2>3. Turn(Rest)
    BY <1>2, <1>8, <2>1, <2>2, ChangingTurns DEF TunnelCreated
  <2> QED BY <1>1, <2>1, <2>3
<1>9. CASE ExecNewTunnel
  <2>1. TunnelStarts => Steady
    BY DEF TunnelStarts, machineVars, Steady, TakesNone, KeepsFailure
  <2> QED BY <1>1, <1>4, <1>9, <2>1 DEF ExecNewTunnel, TunnelRefused
<1>10. CASE ExecCheckReady
  <2> DEFINE s == Head(todo).session
  <2>1. s \in Session
    BY <1>1, <1>10, HeadTypes, Parts DEF ExecCheckReady, Doing
  <2>2. AskQueue(s) \in PlainStep /\ AskQueue(s).op \notin StartOps
    BY <2>1 DEF AskQueue, StartOps, PlainStep, InnerStep, Step, PublishOps,
       AdoptOps, PromptOps
  <2>3. SessionReady(s, Rest) => Turn(Rest) /\ Steady
    BY <1>2, <2>1, SteadyTurns DEF Steady
  <2>4. Returns(<<AskQueue(s)>>, Rest) /\ UNCHANGED machineVars
          => Turn(Rest) /\ Steady
    BY <1>2, <2>2, AnswerTurn
  <2> QED BY <1>1, <1>3, <1>10, <2>3, <2>4 DEF ExecCheckReady
<1>11. CASE ExecAskQueue
  <2>1. Head(todo).session \in Session
    BY <1>1, <1>11, HeadTypes, Parts DEF ExecAskQueue, Doing
  <2>2. asks[Head(todo).session] \cap Recognised \in SUBSET Group
    BY ObjectsAssumption
  <2> QED BY <1>1, <1>2, <1>3, <1>11, <2>1, <2>2, SteadyTurns DEF ExecAskQueue
<1>12. CASE ExecReconcileTeardown
  <2>1. awaitingTeardown \in Session \cup {None}
    BY Parts DEF Before, MachineTypeOK
  <2>2. awaitingTeardown # None /\ SessionRemoved(awaitingTeardown, Rest)
          => Turn(Rest) /\ Steady
    BY <1>2, <2>1, SteadyTurns DEF Steady
  <2> QED BY <1>1, <1>3, <1>12, <2>2 DEF ExecReconcileTeardown
<1>13. CASE ExecReconcileStatus
  <2>1. ASSUME active # None, Exists(active),
               Returns(<<StatusRead(active, real[active])>>, Rest)
        PROVE  Turn(Rest) /\ Steady
    <3>1. active \in Session /\ real[active] \in StatusClass
      BY <2>1, Parts
         DEF Before, MachineTypeOK, BusOK, Openvpn3TypeOK, Exists
    <3>2. /\ StatusRead(active, real[active]) \in PlainStep
          /\ StatusRead(active, real[active]).op \notin StartOps
      BY <3>1 DEF StatusRead, StartOps, PlainStep, InnerStep, Step, PublishOps,
         AdoptOps, PromptOps
    <3> QED BY <1>2, <1>13, <2>1, <3>2, AnswerTurn DEF ExecReconcileStatus
  <2> QED BY <1>1, <1>4, <1>13, <2>1 DEF ExecReconcileStatus
<1>14. CASE HandleStatusRead
  <2>1. Head(todo).session \in Session /\ Head(todo).status \in StatusClass
    BY <1>1, <1>14, HeadTypes, Parts DEF HandleStatusRead, Doing
  <2> QED BY <1>1, <1>2, <1>14, <2>1, SteadyTurns DEF HandleStatusRead
<1>15. CASE ExecSelect
  <2>1. Head(todo).config \in Config /\ Head(todo).op = "Select"
    BY <1>1, <1>15, HeadTypes, Parts DEF ExecSelect, Doing
  <2> QED BY <1>1, <1>2, <1>15, <2>1, ChangingTurns DEF ExecSelect
<1>16. CASE ExecDisconnectActive
  BY <1>1, <1>2, <1>16, ChangingTurns DEF ExecDisconnectActive
<1> QED BY <1>5, <1>6, <1>7, <1>8, <1>9, <1>10, <1>11, <1>12, <1>13, <1>14,
           <1>15, <1>16 DEF Work, Call

-----------------------------------------------------------------------------
(* The snapshot shown *)

\* ShownStateIsCurrent needs it: the last step, and no other, publishes, and
\* a tick that may publish nothing remembers the state that is shown.
ShownLast ==
  IF todo = <<>>
    THEN shown.state = state
    ELSE /\ todo[Len(todo)].op \in PublishOps
         /\ todo[Len(todo)].op = "PublishIfNot" =>
              shown.state = todo[Len(todo)].state
         /\ \A i \in 1..Len(todo) - 1 : todo[i].op \notin PublishOps

\* The steps that publish nothing.
Unpublished == {x \in Step : x.op \notin PublishOps}

\* A batch in front of the last step preserves it.
LEMMA ShownOnTurn ==
  ASSUME NEW cs \in Seq(Unpublished), NEW x \in Step, Returns(cs, <<x>>),
         x.op \in PublishOps, x.op = "PublishIfNot" => shown'.state = x.state
  PROVE  ShownLast'
<1>1. /\ todo' # <<>>
      /\ Len(todo') = Len(cs) + 1
      /\ todo'[Len(todo')] = x
      /\ \A i \in 1..Len(cs) : todo'[i] = cs[i]
  BY DEF Returns
<1>2. \A i \in 1..Len(cs) : cs[i].op \notin PublishOps
  BY DEF Unpublished
<1>3. Len(todo') - 1 = Len(cs)
  BY <1>1
<1> QED BY <1>1, <1>2, <1>3 DEF ShownLast

\* So does one in front of what is left, when the next step is not the last.
LEMMA ShownOnWork ==
  ASSUME todo \in Seq(Step), todo # <<>>, ShownLast, shown' = shown,
         Head(todo).op \notin PublishOps, NEW cs \in Seq(Unpublished),
         Returns(cs, Rest)
  PROVE  ShownLast'
<1> DEFINE n == Len(Rest)
<1>1. Rest \in Seq(Step) /\ n \in Nat /\ Len(todo) = n + 1
  BY DEF Rest
<1>2. \A i \in 1..n : Rest[i] = todo[i + 1]
  BY DEF Rest
<1>3. n > 0
  <2>1. Len(todo) # 1
    BY DEF ShownLast
  <2> QED BY <1>1, <2>1
<1>4. Rest[n] = todo[Len(todo)]
  BY <1>1, <1>2, <1>3
<1>5. \A i \in 1..n - 1 : Rest[i].op \notin PublishOps
  <2> TAKE i \in 1..n - 1
  <2>1. i + 1 \in 1..Len(todo) - 1 /\ Rest[i] = todo[i + 1]
    BY <1>1, <1>2
  <2> QED BY <2>1 DEF ShownLast
<1>6. \A i \in 1..Len(cs) : cs[i].op \notin PublishOps
  BY DEF Unpublished
<1>7. cs \in Seq(Step) /\ Len(cs) \in Nat
  BY DEF Unpublished
<1>8. /\ Len(todo') = Len(cs) + n
      /\ \A i \in 1..Len(todo') :
           todo'[i] = IF i <= Len(cs) THEN cs[i] ELSE Rest[i - Len(cs)]
  BY <1>1, <1>7, ConcatProperties DEF Returns
<1>9. todo' # <<>> /\ todo'[Len(todo')] = Rest[n]
  BY <1>1, <1>3, <1>7, <1>8
<1>10. \A i \in 1..Len(todo') - 1 : todo'[i].op \notin PublishOps
  <2> TAKE i \in 1..Len(todo') - 1
  <2>1. CASE i <= Len(cs)
    BY <1>6, <1>7, <1>8, <2>1
  <2>2. CASE i > Len(cs)
    <3>1. i - Len(cs) \in 1..n - 1 /\ todo'[i] = Rest[i - Len(cs)]
      BY <1>1, <1>7, <1>8, <2>2
    <3> QED BY <1>5, <3>1
  <2> QED BY <1>7, <1>8, <2>1, <2>2
<1> QED BY <1>4, <1>9, <1>10 DEF ShownLast

\* A step that does not publish is replaced by others that do not.
LEMMA WorkReturns ==
  ASSUME IInv, Work, Head(todo).op \notin PublishOps
  PROVE  \E cs \in Seq(Unpublished) : Returns(cs, Rest)
<1>1. CASE Turn(Rest)
  <2>1. InnerStep \subseteq Unpublished
    BY DEF InnerStep, Unpublished
  <2>2. Seq(InnerStep) \subseteq Seq(Unpublished)
    BY <2>1
  <2> QED BY <1>1, <2>2 DEF Turn
<1>2. CASE FindsOne
  <2>1. PICK s \in Session :
          Exists(s) /\ Returns(<<AdoptAs(s, real[s])>>, Rest)
    BY <1>2 DEF FindsOne
  <2>2. real[s] \in StatusClass
    BY <2>1, Parts DEF BusOK, Openvpn3TypeOK, Exists
  <2>3. AdoptAs(s, real[s]) \in Unpublished
    BY <2>2 DEF AdoptAs, Unpublished, Step, PublishOps
  <2>4. <<AdoptAs(s, real[s])>> \in Seq(Unpublished)
    BY <2>3
  <2> QED BY <2>1, <2>4
<1>3. CASE TunnelStarts
  <2>1. PICK s \in Session : Returns(<<Created(s)>>, Rest)
    BY <1>3 DEF TunnelStarts
  <2>2. Created(s) \in Unpublished
    BY DEF Created, Unpublished, Step, PublishOps
  <2>3. <<Created(s)>> \in Seq(Unpublished)
    BY <2>2
  <2> QED BY <2>1, <2>3
<1> QED BY <1>1, <1>2, <1>3, WorkTurns

\* A step that publishes is the last.
LEMMA PublishesLast ==
  ASSUME IInv, ShownLast, Work, Head(todo).op \in PublishOps
  PROVE  /\ ExecPublish \/ ExecPublishIfNot
         /\ todo = <<Head(todo)>> /\ todo' = <<>>
<1>1. todo # <<>> /\ todo \in Seq(Step) /\ Head(todo) = todo[1]
  BY WorkTurns, Parts
<1>2. Len(todo) = 1
  <2>1. PICK n \in Nat : n = Len(todo) /\ n # 0
    BY <1>1
  <2>2. 1 \notin 1..n - 1
    BY <1>1, <2>1 DEF ShownLast
  <2>3. n = 1
    BY <2>1, <2>2
  <2> QED BY <2>1, <2>3
<1>3. ExecPublish \/ ExecPublishIfNot
  BY DEF Work, Call, AdoptExisting, AdoptStatusRead, SubscribeSession,
         WatchSessionManager, TunnelCreated, ExecEnableLogForward,
         ExecConnect, ExecDisconnect, ExecOpenPrompt, ExecClosePrompt,
         ExecProvideInput, ExecNote, ExecCheckReady, ExecAskQueue,
         ExecReconcileTeardown, ExecReconcileStatus, HandleStatusRead,
         ExecNewTunnel, TunnelStarts, TunnelRefused, ExecSelect,
         ExecDisconnectActive, Doing, PublishOps
<1>4. todo' = <<>>
  BY <1>1, <1>2, <1>3 DEF ExecPublish, ExecPublishIfNot, Done, Rest
<1>5. todo = <<Head(todo)>>
  BY <1>1, <1>2
<1> QED BY <1>3, <1>4, <1>5

\* Every step preserves it.
LEMMA ShownNext == IInv /\ ShownLast /\ [Next]_vars => ShownLast'
<1> SUFFICES ASSUME IInv, ShownLast, [Next]_vars PROVE ShownLast'
  OBVIOUS
<1>1. /\ Seq(InnerStep) \subseteq Seq(Unpublished)
      /\ Publish \in Step /\ Publish.op = "Publish"
      /\ \A x \in ConnectionState :
           /\ PublishIfNot(x) \in Step
           /\ PublishIfNot(x).op = "PublishIfNot"
           /\ PublishIfNot(x).state = x
  <2>1. InnerStep \subseteq Unpublished
    BY DEF InnerStep, Unpublished
  <2> QED BY <2>1 DEF Publish, PublishIfNot, Step
<1>2. CASE Ui \/ Signal
  <2>1. Turn(<<Publish>>)
    BY <1>2, UiTurns, SignalTurns
  <2> QED BY <1>1, <2>1, ShownOnTurn DEF Turn, PublishOps
<1>3. CASE Settle
  <2>1. state \in ConnectionState
    BY Parts DEF Before, MachineTypeOK
  <2>2. Turn(<<PublishIfNot(state)>>)
    BY <1>3, SettleTurns
  <2>3. shown'.state = state
    BY <1>3 DEF Settle, Receives, Idle, ShownLast
  <2> DEFINE x == PublishIfNot(state)
  <2>4. PICK cs \in Seq(Unpublished) : Returns(cs, <<x>>)
    BY <1>1, <2>2 DEF Turn
  <2>5. x \in Step /\ x.op \in PublishOps /\ shown'.state = x.state
    BY <1>1, <2>1, <2>3 DEF PublishOps
  <2> HIDE DEF x
  <2> QED BY <2>4, <2>5, ShownOnTurn
<1>4. CASE Work /\ Head(todo).op \in PublishOps
  <2>1. /\ ExecPublish \/ ExecPublishIfNot
        /\ Len(todo) = 1 /\ todo[1] = Head(todo) /\ todo' = <<>>
    BY <1>4, PublishesLast
  <2>2. shown'.state = state /\ state' = state
    BY <2>1
       DEF ExecPublish, ExecPublishIfNot, Snapshot, ShownLast, Doing,
           machineVars
  <2> QED BY <2>1, <2>2 DEF ShownLast
<1>5. CASE Work /\ Head(todo).op \notin PublishOps
  <2>1. todo # <<>> /\ todo \in Seq(Step) /\ shown' = shown
    BY <1>5, WorkTurns, Parts
       DEF Work, Call, AdoptExisting, AdoptStatusRead, SubscribeSession,
           WatchSessionManager, TunnelCreated, ExecEnableLogForward,
           ExecConnect, ExecDisconnect, ExecOpenPrompt, ExecClosePrompt,
           ExecProvideInput, ExecNote, ExecCheckReady, ExecAskQueue,
           ExecReconcileTeardown, ExecReconcileStatus, HandleStatusRead,
           ExecNewTunnel, TunnelStarts, TunnelRefused, ExecSelect,
           ExecDisconnectActive, ExecPublish, ExecPublishIfNot, Doing,
           PublishOps
  <2> QED BY <1>5, <2>1, WorkReturns, ShownOnWork
<1>6. CASE Service \/ UNCHANGED vars
  BY <1>6 DEF Service, vars, machineVars, ShownLast
<1> QED BY <1>2, <1>3, <1>4, <1>5, <1>6 DEF Next

\* At first the worker has a snapshot to publish.
LEMMA ShownInit == Init => ShownLast
BY DEF Init, ShownLast, Adopt, WatchManager, Publish, PublishOps

\* The panel shows the Machine's state whenever the worker is idle, also after
\* the ticks that publish nothing.
THEOREM ShownIsCurrent == Spec => []ShownStateIsCurrent
<1>1. ShownLast => ShownStateIsCurrent
  BY DEF ShownLast, ShownStateIsCurrent, Idle
<1> QED BY <1>1, ShownInit, ShownNext, Invariance, PTL DEF Spec

-----------------------------------------------------------------------------
(* The prompt on offer *)

\* A prompt has a field only for what the applet supports.
Answerable == prompt # None => prompt.fields \subseteq Supported

\* PromptOpenIsBacked needs it: a prompt is opened or closed right after the
\* Machine has noted it so, and an open one is on offer for a session in hand.
\* What the panel can be asked to draw follows, too.
PromptLives ==
  /\ \A i \in 1..Len(todo) :
       /\ todo[i].op = "OpenPrompt" =>
            /\ i = 1 /\ promptOpen /\ todo[i].session \in Hands
            /\ todo[i].groups \subseteq Supported
       /\ todo[i].op = "ClosePrompt" =>
            ~promptOpen /\ (i = 1 \/ (i = 2 /\ todo[1].op = "ProvideInput"))
  /\ promptOpen /\ ~Doing("OpenPrompt") =>
       prompt # None /\ prompt.session \in Hands
  /\ Answerable

\* The steps that leave the prompt alone.
Unprompting == {x \in Step : x.op \notin PromptOps}

\* With only such steps to do, an open prompt is on offer.
LEMMA NoPromptWork ==
  ASSUME todo \in Seq(Unprompting),
         promptOpen => prompt # None /\ prompt.session \in Hands, Answerable
  PROVE  PromptLives
<1>1. \A i \in 1..Len(todo) : todo[i] \in Unprompting
  OBVIOUS
<1> QED BY <1>1 DEF PromptLives, Unprompting, PromptOps

\* A batch that begins with a step of its own.
LEMMA FirstThen ==
  ASSUME NEW x, NEW q \in Seq(Unprompting), NEW t, t = <<x>> \o q
  PROVE  /\ t # <<>> /\ t[1] = x /\ Head(t) = x
         /\ \A i \in 1..Len(t) : i # 1 => t[i] \in Unprompting
OBVIOUS

\* A turn preserves it.
LEMMA PromptOnTurn ==
  ASSUME NEW rest \in Seq(Unprompting), PromptTurn(rest), prompt' = prompt,
         promptOpen => prompt # None /\ prompt.session \in Hands, Answerable
  PROVE  PromptLives'
<1>6. Answerable'
  BY DEF Answerable
<1>1. \A cs \in Seq(PlainStep) : cs \o rest \in Seq(Unprompting)
  <2>1. PlainStep \subseteq Unprompting
    BY DEF PlainStep, InnerStep, Unprompting
  <2> QED BY <2>1
<1>2. CASE /\ \E cs \in Seq(PlainStep) : Returns(cs, rest)
           /\ promptOpen' => promptOpen /\ Hands \subseteq Hands'
  <2>1. todo' \in Seq(Unprompting)
    BY <1>1, <1>2 DEF Returns
  <2>2. \A i \in 1..Len(todo') : todo'[i] \in Unprompting
    BY <2>1
  <2> QED BY <1>2, <1>6, <2>2 DEF PromptLives, Unprompting, PromptOps
<1>3. ASSUME NEW s \in Hands', NEW gs \in SUBSET Supported,
             NEW cs \in Seq(PlainStep),
             Returns(<<OpenPrompt(s, gs)>> \o cs, rest), promptOpen'
      PROVE  PromptLives'
  <2>1. todo' = <<OpenPrompt(s, gs)>> \o (cs \o rest)
    BY <1>3 DEF Returns, Unprompting, PlainStep, InnerStep
  <2>2. /\ todo' # <<>> /\ todo'[1] = OpenPrompt(s, gs)
        /\ Head(todo') = OpenPrompt(s, gs)
        /\ \A i \in 1..Len(todo') : i # 1 => todo'[i] \in Unprompting
    BY <1>1, <2>1, FirstThen
  <2>3. Doing("OpenPrompt")'
    BY <2>2 DEF Doing, OpenPrompt
  <2> QED BY <1>3, <1>6, <2>2, <2>3
          DEF PromptLives, OpenPrompt, Unprompting, PromptOps
<1>4. ASSUME NEW cs \in Seq(PlainStep), Returns(<<ClosePrompt>> \o cs, rest),
             ~promptOpen'
      PROVE  PromptLives'
  <2>1. todo' = <<ClosePrompt>> \o (cs \o rest)
    BY <1>4 DEF Returns, Unprompting, PlainStep, InnerStep
  <2>2. /\ todo'[1] = ClosePrompt
        /\ \A i \in 1..Len(todo') : i # 1 => todo'[i] \in Unprompting
    BY <1>1, <2>1, FirstThen
  <2> QED BY <1>4, <1>6, <2>2 DEF PromptLives, ClosePrompt, Unprompting, PromptOps
<1>5. ASSUME NEW s \in Session, NEW gs \in SUBSET Group,
             NEW cs \in Seq(PlainStep),
             Returns(<<ProvideInput(s, gs), ClosePrompt>> \o cs, rest),
             ~promptOpen'
      PROVE  PromptLives'
  <2> DEFINE q == cs \o rest
  <2>1. todo' = <<ProvideInput(s, gs), ClosePrompt>> \o q
    BY <1>5 DEF Returns, Unprompting, PlainStep, InnerStep
  <2>2. q \in Seq(Unprompting)
    BY <1>1
  <2> HIDE DEF q
  <2>3. /\ todo'[1] = ProvideInput(s, gs) /\ todo'[2] = ClosePrompt
        /\ \A i \in 1..Len(todo') : i \notin 1..2 => todo'[i] \in Unprompting
    BY <2>1, <2>2
  <2> QED BY <1>5, <1>6, <2>3
          DEF PromptLives, ProvideInput, ClosePrompt, Unprompting, PromptOps
<1> QED BY <1>2, <1>3, <1>4, <1>5 DEF PromptTurn

\* What is left leaves the prompt alone, unless it is the closing that follows
\* the answers.
LEMMA PromptOfRest ==
  ASSUME todo \in Seq(Step), todo # <<>>, PromptLives
  PROVE  /\ Head(todo).op # "ProvideInput" => Rest \in Seq(Unprompting)
         /\ \A i \in 1..Len(Rest) :
              /\ Rest[i].op # "OpenPrompt"
              /\ Rest[i].op = "ClosePrompt" => i = 1 /\ ~promptOpen
<1>1. Rest \in Seq(Step) /\ Head(todo) = todo[1]
  BY DEF Rest
<1>2. \A i \in 1..Len(Rest) : Rest[i] = todo[i + 1] /\ i + 1 \in 1..Len(todo)
  BY DEF Rest
<1>3. \A i \in 1..Len(Rest) :
        /\ Rest[i].op # "OpenPrompt"
        /\ Rest[i].op = "ClosePrompt" =>
             i = 1 /\ ~promptOpen /\ Head(todo).op = "ProvideInput"
  BY <1>1, <1>2 DEF PromptLives
<1>4. ASSUME Head(todo).op # "ProvideInput"
      PROVE  Rest \in Seq(Unprompting)
  <2>1. \A i \in 1..Len(Rest) : Rest[i] \in Unprompting
    BY <1>1, <1>3, <1>4 DEF Unprompting, PromptOps
  <2> QED BY <1>1, <2>1
<1> QED BY <1>3, <1>4

\* The calls that open and close the prompt preserve it, and so does the one
\* that provides the answers.
LEMMA PromptCalls ==
  ASSUME IInv, PromptLives,
         ExecOpenPrompt \/ ExecClosePrompt \/ ExecProvideInput
  PROVE  PromptLives'
<1>1. /\ todo \in Seq(Step) /\ todo # <<>> /\ todo' = Rest
      /\ UNCHANGED machineVars /\ Head(todo) = todo[1] /\ 1 \in 1..Len(todo)
  BY Parts DEF ExecOpenPrompt, ExecClosePrompt, ExecProvideInput, Doing, Done
<1>2. Hands' = Hands /\ promptOpen' = promptOpen
  BY <1>1 DEF machineVars, Hands
<1>3. CASE ExecOpenPrompt
  <2>1. Head(todo).op = "OpenPrompt" /\ Head(todo).session \in Hands
    BY <1>1, <1>3 DEF ExecOpenPrompt, Doing, PromptLives
  <2>2. /\ prompt'.session \in Hands
        /\ prompt' \in [session : Session, fields : SUBSET Group]
        /\ prompt'.fields \subseteq Supported
    <3>1. /\ Head(todo).session \in Session /\ Head(todo).groups \in SUBSET Group
          /\ Head(todo).groups \subseteq Supported
      BY <1>1, <2>1, HeadTypes DEF PromptLives
    <3> QED BY <1>3, <2>1, <3>1 DEF ExecOpenPrompt, Drained
  <2>3. Rest \in Seq(Unprompting)
    BY <1>1, <2>1, PromptOfRest
  <2>4. \A i \in 1..Len(Rest) : Rest[i] \in Unprompting
    BY <2>3
  <2>5. prompt' # None
    BY <2>2, WorkerAssumption
  <2> QED BY <1>1, <1>2, <2>2, <2>4, <2>5
          DEF PromptLives, Unprompting, PromptOps, Answerable
<1>4. CASE ExecClosePrompt
  <2>1. Head(todo).op = "ClosePrompt" /\ ~promptOpen
    BY <1>1, <1>4 DEF ExecClosePrompt, Doing, PromptLives
  <2>2. Rest \in Seq(Unprompting)
    BY <1>1, <2>1, PromptOfRest
  <2>3. \A i \in 1..Len(Rest) : Rest[i] \in Unprompting
    BY <2>2
  <2>4. Answerable'
    BY <1>4 DEF ExecClosePrompt, Answerable
  <2> QED BY <1>1, <1>2, <2>1, <2>3, <2>4
          DEF PromptLives, Unprompting, PromptOps
<1>5. CASE ExecProvideInput
  <2>1. Head(todo).op = "ProvideInput" /\ prompt' = prompt
    BY <1>5 DEF ExecProvideInput, Doing
  <2>2. ~Doing("OpenPrompt")
    BY <2>1 DEF Doing
  <2> QED BY <1>1, <1>2, <2>1, <2>2, PromptOfRest DEF PromptLives, Answerable
<1> QED BY <1>3, <1>4, <1>5

\* A batch of them in front of what is left, with the Machine as it was.
LEMMA PromptLeftAlone ==
  ASSUME NEW x \in Unprompting, NEW rest \in Seq(Unprompting),
         Returns(<<x>>, rest), UNCHANGED machineVars, prompt' = prompt,
         promptOpen => prompt # None /\ prompt.session \in Hands, Answerable
  PROVE  PromptLives'
<1>1. \A i \in 1..Len(todo') : todo'[i] \in Unprompting
  BY DEF Returns
<1>2. Hands' = Hands /\ promptOpen' = promptOpen
  BY DEF machineVars, Hands
<1> QED BY <1>1, <1>2 DEF PromptLives, Unprompting, PromptOps, Answerable

\* Every step preserves it.
LEMMA PromptNext == IInv /\ PromptLives /\ [Next]_vars => PromptLives'
<1> SUFFICES ASSUME IInv, PromptLives, [Next]_vars PROVE PromptLives'
  OBVIOUS
<1> DEFINE Backed == promptOpen => prompt # None /\ prompt.session \in Hands
<1>5. Answerable
  BY DEF PromptLives
<1>1. CASE Ui \/ Signal \/ Settle
  <2>1. Idle /\ prompt' = prompt
    BY <1>1
       DEF Ui, Signal, Settle, Receives, UiSelectProfile, UiDisconnect,
           UiRefresh, UiDismissFailure, UiManageProfiles, UiSubmitPrompt,
           UiCancelPrompt, ReceiveStatus, ReceiveAttention, ReceiveRemoved
  <2>2. Backed
    BY <2>1 DEF Idle, PromptLives, Doing
  <2>3. /\ <<Publish>> \in Seq(Unprompting)
        /\ <<PublishIfNot(state)>> \in Seq(Unprompting)
    <3>1. state \in ConnectionState
      BY Parts DEF Before, MachineTypeOK
    <3>2. Publish \in Unprompting /\ PublishIfNot(state) \in Unprompting
      BY <3>1 DEF Publish, PublishIfNot, Unprompting, Step, PromptOps
    <3> QED BY <3>2
  <2>4. PromptTurn(<<Publish>>) \/ PromptTurn(<<PublishIfNot(state)>>)
    BY <1>1, UiTurns, SignalTurns, SettleTurns DEF Turn
  <2> QED BY <1>5, <2>1, <2>2, <2>3, <2>4, PromptOnTurn
<1>2. CASE Work /\ Head(todo).op \in PromptOps \cup {"ProvideInput"}
  <2>1. ExecOpenPrompt \/ ExecClosePrompt \/ ExecProvideInput
    BY <1>2
       DEF Work, Call, AdoptExisting, AdoptStatusRead, SubscribeSession,
           WatchSessionManager, TunnelCreated, ExecEnableLogForward,
           ExecConnect, ExecDisconnect, ExecOpenPrompt, ExecClosePrompt,
           ExecProvideInput, ExecNote, ExecCheckReady, ExecAskQueue,
           ExecReconcileTeardown, ExecReconcileStatus, HandleStatusRead,
           ExecNewTunnel, TunnelStarts, TunnelRefused, ExecSelect,
           ExecDisconnectActive, ExecPublish, ExecPublishIfNot, Doing,
           PromptOps
  <2> QED BY <2>1, PromptCalls
<1>3. CASE Work /\ Head(todo).op \notin PromptOps \cup {"ProvideInput"}
  <2>1. todo # <<>> /\ todo \in Seq(Step) /\ prompt' = prompt
    BY <1>3, WorkTurns, Parts
       DEF Work, Call, AdoptExisting, AdoptStatusRead, SubscribeSession,
           WatchSessionManager, TunnelCreated, ExecEnableLogForward,
           ExecConnect, ExecDisconnect, ExecOpenPrompt, ExecClosePrompt,
           ExecProvideInput, ExecNote, ExecCheckReady, ExecAskQueue,
           ExecReconcileTeardown, ExecReconcileStatus, HandleStatusRead,
           ExecNewTunnel, TunnelStarts, TunnelRefused, ExecSelect,
           ExecDisconnectActive, ExecPublish, ExecPublishIfNot, Doing,
           PromptOps
  <2>2. Rest \in Seq(Unprompting)
    BY <1>3, <2>1, PromptOfRest
  <2>3. Backed
    BY <1>3 DEF PromptLives, Doing, PromptOps
  <2>4. CASE Turn(Rest)
    BY <1>5, <2>1, <2>2, <2>3, <2>4, PromptOnTurn DEF Turn
  <2>5. CASE FindsOne
    <3>1. PICK s \in Session :
            Exists(s) /\ Returns(<<AdoptAs(s, real[s])>>, Rest)
      BY <2>5 DEF FindsOne
    <3>2. real[s] \in StatusClass
      BY <3>1, Parts DEF BusOK, Openvpn3TypeOK, Exists
    <3>3. AdoptAs(s, real[s]) \in Unprompting
      BY <3>2 DEF AdoptAs, Unprompting, Step, PromptOps
    <3> QED BY <1>5, <2>1, <2>2, <2>3, <2>5, <3>1, <3>3, PromptLeftAlone
            DEF FindsOne
  <2>6. CASE TunnelStarts
    <3>1. PICK s \in Session : Returns(<<Created(s)>>, Rest)
      BY <2>6 DEF TunnelStarts
    <3>2. Created(s) \in Unprompting
      BY DEF Created, Unprompting, Step, PromptOps
    <3> QED BY <1>5, <2>1, <2>2, <2>3, <2>6, <3>1, <3>2, PromptLeftAlone
            DEF TunnelStarts
  <2> QED BY <1>3, <2>4, <2>5, <2>6, WorkTurns
<1>4. CASE Service \/ UNCHANGED vars
  BY <1>4 DEF Service, vars, machineVars, PromptLives, Hands, Doing, Answerable
<1> QED BY <1>1, <1>2, <1>3, <1>4 DEF Next

\* No prompt is open at first.
LEMMA PromptInit == Init => PromptLives
BY DEF Init, MachineInit, PromptLives, Answerable, Adopt, WatchManager, Publish

\* When the Machine believes a prompt is open there is one on offer, for a
\* session it has in hand: nobody waits for an answer that was not asked.
THEOREM PromptIsBacked == Spec => []PromptOpenIsBacked
<1>1. PromptLives => PromptOpenIsBacked
  BY DEF PromptLives, PromptOpenIsBacked, Idle, Doing, Hands
<1> QED BY <1>1, PromptInit, PromptNext, Invariance, PTL DEF Spec

-----------------------------------------------------------------------------
(* A failure on display *)

\* FailureStaysVisible needs these two.  A tunnel is started with connecting on
\* display, so that what its creation takes away is no failure; and sessions
\* are looked for only before anything has happened.
StartsConnecting ==
  Doing("NewTunnel") \/ Doing("Created") => state = "Connecting"

FreshAdopts ==
  \A i \in 1..Len(todo) :
    todo[i].op \in AdoptOps =>
      /\ i = 1 /\ active = None /\ awaitingTeardown = None
      /\ pendingTarget = None /\ state = "Disconnected" /\ ~promptOpen

\* Steps that look for no sessions.
Unadopting == {x \in Step : x.op \notin AdoptOps}

\* What is left looks for none.
LEMMA RestAdoptsNone ==
  ASSUME todo \in Seq(Step), todo # <<>>, FreshAdopts
  PROVE  Rest \in Seq(Unadopting)
<1>1. Rest \in Seq(Step)
  BY DEF Rest
<1>2. \A i \in 1..Len(Rest) : Rest[i] = todo[i + 1] /\ i + 1 \in 1..Len(todo)
  BY DEF Rest
<1>3. \A i \in 1..Len(Rest) : Rest[i] \in Unadopting
  BY <1>1, <1>2 DEF FreshAdopts, Unadopting
<1> QED BY <1>1, <1>3

\* The last steps of an input's batch look for none.
LEMMA LastAdoptsNone ==
  ASSUME IInv
  PROVE  /\ <<Publish>> \in Seq(Unadopting)
         /\ <<PublishIfNot(state)>> \in Seq(Unadopting)
         /\ InnerStep \subseteq Unadopting
         /\ Seq(InnerStep) \subseteq Seq(Unadopting)
<1>1. state \in ConnectionState
  BY Parts DEF Before, MachineTypeOK
<1>2. Publish \in Unadopting /\ PublishIfNot(state) \in Unadopting
  BY <1>1 DEF Publish, PublishIfNot, Unadopting, Step, AdoptOps
<1>3. InnerStep \subseteq Unadopting
  BY DEF InnerStep, Unadopting
<1> QED BY <1>2, <1>3

\* Nothing the worker does puts the search back, or finds a session later.
LEMMA AdoptsNoMore ==
  ASSUME IInv, FreshAdopts, Ui \/ Signal \/ Settle \/ Work
  PROVE  todo' \in Seq(Unadopting) \/ FindsOne
<1>1. CASE Ui \/ Signal \/ Settle
  <2>1. \/ \E cs \in Seq(InnerStep) : Returns(cs, <<Publish>>)
        \/ \E cs \in Seq(InnerStep) : Returns(cs, <<PublishIfNot(state)>>)
    BY <1>1, UiTurns, SignalTurns, SettleTurns DEF Turn
  <2>2. \A cs \in Seq(InnerStep) : cs \in Seq(Unadopting)
    BY LastAdoptsNone
  <2>3. \A cs, rest \in Seq(Unadopting) : cs \o rest \in Seq(Unadopting)
    OBVIOUS
  <2> QED BY <2>1, <2>2, <2>3, LastAdoptsNone DEF Returns
<1>2. CASE Work
  <2>1. todo # <<>> /\ todo \in Seq(Step)
    BY <1>2, WorkTurns, Parts
  <2>2. Rest \in Seq(Unadopting)
    BY <2>1, RestAdoptsNone
  <2>3. CASE Turn(Rest)
    <3>1. PICK cs \in Seq(InnerStep) : Returns(cs, Rest)
      BY <2>3 DEF Turn
    <3> QED BY <2>2, <3>1, LastAdoptsNone DEF Returns
  <2>4. CASE TunnelStarts
    <3>1. PICK s \in Session : Returns(<<Created(s)>>, Rest)
      BY <2>4 DEF TunnelStarts
    <3>2. Created(s) \in Unadopting
      BY DEF Created, Unadopting, Step, AdoptOps
    <3> QED BY <2>2, <3>1, <3>2 DEF Returns
  <2> QED BY <1>2, <2>3, <2>4, WorkTurns
<1> QED BY <1>1, <1>2

\* When one is found, its status is looked at next and nothing else has
\* happened.
LEMMA FoundFirst ==
  ASSUME IInv, FreshAdopts, NEW s \in Session, Doing("Adopt"),
         Returns(<<AdoptAs(s, real[s])>>, Rest)
  PROVE  /\ todo' # <<>> /\ Head(todo') = AdoptAs(s, real[s])
         /\ todo'[1] = AdoptAs(s, real[s])
         /\ \A i \in 1..Len(todo') : i # 1 => todo'[i] \in Unadopting
         /\ MachineInit
<1>1. todo # <<>> /\ todo \in Seq(Step)
  BY Parts DEF Doing
<1>2. Rest \in Seq(Unadopting)
  BY <1>1, RestAdoptsNone
<1>3. todo[1].op = "Adopt" /\ 1 \in 1..Len(todo)
  BY <1>1 DEF Doing
<1>4. MachineInit
  BY <1>3, Parts DEF FreshAdopts, AdoptOps, MachineInit, Before, MachineTypeOK
<1>5. /\ todo' # <<>> /\ todo'[1] = AdoptAs(s, real[s])
      /\ Head(todo') = AdoptAs(s, real[s])
      /\ \A i \in 1..Len(todo') : i # 1 => todo'[i] \in Unadopting
  BY <1>2 DEF Returns
<1> QED BY <1>4, <1>5

\* Every step preserves it.
LEMMA FreshNext == IInv /\ FreshAdopts /\ [Next]_vars => FreshAdopts'
<1> SUFFICES ASSUME IInv, FreshAdopts, [Next]_vars PROVE FreshAdopts'
  OBVIOUS
<1>1. CASE todo' \in Seq(Unadopting)
  <2>1. \A i \in 1..Len(todo') : todo'[i] \in Unadopting
    BY <1>1
  <2> QED BY <2>1 DEF FreshAdopts, Unadopting
<1>2. CASE FindsOne
  <2>1. PICK s \in Session : Returns(<<AdoptAs(s, real[s])>>, Rest)
    BY <1>2 DEF FindsOne
  <2>2. /\ \A i \in 1..Len(todo') : i # 1 => todo'[i] \in Unadopting
        /\ MachineInit
    BY <1>2, <2>1, FoundFirst DEF FindsOne
  <2> QED BY <1>2, <2>2
          DEF FindsOne, FreshAdopts, machineVars, Unadopting, MachineInit
<1>3. CASE Service \/ UNCHANGED vars
  BY <1>3 DEF Service, vars, machineVars, FreshAdopts
<1> QED BY <1>1, <1>2, <1>3, AdoptsNoMore DEF Next

\* The worker looks for sessions first, and once.
LEMMA FreshInit == Init => FreshAdopts
BY DEF Init, MachineInit, FreshAdopts, Adopt, WatchManager, Publish, AdoptOps

\* A step that is no turn starts no tunnel, or is the starting of one.
LEMMA ConnectingNext ==
  IInv /\ StartsConnecting /\ [Next]_vars => StartsConnecting'
<1> SUFFICES ASSUME IInv, StartsConnecting, [Next]_vars PROVE StartsConnecting'
  OBVIOUS
<1>1. CASE Ui \/ Signal \/ Settle
  BY <1>1, UiTurns, SignalTurns, SettleTurns DEF Turn, StartsConnecting
<1>2. CASE Work
  <2>1. CASE Turn(Rest)
    BY <2>1 DEF Turn, StartsConnecting
  <2>2. CASE FindsOne
    <3>1. PICK s \in Session : Returns(<<AdoptAs(s, real[s])>>, Rest)
      BY <2>2 DEF FindsOne
    <3>2. Head(todo') = AdoptAs(s, real[s])
      <4>1. Rest \in Seq(Step)
        BY <2>2, Parts DEF FindsOne, Doing, Rest
      <4> QED BY <3>1, <4>1 DEF Returns
    <3> QED BY <3>2 DEF StartsConnecting, Doing, AdoptAs
  <2>3. CASE TunnelStarts
    BY <2>3 DEF TunnelStarts, StartsConnecting, machineVars
  <2> QED BY <1>2, <2>1, <2>2, <2>3, WorkTurns
<1>3. CASE Service \/ UNCHANGED vars
  BY <1>3 DEF Service, vars, machineVars, StartsConnecting, Doing
<1> QED BY <1>1, <1>2, <1>3 DEF Next

\* A step takes a failure from the display only as FailureStaysVisible says.
LEMMA FailureStep ==
  ASSUME IInv, FreshAdopts, StartsConnecting, [Next]_vars,
         state = "Failed", state' # "Failed", active = None
  PROVE  \/ Idle /\ UNCHANGED queueVars
         \/ Doing("Select")
         \/ pendingTarget # None
<1>1. CASE Ui
  BY <1>1
     DEF Ui, Receives, UiSelectProfile, UiDisconnect, UiRefresh,
         UiDismissFailure, UiManageProfiles, UiSubmitPrompt, UiCancelPrompt,
         openvpn3Vars, queueVars, Idle
<1>2. CASE Signal \/ Settle
  BY <1>2, SignalTurns, SettleTurns DEF Steady, KeepsFailure
<1>3. CASE Work
  <2>1. todo # <<>> /\ Head(todo) = todo[1] /\ 1 \in 1..Len(todo)
    BY <1>3, WorkTurns, Parts
  <2>2. CASE Head(todo).op = "AdoptAs"
    BY <2>1, <2>2 DEF FreshAdopts, AdoptOps
  <2>3. CASE Head(todo).op = "Created"
    BY <2>1, <2>3 DEF StartsConnecting, Doing
  <2>4. CASE Head(todo).op = "Select"
    BY <2>1, <2>4 DEF Doing
  <2> QED BY <1>3, <2>2, <2>3, <2>4, WorkTurns DEF Steady, KeepsFailure
<1>4. CASE Service \/ UNCHANGED vars
  BY <1>4 DEF Service, vars, machineVars
<1> QED BY <1>1, <1>2, <1>3, <1>4 DEF Next

\* At first the worker starts no tunnel.
LEMMA ConnectingInit == Init => StartsConnecting
BY DEF Init, StartsConnecting, Doing, Adopt

\* A failed attempt whose session is out of the Machine's hands stays on
\* display until the user dismisses it or has chosen a profile.
THEOREM FailureStays == Spec => FailureStaysVisible
<1>1. /\ IInv /\ FreshAdopts /\ StartsConnecting /\ [Next]_vars
      => [ state = "Failed" /\ state' # "Failed" /\ active = None =>
             \/ Idle /\ UNCHANGED queueVars
             \/ Doing("Select")
             \/ pendingTarget # None ]_vars
  BY FailureStep
<1> QED BY <1>1, Invariance, FreshInit, FreshNext, ConnectingInit,
           ConnectingNext, PTL DEF Spec, FailureStaysVisible

-----------------------------------------------------------------------------
(* Connecting, with something to connect *)

\* ConnectingHasSession needs it, of every moment: connecting is displayed with
\* no session in hand only while a tunnel is being started.
Adrift == state = "Connecting" /\ active = None /\ awaitingTeardown = None

StartsOnceAdrift == Adrift => Doing("NewTunnel") \/ Doing("Created")

\* No handler sets the Machine adrift but to start a tunnel.
Anchored == Adrift' => Adrift \/ Doing("NewTunnel")'

LEMMA StartIsNext ==
  ASSUME NEW S, NEW rest \in Seq(S), NEW c, Returns(<<NewTunnel(c)>>, rest)
  PROVE  Doing("NewTunnel")'
<1>1. <<NewTunnel(c)>> \in Seq(S \cup {NewTunnel(c)})
      /\ rest \in Seq(S \cup {NewTunnel(c)})
  OBVIOUS
<1>2. todo' # <<>> /\ Head(todo') = NewTunnel(c)
  BY <1>1 DEF Returns
<1> QED BY <1>2 DEF Doing, NewTunnel

\* The events that name no session, and those that do.
LEMMA WishesAnchor ==
  ASSUME NEW S, NEW rest \in Seq(S)
  PROVE  /\ \A c : ProfileSelected(c, rest) => Anchored
         /\ DisconnectRequested(rest) => Anchored
         /\ FailureDismissed(rest) => Anchored
         /\ Ignored(rest) => Anchored
<1> USE ObjectsAssumption DEF Anchored, Adrift
<1>1. ASSUME NEW c, ProfileSelected(c, rest) PROVE Anchored
  BY <1>1, StartIsNext DEF ProfileSelected
<1>2. DisconnectRequested(rest) => Anchored
  BY DEF DisconnectRequested
<1>3. FailureDismissed(rest) => Anchored
  BY DEF FailureDismissed
<1>4. Ignored(rest) => Anchored
  BY DEF Ignored, machineVars
<1> QED BY <1>1, <1>2, <1>3, <1>4

LEMMA HandlersAnchor ==
  ASSUME NEW S, NEW rest \in Seq(S), NEW s \in Session
  PROVE  /\ SessionCreated(s, rest) => Anchored
         /\ SessionReady(s, rest) => Anchored
         /\ SessionRemoved(s, rest) => Anchored
         /\ \A x : StatusChanged(s, x, rest) => Anchored
         /\ \A x, r : ExternalSessionSeen(s, x, r) => Anchored
         /\ \A gs : CredentialsRequired(s, gs, rest) => Anchored
         /\ \A gs : PromptSubmitted(s, gs, rest) => Anchored
         /\ PromptCancelled(s, rest) => Anchored
<1> USE ObjectsAssumption DEF Anchored, Adrift
<1>1. \A r : Ignored(r) => Anchored
  BY DEF Ignored, machineVars
<1>2. FinishTeardown(rest) => Anchored
  BY StartIsNext DEF FinishTeardown, StateOnceGone
<1>3. SessionCreated(s, rest) => Anchored
  BY DEF SessionCreated
<1>4. SessionReady(s, rest) => Anchored
  BY <1>1 DEF SessionReady
<1>5. SessionRemoved(s, rest) => Anchored
  BY <1>1, <1>2 DEF SessionRemoved, StateOnceGone
<1>6. \A x : StatusChanged(s, x, rest) => Anchored
  BY <1>1, <1>2 DEF StatusChanged
<1>7. \A x, r : ExternalSessionSeen(s, x, r) => Anchored
  BY <1>1 DEF ExternalSessionSeen
<1>8. \A gs : CredentialsRequired(s, gs, rest) => Anchored
  BY <1>1 DEF CredentialsRequired
<1>9. \A gs : PromptSubmitted(s, gs, rest) => Anchored
  BY <1>1 DEF PromptSubmitted
<1>10. PromptCancelled(s, rest) => Anchored
  BY <1>1 DEF PromptCancelled
<1> QED BY <1>3, <1>4, <1>5, <1>6, <1>7, <1>8, <1>9, <1>10

\* Every step preserves it, when no tunnel is refused.
LEMMA AdriftNext ==
  ASSUME "NewTunnel" \notin FaultyCalls
  PROVE  IInv /\ StartsOnceAdrift /\ [Next]_vars => StartsOnceAdrift'
<1> SUFFICES ASSUME IInv, StartsOnceAdrift, [Next]_vars PROVE StartsOnceAdrift'
  OBVIOUS
<1>1. ASSUME Anchored, ~(Doing("NewTunnel") \/ Doing("Created"))
      PROVE  StartsOnceAdrift'
  BY <1>1 DEF Anchored, StartsOnceAdrift
<1>2. /\ todo \in Seq(Step) /\ removedQ \in Seq(Session)
      /\ prompt # None => prompt.session \in Session
      /\ active # None => active \in Session
      /\ awaitingTeardown # None => awaitingTeardown \in Session
  BY Parts DEF Before, MachineTypeOK, BusOK, Openvpn3TypeOK, PanelOK, Prompt
<1>3. <<Publish>> \in Seq({Publish})
  OBVIOUS
<1>4. UNCHANGED machineVars => Anchored
  BY DEF machineVars, Anchored, Adrift
<1>5. CASE Ui \/ Signal \/ Settle
  <2>1. Idle
    BY <1>5
       DEF Ui, Signal, Settle, Receives, UiSelectProfile, UiDisconnect,
           UiRefresh, UiDismissFailure, UiManageProfiles, UiSubmitPrompt,
           UiCancelPrompt, ReceiveStatus, ReceiveAttention, ReceiveRemoved
  <2>2. Ui => Anchored
    BY <1>2, <1>3, <1>4, HandlersAnchor, WishesAnchor
       DEF Ui, Receives, UiSelectProfile, UiDisconnect, UiRefresh,
           UiDismissFailure, UiManageProfiles, UiSubmitPrompt, UiCancelPrompt,
           Ignored
  <2>3. Signal \/ Settle => Anchored
    <3>1. Settle => Anchored
      BY <1>4 DEF Settle, Receives
    <3>2. \A s \in Session : ReceiveStatus(s) \/ ReceiveAttention(s) => Anchored
      BY <1>3, HandlersAnchor DEF ReceiveStatus, ReceiveAttention
    <3>3. ReceiveRemoved => Anchored
      <4>1. removedQ # <<>> => Head(removedQ) \in Session
        BY <1>2
      <4> QED BY <1>3, <4>1, HandlersAnchor DEF ReceiveRemoved
    <3> QED BY <3>1, <3>2, <3>3 DEF Signal
  <2> QED BY <1>1, <1>5, <2>1, <2>2, <2>3 DEF Idle, Doing
<1>6. CASE Work
  <2>1. todo # <<>> /\ Head(todo) \in Step /\ Rest \in Seq(Step)
    BY <1>2, <1>6, WorkTurns DEF Rest
  <2>2. CASE TunnelStarts
    <3>1. PICK s \in Session : Returns(<<Created(s)>>, Rest)
      BY <2>2 DEF TunnelStarts
    <3>2. todo' # <<>> /\ Head(todo') = Created(s)
      <4>1. Created(s) \in Step
        BY DEF Created, Step
      <4> QED BY <2>1, <3>1, <4>1 DEF Returns
    <3> QED BY <3>2 DEF StartsOnceAdrift, Doing, Created
  <2>3. CASE TunnelCreated
    <3>1. active' # None
      BY <1>2, <2>1, <2>3, HeadTypes, ObjectsAssumption
         DEF TunnelCreated, SessionCreated, Doing
    <3> QED BY <3>1 DEF StartsOnceAdrift, Adrift
  <2>4. CASE ~TunnelStarts /\ ~TunnelCreated
    <3>1. ~(Doing("NewTunnel") \/ Doing("Created"))
      BY <1>6, <2>4
         DEF Work, Call, AdoptExisting, AdoptStatusRead, SubscribeSession,
             WatchSessionManager, ExecEnableLogForward,
             ExecConnect, ExecDisconnect, ExecOpenPrompt, ExecClosePrompt,
             ExecProvideInput, ExecNote, ExecCheckReady, ExecAskQueue,
             ExecReconcileTeardown, ExecReconcileStatus, HandleStatusRead,
             ExecNewTunnel, ExecSelect, ExecDisconnectActive, ExecPublish,
             ExecPublishIfNot, Doing, Fails
    <3>2. CASE UNCHANGED machineVars
      BY <1>1, <1>4, <3>1, <3>2
    <3>3. CASE AdoptStatusRead \/ HandleStatusRead \/ ExecCheckReady
               \/ ExecAskQueue
      <4>1. Head(todo).session \in Session
        BY <1>2, <3>3, HeadTypes
           DEF AdoptStatusRead, HandleStatusRead, ExecCheckReady, ExecAskQueue,
               Doing
      <4>2. AdoptStatusRead \/ HandleStatusRead => Anchored
        BY <2>1, <4>1, HandlersAnchor DEF AdoptStatusRead, HandleStatusRead
      <4>3. ExecCheckReady => Anchored
        BY <1>4, <2>1, <4>1, HandlersAnchor, WishesAnchor DEF ExecCheckReady
      <4>4. ExecAskQueue => Anchored
        BY <2>1, <4>1, HandlersAnchor, WishesAnchor DEF ExecAskQueue
      <4> QED BY <1>1, <3>1, <3>3, <4>2, <4>3, <4>4
    <3>4. CASE ExecReconcileTeardown
      BY <1>1, <1>2, <1>4, <2>1, <3>1, <3>4, HandlersAnchor
         DEF ExecReconcileTeardown, Ignored
    <3>5. CASE ExecSelect \/ ExecDisconnectActive
      BY <1>1, <2>1, <3>1, <3>5, WishesAnchor
         DEF ExecSelect, ExecDisconnectActive
    <3> QED BY <1>6, <2>4, <3>2, <3>3, <3>4, <3>5
            DEF Work, Call, AdoptExisting, SubscribeSession,
                WatchSessionManager, ExecEnableLogForward, ExecConnect,
                ExecDisconnect, ExecOpenPrompt, ExecClosePrompt,
                ExecProvideInput, ExecNote, ExecReconcileStatus,
                ExecNewTunnel, TunnelRefused, ExecPublish, ExecPublishIfNot
  <2> QED BY <2>2, <2>3, <2>4
<1>7. CASE Service \/ UNCHANGED vars
  BY <1>7 DEF Service, vars, machineVars, StartsOnceAdrift, Adrift, Doing
<1> QED BY <1>5, <1>6, <1>7 DEF Next

\* At first nothing is connecting.
LEMMA AdriftInit == Init => StartsOnceAdrift
BY DEF Init, MachineInit, StartsOnceAdrift, Adrift

\* Only a refused tunnel leaves the icon connecting with no session to wait
\* for: as long as new_tunnel is never refused, it is not so however events
\* and calls interleave.
THEOREM ConnectingToSome ==
  ASSUME "NewTunnel" \notin FaultyCalls
  PROVE  Spec => []ConnectingHasSession
<1>1. StartsOnceAdrift => ConnectingHasSession
  BY DEF StartsOnceAdrift, Adrift, ConnectingHasSession, Idle, Doing
<1> QED BY <1>1, AdriftInit, AdriftNext, Invariance, PTL DEF Spec

-----------------------------------------------------------------------------
(* The session the user is asked about *)

\* The steps that may lead to a prompt, and those that may come before them.
CheckOps    == {"CheckReady", "AskQueue"}
BeforeCheck == {"EnableLogForward", "ProvideInput", "ClosePrompt"}

\* The checks of a batch come behind nothing that can change the Machine.
ChecksFirst(steps) ==
  \A i \in 1..Len(steps) : steps[i].op \in CheckOps =>
    \A j \in 1..i - 1 : steps[j].op \in BeforeCheck

\* LivePromptIsReachable needs it: as long as the session a prompt is open for
\* is displayed, so is that it waits for an answer.  A check under way, which
\* may display something else, is never behind an open prompt.
AuthIsLive ==
  /\ promptOpen /\ active # None => state = "AuthPending"
  /\ promptOpen => \A i \in 1..Len(todo) : todo[i].op \notin CheckOps
  /\ ChecksFirst(todo)

\* The steps that check nothing.
Unchecking == {x \in Step : x.op \notin CheckOps}

\* A turn preserves it when it is in front of steps that check nothing.
CheckedTurn(rest) ==
  /\ promptOpen' /\ active' # None => state' = "AuthPending"
  /\ \E cs \in Seq(Step) :
       /\ Returns(cs, rest) /\ ChecksFirst(cs)
       /\ cs \in Seq(Unchecking) \/ ~promptOpen'

\* The steps the handlers return, by kind.
LEMMA UncheckingCommands ==
  /\ Unchecking \subseteq Step
  /\ ClosePrompt \in Unchecking
  /\ \A c \in Config : NewTunnel(c) \in Unchecking
  /\ \A s \in Session :
       /\ EnableLogForward(s) \in Unchecking
       /\ Connect(s) \in Unchecking
       /\ Disconnect(s) \in Unchecking
       /\ Note(s) \in Unchecking
       /\ CheckReady(s) \in Step
       /\ \A gs \in SUBSET Group :
            /\ OpenPrompt(s, gs) \in Unchecking
            /\ ProvideInput(s, gs) \in Unchecking
BY DEF Unchecking, CheckOps, Step, Command, NewTunnel, EnableLogForward,
       Connect, Disconnect, OpenPrompt, ClosePrompt, ProvideInput, CheckReady,
       Note

\* A batch that checks nothing.
LEMMA UncheckedBatch ==
  ASSUME NEW cs \in Seq(Unchecking)
  PROVE  cs \in Seq(Step) /\ ChecksFirst(cs)
<1>1. \A i \in 1..Len(cs) : cs[i] \in Unchecking
  OBVIOUS
<1>2. cs \in Seq(Step)
  BY DEF Unchecking
<1> QED BY <1>1, <1>2 DEF Unchecking, ChecksFirst

\* The short ones.
LEMMA UncheckedBatches ==
  /\ <<>> \in Seq(Unchecking)
  /\ \A x \in Unchecking : <<x>> \in Seq(Unchecking)
  /\ \A x, y \in Unchecking : <<x, y>> \in Seq(Unchecking)
OBVIOUS

\* The two that do check, and the question that may follow a check.
LEMMA CheckingBatches ==
  ASSUME NEW s \in Session
  PROVE  /\ StartUp(s) \in Seq(Step) /\ ChecksFirst(StartUp(s))
         /\ \A gs \in SUBSET Group :
              Resume(s, gs) \in Seq(Step) /\ ChecksFirst(Resume(s, gs))
         /\ <<AskQueue(s)>> \in Seq(Step) /\ ChecksFirst(<<AskQueue(s)>>)
<1>1. /\ EnableLogForward(s) \in Step /\ CheckReady(s) \in Step
      /\ ClosePrompt \in Step /\ AskQueue(s) \in Step
      /\ \A gs \in SUBSET Group : ProvideInput(s, gs) \in Step
  BY UncheckingCommands DEF AskQueue, Step
<1>2. ChecksFirst(StartUp(s)) /\ ChecksFirst(<<AskQueue(s)>>)
  BY DEF ChecksFirst, StartUp, EnableLogForward, CheckReady, CheckOps,
         BeforeCheck
<1>3. ASSUME NEW gs \in SUBSET Group
      PROVE  ChecksFirst(Resume(s, gs))
  BY DEF ChecksFirst, Resume, ProvideInput, ClosePrompt, CheckReady,
         CheckOps, BeforeCheck
<1> QED BY <1>1, <1>2, <1>3 DEF StartUp, Resume

\* The turn leaves the invariant.
LEMMA CheckedOnTurn ==
  ASSUME NEW rest \in Seq(Unchecking), CheckedTurn(rest)
  PROVE  AuthIsLive'
<1>1. PICK cs \in Seq(Step) :
        /\ Returns(cs, rest) /\ ChecksFirst(cs)
        /\ cs \in Seq(Unchecking) \/ ~promptOpen'
  BY DEF CheckedTurn
<1>2. rest \in Seq(Step)
  BY UncheckedBatch
<1>3. /\ todo' \in Seq(Step)
      /\ \A i \in 1..Len(todo') :
           IF i <= Len(cs) THEN i \in 1..Len(cs) /\ todo'[i] = cs[i]
                           ELSE todo'[i] \in Unchecking
  BY <1>1, <1>2 DEF Returns
<1>4. ChecksFirst(todo')
  <2> SUFFICES ASSUME NEW i \in 1..Len(todo'), todo'[i].op \in CheckOps,
                      NEW j \in 1..i - 1
               PROVE  todo'[j].op \in BeforeCheck
    BY DEF ChecksFirst
  <2>1. i \in 1..Len(cs) /\ todo'[i] = cs[i]
    BY <1>3 DEF Unchecking
  <2>2. j \in 1..Len(todo') /\ j <= Len(cs)
    BY <1>3, <2>1
  <2>3. todo'[j] = cs[j]
    BY <1>3, <2>2
  <2> QED BY <1>1, <2>1, <2>3 DEF ChecksFirst
<1>5. promptOpen' => \A i \in 1..Len(todo') : todo'[i].op \notin CheckOps
  <2> SUFFICES ASSUME promptOpen', NEW i \in 1..Len(todo')
               PROVE  todo'[i] \in Unchecking
    BY DEF Unchecking
  <2>1. cs \in Seq(Unchecking)
    BY <1>1
  <2> QED BY <1>3, <2>1
<1>6. ChecksFirst(todo)'
  BY <1>4 DEF ChecksFirst
<1> QED BY <1>5, <1>6 DEF AuthIsLive, CheckedTurn

\* What the Machine shows while a prompt is open.
ShowsAuth == promptOpen /\ active # None => state = "AuthPending"

\* Nothing happens.
LEMMA IgnoredChecks ==
  ASSUME ShowsAuth, NEW rest, Ignored(rest)
  PROVE  CheckedTurn(rest)
BY UncheckedBatches, UncheckedBatch
   DEF Ignored, machineVars, CheckedTurn, ShowsAuth

\* Nothing that checks is returned, and an open prompt's session keeps its
\* display.
LEMMA UncheckedTurn ==
  ASSUME NEW rest, NEW cs \in Seq(Unchecking), Returns(cs, rest), ShowsAuth'
  PROVE  CheckedTurn(rest)
BY UncheckedBatch DEF CheckedTurn, ShowsAuth

\* finish_teardown closes the machine's prompt.
LEMMA FinishTeardownChecks ==
  ASSUME Before, NEW rest, FinishTeardown(rest)
  PROVE  CheckedTurn(rest)
<1>1. ShowsAuth'
  BY DEF FinishTeardown, ShowsAuth
<1>2. CASE pendingTarget # None
  <2>1. pendingTarget \in Config
    BY <1>2 DEF Before, MachineTypeOK
  <2>2. <<NewTunnel(pendingTarget)>> \in Seq(Unchecking)
    BY <2>1, UncheckingCommands, UncheckedBatches
  <2> QED BY <1>1, <1>2, <2>2, UncheckedTurn DEF FinishTeardown
<1>3. CASE pendingTarget = None
  BY <1>1, <1>3, UncheckedBatches, UncheckedTurn DEF FinishTeardown
<1> QED BY <1>2, <1>3

\* apply_status closes the prompt when it displays anything else.
LEMMA ApplyStatusChecks ==
  ASSUME ShowsAuth, promptOpen \in BOOLEAN, NEW s \in Session,
         NEW x \in StatusClass, NEW rest, ApplyStatus(s, x, rest),
         active' = active \/ ~promptOpen
  PROVE  CheckedTurn(rest)
<1>1. \E cs \in Seq(Unchecking) : Returns(cs, rest)
  BY UncheckingCommands, UncheckedBatches DEF ApplyStatus
<1>2. ShowsAuth'
  BY DEF ApplyStatus, ClosesPrompt, ShowsAuth
<1> QED BY <1>1, <1>2, UncheckedTurn

\* Every handler keeps to it.  A session is brought along, and one is ready,
\* only while no prompt is open.
LEMMA HandlersCheck ==
  ASSUME Before, ShowsAuth, NEW rest
  PROVE  /\ \A c \in Config : ProfileSelected(c, rest) => CheckedTurn(rest)
         /\ DisconnectRequested(rest) => CheckedTurn(rest)
         /\ FailureDismissed(rest) => CheckedTurn(rest)
         /\ \A s \in Session :
              /\ \/ SessionRemoved(s, rest)
                 \/ PromptCancelled(s, rest)
                 \/ ~promptOpen /\ SessionCreated(s, rest)
                 \/ ~promptOpen /\ SessionReady(s, rest)
                 => CheckedTurn(rest)
              /\ \A x \in StatusClass :
                   \/ StatusChanged(s, x, rest)
                   \/ ~promptOpen /\ ExternalSessionSeen(s, x, rest)
                   => CheckedTurn(rest)
              /\ \A gs \in SUBSET Group :
                   \/ CredentialsRequired(s, gs, rest)
                   \/ PromptSubmitted(s, gs, rest)
                   => CheckedTurn(rest)
<1> USE IgnoredChecks, UncheckedTurn, UncheckingCommands, UncheckedBatches
<1>1. ASSUME NEW c \in Config, ProfileSelected(c, rest)
      PROVE  CheckedTurn(rest)
  <2>1. ShowsAuth'
    BY <1>1 DEF ProfileSelected, ShowsAuth, Before, Exclusive
  <2>2. active # None => active \in Session
    BY DEF Before, MachineTypeOK
  <2>3. \E cs \in Seq(Unchecking) : Returns(cs, rest)
    BY <1>1, <2>2 DEF ProfileSelected
  <2> QED BY <2>1, <2>3
<1>2. ASSUME DisconnectRequested(rest)
      PROVE  CheckedTurn(rest)
  <2>1. ShowsAuth'
    BY <1>2 DEF DisconnectRequested, ShowsAuth
  <2>2. active # None => active \in Session
    BY DEF Before, MachineTypeOK
  <2>3. \E cs \in Seq(Unchecking) : Returns(cs, rest)
    BY <1>2, <2>2 DEF DisconnectRequested
  <2> QED BY <2>1, <2>3
<1>3. ASSUME FailureDismissed(rest)
      PROVE  CheckedTurn(rest)
  <2>1. ShowsAuth'
    BY <1>3 DEF FailureDismissed, ShowsAuth
  <2> QED BY <1>3, <2>1 DEF FailureDismissed
<1>4. ASSUME NEW s \in Session, SessionRemoved(s, rest)
      PROVE  CheckedTurn(rest)
  <2>1. CASE SessionRemoved(s, rest) /\ s = active /\ s # awaitingTeardown
    <3>1. ShowsAuth' /\ Returns(<<>>, rest)
      BY <2>1 DEF SessionRemoved, ShowsAuth
    <3> QED BY <3>1
  <2> QED BY <1>4, <2>1, FinishTeardownChecks DEF SessionRemoved
<1>5. ASSUME NEW s \in Session, PromptCancelled(s, rest)
      PROVE  CheckedTurn(rest)
  <2>1. CASE active = s
    <3>1. ShowsAuth' /\ Returns(<<ClosePrompt, Disconnect(s)>>, rest)
      BY <1>5, <2>1 DEF PromptCancelled, ShowsAuth
    <3>2. <<ClosePrompt, Disconnect(s)>> \in Seq(Unchecking)
      OBVIOUS
    <3> QED BY <3>1, <3>2
  <2> QED BY <1>5, <2>1 DEF PromptCancelled
<1>6. ASSUME NEW s \in Session, ~promptOpen, SessionCreated(s, rest)
      PROVE  CheckedTurn(rest)
  BY <1>6, CheckingBatches DEF SessionCreated, CheckedTurn
<1>7. ASSUME NEW s \in Session, ~promptOpen, SessionReady(s, rest)
      PROVE  CheckedTurn(rest)
  <2>1. CASE active = s
    <3>1. ShowsAuth' /\ Returns(<<Connect(s)>>, rest)
      BY <1>7, <2>1 DEF SessionReady, ShowsAuth, Ignored, machineVars
    <3>2. <<Connect(s)>> \in Seq(Unchecking)
      OBVIOUS
    <3> QED BY <3>1, <3>2
  <2> QED BY <1>7, <2>1 DEF SessionReady
<1>8. ASSUME NEW s \in Session, NEW x \in StatusClass,
             StatusChanged(s, x, rest)
      PROVE  CheckedTurn(rest)
  <2>1. CASE s = active /\ s # awaitingTeardown
    <3>1. ApplyStatus(s, x, rest) /\ active' = active
      BY <1>8, <2>1 DEF StatusChanged
    <3> QED BY <3>1, ApplyStatusChecks DEF Before, MachineTypeOK
  <2> QED BY <1>8, <2>1, FinishTeardownChecks DEF StatusChanged
<1>9. ASSUME NEW s \in Session, NEW x \in StatusClass, ~promptOpen,
             ExternalSessionSeen(s, x, rest)
      PROVE  CheckedTurn(rest)
  BY <1>9, ApplyStatusChecks DEF ExternalSessionSeen, Before, MachineTypeOK
<1>10. ASSUME NEW s \in Session, NEW gs \in SUBSET Group,
              CredentialsRequired(s, gs, rest)
       PROVE  CheckedTurn(rest)
  <2>1. CASE active # s \/ promptOpen \/ gs = {}
    BY <1>10, <2>1 DEF CredentialsRequired
  <2>2. CASE /\ active = s /\ ~promptOpen /\ gs # {}
             /\ ~(gs \subseteq Supported)
    <3>1. ShowsAuth' /\ Returns(<<Note(s), Disconnect(s)>>, rest)
      BY <1>10, <2>2 DEF CredentialsRequired, ShowsAuth
    <3>2. <<Note(s), Disconnect(s)>> \in Seq(Unchecking)
      OBVIOUS
    <3> QED BY <3>1, <3>2
  <2>3. CASE active = s /\ ~promptOpen /\ gs # {} /\ gs \subseteq Supported
    <3>1. ShowsAuth' /\ Returns(<<OpenPrompt(s, gs)>>, rest)
      BY <1>10, <2>3 DEF CredentialsRequired, ShowsAuth
    <3>2. <<OpenPrompt(s, gs)>> \in Seq(Unchecking)
      OBVIOUS
    <3> QED BY <3>1, <3>2
  <2> QED BY <2>1, <2>2, <2>3
<1>11. ASSUME NEW s \in Session, NEW gs \in SUBSET Group,
              PromptSubmitted(s, gs, rest)
       PROVE  CheckedTurn(rest)
  <2>1. CASE active = s
    <3>1. ~promptOpen' /\ Returns(Resume(s, gs), rest)
      BY <1>11, <2>1 DEF PromptSubmitted
    <3>2. Resume(s, gs) \in Seq(Step) /\ ChecksFirst(Resume(s, gs))
      BY CheckingBatches
    <3> QED BY <3>1, <3>2 DEF CheckedTurn
  <2> QED BY <1>11, <2>1 DEF PromptSubmitted
<1> QED BY <1>1, <1>2, <1>3, <1>4, <1>5, <1>6, <1>7, <1>8, <1>9, <1>10, <1>11

\* What an input has the worker do checks nothing by itself.
LEMMA UncheckingInputs ==
  /\ Publish \in Unchecking /\ DisconnectActive \in Unchecking
  /\ ReconcileTeardown \in Unchecking /\ ReconcileStatus \in Unchecking
  /\ \A c \in Config : Select(c) \in Unchecking
  /\ \A x \in ConnectionState : PublishIfNot(x) \in Unchecking
BY DEF Unchecking, CheckOps, Step, Publish, DisconnectActive,
       ReconcileTeardown, ReconcileStatus, Select, PublishIfNot

\* With the Machine as it was and nothing to check, nothing can go wrong.
LEMMA UncheckedStays ==
  ASSUME AuthIsLive, UNCHANGED machineVars, todo' \in Seq(Unchecking)
  PROVE  AuthIsLive'
<1>1. \A i \in 1..Len(todo') : todo'[i].op \notin CheckOps
  <2>1. \A i \in 1..Len(todo') : todo'[i] \in Unchecking
    OBVIOUS
  <2> QED BY <2>1 DEF Unchecking
<1> QED BY <1>1 DEF AuthIsLive, ChecksFirst, machineVars

\* An input preserves it.
LEMMA InputsCheck ==
  ASSUME IInv, AuthIsLive, Ui \/ Signal \/ Settle
  PROVE  AuthIsLive'
<1>1. Before /\ ShowsAuth
  BY Parts DEF AuthIsLive, ShowsAuth
<1>2. <<Publish>> \in Seq(Unchecking)
  BY UncheckingInputs
<1>3. CheckedTurn(<<Publish>>) => AuthIsLive'
  BY <1>2, CheckedOnTurn
<1>4. CASE \/ \E c \in Config : UiSelectProfile(c)
           \/ UiDisconnect \/ UiRefresh \/ UiManageProfiles \/ Settle
  <2>1. UNCHANGED machineVars /\ state \in ConnectionState
    BY <1>1, <1>4
       DEF UiSelectProfile, UiDisconnect, UiRefresh, UiManageProfiles, Settle,
           Receives, Before, MachineTypeOK
  <2>2. /\ \A c \in Config : Reconcile \o <<Select(c), Publish>>
                                \in Seq(Unchecking)
        /\ Reconcile \o <<DisconnectActive, Publish>> \in Seq(Unchecking)
        /\ Reconcile \o <<Publish>> \in Seq(Unchecking)
        /\ Reconcile \o <<PublishIfNot(state)>> \in Seq(Unchecking)
    BY <2>1, UncheckingInputs DEF Reconcile
  <2>3. todo' \in Seq(Unchecking)
    BY <1>2, <1>4, <2>2
       DEF UiSelectProfile, UiDisconnect, UiRefresh, UiManageProfiles, Settle,
           Receives
  <2> QED BY <2>1, <2>3, UncheckedStays
<1>5. CASE UiDismissFailure
  BY <1>1, <1>3, <1>5, HandlersCheck DEF UiDismissFailure
<1>6. CASE \/ \E answers \in SUBSET Supported : UiSubmitPrompt(answers)
           \/ UiCancelPrompt
  <2>1. CASE prompt = None
    BY <1>1, <1>3, <1>6, <2>1, IgnoredChecks DEF UiSubmitPrompt, UiCancelPrompt
  <2>2. CASE prompt # None
    <3>1. prompt.session \in Session /\ Supported \subseteq Group
      BY <2>2, Parts, ObjectsAssumption DEF PanelOK, Prompt
    <3> QED BY <1>1, <1>3, <1>6, <2>2, <3>1, HandlersCheck
            DEF UiSubmitPrompt, UiCancelPrompt
  <2> QED BY <2>1, <2>2
<1>7. ASSUME NEW s \in Session, ReceiveStatus(s)
      PROVE  AuthIsLive'
  <2>1. /\ statusQ[s] \in Seq(StatusClass) /\ statusQ[s] # <<>>
        /\ StatusChanged(s, Head(statusQ[s]), <<Publish>>)
    BY <1>7, Parts DEF BusOK, Openvpn3TypeOK, ReceiveStatus
  <2>2. Head(statusQ[s]) \in StatusClass
    BY <2>1
  <2> QED BY <1>1, <1>3, <2>1, <2>2, HandlersCheck
<1>8. ASSUME NEW s \in Session, ReceiveAttention(s)
      PROVE  AuthIsLive'
  <2>1. {Head(attentionQ[s])} \cap Recognised \in SUBSET Group
    BY ObjectsAssumption
  <2> QED BY <1>1, <1>3, <1>8, <2>1, HandlersCheck DEF ReceiveAttention
<1>9. CASE ReceiveRemoved
  <2>1. removedQ \in Seq(Session) /\ removedQ # <<>>
    BY <1>9, Parts DEF BusOK, Openvpn3TypeOK, ReceiveRemoved
  <2>2. Head(removedQ) \in Session
    BY <2>1
  <2> QED BY <1>1, <1>3, <1>9, <2>2, HandlersCheck DEF ReceiveRemoved
<1> QED BY <1>4, <1>5, <1>6, <1>7, <1>8, <1>9 DEF Ui, Signal

\* What is left to do once the first checks are over checks nothing.
LEMMA RestChecksNone ==
  ASSUME todo \in Seq(Step), todo # <<>>, AuthIsLive,
         Head(todo).op \notin BeforeCheck
  PROVE  Rest \in Seq(Unchecking)
<1>1. Rest \in Seq(Step) /\ Head(todo) = todo[1]
  BY DEF Rest
<1>2. \A i \in 1..Len(Rest) :
        Rest[i] = todo[i + 1] /\ i + 1 \in 1..Len(todo) /\ 1 \in 1..(i + 1) - 1
  BY DEF Rest
<1>3. \A i \in 1..Len(Rest) : Rest[i] \in Unchecking
  BY <1>1, <1>2 DEF AuthIsLive, ChecksFirst, Unchecking
<1> QED BY <1>1, <1>3

\* The calls that may come before a check leave the Machine alone.
LEMMA CallBeforeCheck ==
  ASSUME IInv, AuthIsLive,
         ExecEnableLogForward \/ ExecProvideInput \/ ExecClosePrompt
  PROVE  AuthIsLive'
<1>1. /\ todo \in Seq(Step) /\ todo # <<>> /\ todo' = Rest
      /\ UNCHANGED machineVars
  BY Parts DEF ExecEnableLogForward, ExecProvideInput, ExecClosePrompt, Doing,
     Done
<1>2. \A i \in 1..Len(Rest) : Rest[i] = todo[i + 1] /\ i + 1 \in 1..Len(todo)
  BY <1>1 DEF Rest
<1>3. Len(Rest) \in Nat
  BY <1>1 DEF Rest
<1>4. ChecksFirst(Rest)
  <2> SUFFICES ASSUME NEW i \in 1..Len(Rest), Rest[i].op \in CheckOps,
                      NEW j \in 1..i - 1
               PROVE  Rest[j].op \in BeforeCheck
    BY DEF ChecksFirst
  <2>1. /\ todo[i + 1].op \in CheckOps /\ i + 1 \in 1..Len(todo)
        /\ j + 1 \in 1..(i + 1) - 1
    BY <1>2
  <2>2. j \in 1..Len(Rest)
    BY <1>3
  <2> QED BY <1>2, <2>1, <2>2 DEF AuthIsLive, ChecksFirst
<1>5. ChecksFirst(todo)'
  BY <1>1, <1>4 DEF ChecksFirst
<1> QED BY <1>1, <1>2, <1>5 DEF AuthIsLive, machineVars

\* A check preserves it: no prompt is open when one is made.
LEMMA ChecksMade ==
  ASSUME IInv, AuthIsLive, ExecCheckReady \/ ExecAskQueue
  PROVE  AuthIsLive'
<1> DEFINE s == Head(todo).session
<1>1. /\ todo \in Seq(Step) /\ todo # <<>> /\ Head(todo) = todo[1]
      /\ 1 \in 1..Len(todo) /\ Head(todo).op \in CheckOps
  BY Parts DEF ExecCheckReady, ExecAskQueue, Doing, CheckOps
<1>2. s \in Session
  BY <1>1, HeadTypes DEF CheckOps
<1>3. ~promptOpen /\ Before /\ ShowsAuth
  BY <1>1, Parts DEF AuthIsLive, ShowsAuth
<1>4. Rest \in Seq(Unchecking)
  BY <1>1, RestChecksNone DEF CheckOps, BeforeCheck
<1>5. CheckedTurn(Rest)
  <2>1. Ignored(Rest) => CheckedTurn(Rest)
    BY <1>3, IgnoredChecks
  <2>2. CASE ExecCheckReady
    <3>1. CASE SessionReady(s, Rest)
      BY <1>2, <1>3, <3>1, HandlersCheck
    <3>2. CASE Returns(<<AskQueue(s)>>, Rest) /\ UNCHANGED machineVars
      BY <1>2, <1>3, <3>2, CheckingBatches DEF CheckedTurn, machineVars
    <3> QED BY <2>1, <2>2, <3>1, <3>2 DEF ExecCheckReady
  <2>3. CASE ExecAskQueue
    <3>1. asks[s] \cap Recognised \in SUBSET Group
      BY ObjectsAssumption
    <3> QED BY <1>2, <1>3, <2>1, <2>3, <3>1, HandlersCheck DEF ExecAskQueue
  <2> QED BY <2>2, <2>3
<1> QED BY <1>4, <1>5, CheckedOnTurn

\* Neither a found session nor a created one comes while a prompt is open.
LEMMA ArrivalsCheck ==
  ASSUME IInv, AuthIsLive, PromptLives, FreshAdopts,
         AdoptStatusRead \/ TunnelCreated
  PROVE  AuthIsLive'
<1> DEFINE s == Head(todo).session
<1>1. /\ todo \in Seq(Step) /\ todo # <<>> /\ Head(todo) = todo[1]
      /\ 1 \in 1..Len(todo) /\ Head(todo).op \in {"AdoptAs", "Created"}
  BY Parts DEF AdoptStatusRead, TunnelCreated, Doing
<1>2. s \in Session /\ Before /\ ShowsAuth
  BY <1>1, HeadTypes, Parts DEF AuthIsLive, ShowsAuth
<1>3. Rest \in Seq(Unchecking)
  BY <1>1, RestChecksNone DEF BeforeCheck
<1>4. CASE AdoptStatusRead
  <2>1. Head(todo).op = "AdoptAs"
    BY <1>4 DEF AdoptStatusRead, Doing
  <2>2. ~promptOpen /\ Head(todo).status \in StatusClass
    BY <1>1, <2>1, HeadTypes DEF FreshAdopts, AdoptOps
  <2>3. SubscribeTo(s) \in Unchecking
    BY <1>2 DEF SubscribeTo, Unchecking, CheckOps, Step
  <2>4. <<SubscribeTo(s)>> \o Rest \in Seq(Unchecking)
    BY <1>3, <2>3
  <2>5. CheckedTurn(<<SubscribeTo(s)>> \o Rest)
    BY <1>2, <1>4, <2>2, HandlersCheck DEF AdoptStatusRead
  <2> QED BY <2>4, <2>5, CheckedOnTurn
<1>5. CASE TunnelCreated
  <2>1. Head(todo).op = "Created"
    BY <1>5 DEF TunnelCreated, Doing
  <2>2. Hands = {} /\ ~Doing("OpenPrompt")
    BY <1>1, <2>1, Parts DEF StartsAlone, StartOps, Hands, Doing
  <2>3. ~promptOpen
    BY <2>2 DEF PromptLives
  <2>4. CheckedTurn(Rest)
    BY <1>2, <1>5, <2>3, HandlersCheck DEF TunnelCreated
  <2> QED BY <1>3, <2>4, CheckedOnTurn
<1> QED BY <1>4, <1>5

\* So does what the worker does with the Machine in between.
LEMMA WorkChecks ==
  ASSUME IInv, AuthIsLive,
         \/ ExecReconcileTeardown \/ HandleStatusRead \/ ExecSelect
         \/ ExecDisconnectActive
  PROVE  AuthIsLive'
<1>1. /\ todo \in Seq(Step) /\ todo # <<>>
      /\ Head(todo).op \in {"ReconcileTeardown", "StatusRead", "Select",
                            "DisconnectActive"}
  BY Parts DEF ExecReconcileTeardown, HandleStatusRead, ExecSelect,
     ExecDisconnectActive, Doing
<1>2. Before /\ ShowsAuth
  BY Parts DEF AuthIsLive, ShowsAuth
<1>3. Rest \in Seq(Unchecking)
  BY <1>1, RestChecksNone DEF BeforeCheck
<1>4. CheckedTurn(Rest)
  <2>1. CASE ExecReconcileTeardown
    <3>1. awaitingTeardown \in Session \cup {None}
      BY <1>2 DEF Before, MachineTypeOK
    <3> QED BY <1>2, <2>1, <3>1, IgnoredChecks, HandlersCheck
            DEF ExecReconcileTeardown
  <2>2. CASE HandleStatusRead
    <3>1. Head(todo).session \in Session /\ Head(todo).status \in StatusClass
      BY <1>1, <2>2, HeadTypes DEF HandleStatusRead, Doing
    <3> QED BY <1>2, <2>2, <3>1, HandlersCheck DEF HandleStatusRead
  <2>3. CASE ExecSelect
    <3>1. Head(todo).config \in Config
      BY <1>1, <2>3, HeadTypes DEF ExecSelect, Doing
    <3> QED BY <1>2, <2>3, <3>1, HandlersCheck DEF ExecSelect
  <2>4. CASE ExecDisconnectActive
    BY <1>2, <2>4, HandlersCheck DEF ExecDisconnectActive
  <2> QED BY <2>1, <2>2, <2>3, <2>4
       DEF ExecReconcileTeardown, HandleStatusRead, ExecSelect,
           ExecDisconnectActive
<1> QED BY <1>3, <1>4, CheckedOnTurn

\* The other calls leave the Machine alone and check nothing.
LEMMA CallsCheckNone ==
  ASSUME IInv, AuthIsLive,
         \/ AdoptExisting \/ SubscribeSession \/ WatchSessionManager
         \/ ExecConnect \/ ExecDisconnect \/ ExecOpenPrompt \/ ExecNote
         \/ ExecReconcileStatus \/ ExecNewTunnel \/ ExecPublish
         \/ ExecPublishIfNot
  PROVE  AuthIsLive'
<1>1. /\ todo \in Seq(Step) /\ todo # <<>>
      /\ Head(todo).op \in {"Adopt", "SubscribeTo", "WatchManager", "Connect",
                            "Disconnect", "OpenPrompt", "Note",
                            "ReconcileStatus", "NewTunnel", "Publish",
                            "PublishIfNot"}
  BY Parts
     DEF AdoptExisting, SubscribeSession, WatchSessionManager, ExecConnect,
         ExecDisconnect, ExecOpenPrompt, ExecNote, ExecReconcileStatus,
         ExecNewTunnel, TunnelStarts, TunnelRefused, ExecPublish,
         ExecPublishIfNot, Doing
<1>2. UNCHANGED machineVars
  BY DEF AdoptExisting, SubscribeSession, WatchSessionManager, ExecConnect,
         ExecDisconnect, ExecOpenPrompt, ExecNote, ExecReconcileStatus,
         ExecNewTunnel, TunnelStarts, TunnelRefused, ExecPublish,
         ExecPublishIfNot
<1>3. Rest \in Seq(Unchecking)
  BY <1>1, RestChecksNone DEF BeforeCheck
<1>4. Done \/ \E x \in Unchecking : Returns(<<x>>, Rest)
  <2>1. CASE AdoptExisting /\ ~Done
    <3>1. PICK s \in Session :
            Exists(s) /\ Returns(<<AdoptAs(s, real[s])>>, Rest)
      BY <2>1 DEF AdoptExisting
    <3>2. real[s] \in StatusClass
      BY <3>1, Parts DEF BusOK, Openvpn3TypeOK, Exists
    <3>3. AdoptAs(s, real[s]) \in Unchecking
      BY <3>2 DEF AdoptAs, Unchecking, Step, CheckOps
    <3> QED BY <3>1, <3>3
  <2>2. CASE ExecReconcileStatus /\ ~Done
    <3>1. /\ active # None /\ Exists(active)
          /\ Returns(<<StatusRead(active, real[active])>>, Rest)
      BY <2>2 DEF ExecReconcileStatus
    <3>2. active \in Session /\ real[active] \in StatusClass
      BY <3>1, Parts DEF Before, MachineTypeOK, BusOK, Openvpn3TypeOK, Exists
    <3>3. StatusRead(active, real[active]) \in Unchecking
      BY <3>2 DEF StatusRead, Unchecking, Step, CheckOps
    <3> QED BY <3>1, <3>3
  <2>3. CASE TunnelStarts
    <3>1. PICK s \in Session : Returns(<<Created(s)>>, Rest)
      BY <2>3 DEF TunnelStarts
    <3>2. Created(s) \in Unchecking
      BY DEF Created, Unchecking, Step, CheckOps
    <3> QED BY <3>1, <3>2
  <2> QED BY <2>1, <2>2, <2>3
       DEF AdoptExisting, SubscribeSession, WatchSessionManager, ExecConnect,
           ExecDisconnect, ExecOpenPrompt, ExecNote, ExecReconcileStatus,
           ExecNewTunnel, TunnelRefused, ExecPublish, ExecPublishIfNot
<1>5. todo' \in Seq(Unchecking)
  <2>1. \A x \in Unchecking : <<x>> \o Rest \in Seq(Unchecking)
    BY <1>3
  <2> QED BY <1>3, <1>4, <2>1 DEF Done, Returns
<1> QED BY <1>2, <1>5, UncheckedStays

\* Every step preserves it.
LEMMA AuthNext ==
  IInv /\ PromptLives /\ FreshAdopts /\ AuthIsLive /\ [Next]_vars => AuthIsLive'
<1> SUFFICES ASSUME IInv, PromptLives, FreshAdopts, AuthIsLive, [Next]_vars
             PROVE  AuthIsLive'
  OBVIOUS
<1>1. CASE Work
  BY <1>1, CallBeforeCheck, ChecksMade, ArrivalsCheck, WorkChecks,
     CallsCheckNone DEF Work, Call
<1>2. CASE Service \/ UNCHANGED vars
  BY <1>2 DEF Service, vars, machineVars, AuthIsLive, ChecksFirst
<1> QED BY <1>1, <1>2, InputsCheck DEF Next

\* No prompt is open at first, and nothing is checked.
LEMMA AuthInit == Init => AuthIsLive
BY DEF Init, MachineInit, AuthIsLive, ChecksFirst, CheckOps, Adopt,
       WatchManager, Publish

-----------------------------------------------------------------------------
(* The end of a session in hand *)

\* Of a worker that listens to the manager before any session has ended.
EndsAreWatched == ~watching => \A s \in Session : real[s] # "Gone"

\* PanelIsCurrent needs it: that a session in hand is gone has been signalled,
\* and the signal still waits to be received.
EndsSignalled ==
  \A s \in Held \cup Adopting : real[s] = "Gone" => s \in Range(removedQ)

\* A queue holds what it held and what joins it; taking its head off loses
\* only that.
LEMMA QueueRange ==
  ASSUME NEW q \in Seq(Session), NEW s \in Session
  PROVE  /\ Range(q) \subseteq Range(Append(q, s))
         /\ s \in Range(Append(q, s))
         /\ q # <<>> => Range(q) \subseteq Range(Tail(q)) \cup {Head(q)}
<1>1. /\ DOMAIN q = 1..Len(q) /\ Len(q) \in Nat
      /\ DOMAIN Append(q, s) = 1..(Len(q) + 1)
      /\ \A i \in 1..Len(q) : Append(q, s)[i] = q[i]
      /\ Append(q, s)[Len(q) + 1] = s
  OBVIOUS
<1>2. ASSUME q # <<>>
      PROVE  Range(q) \subseteq Range(Tail(q)) \cup {Head(q)}
  <2> SUFFICES ASSUME NEW i \in 1..Len(q)
               PROVE  q[i] \in Range(Tail(q)) \cup {Head(q)}
    BY <1>1 DEF Range
  <2>1. /\ DOMAIN Tail(q) = 1..(Len(q) - 1)
        /\ \A j \in 1..(Len(q) - 1) : Tail(q)[j] = q[j + 1]
        /\ Head(q) = q[1]
    BY <1>2
  <2>2. CASE i = 1
    BY <2>1, <2>2
  <2>3. CASE i # 1
    <3>1. i - 1 \in 1..(Len(q) - 1) /\ Tail(q)[i - 1] = q[i]
      BY <1>1, <2>1, <2>3
    <3> QED BY <2>1, <3>1 DEF Range
  <2> QED BY <2>2, <2>3
<1>3. Range(q) \subseteq Range(Append(q, s))
  <2>1. 1..Len(q) \subseteq 1..(Len(q) + 1)
    BY <1>1
  <2> QED BY <1>1, <2>1 DEF Range
<1>4. s \in Range(Append(q, s))
  <2>1. Len(q) + 1 \in 1..(Len(q) + 1)
    BY <1>1
  <2> QED BY <1>1, <2>1 DEF Range
<1> QED BY <1>2, <1>3, <1>4

\* What the worker does ends no session and takes no removal back.
LEMMA WorkOnBus ==
  ASSUME IInv, Work
  PROVE  /\ UNCHANGED removedQ
         /\ \A s \in Session : real'[s] = real[s] \/ Exists(s)'
<1>1. CASE TunnelStarts
  <2>1. PICK s \in Session, requests \in SUBSET Group : StartTunnel(s, requests)
    BY <1>1 DEF TunnelStarts
  <2>2. /\ real' = [real EXCEPT ![s] = NoChange]
        /\ UNCHANGED removedQ
    BY <2>1 DEF StartTunnel, queueVars
  <2>3. real \in [Session -> StatusClass \cup {"Unborn", "Gone"}]
    BY Parts DEF BusOK, Openvpn3TypeOK
  <2> QED BY <2>2, <2>3 DEF Exists, NoChange
<1>2. CASE ~TunnelStarts
  <2>1. UNCHANGED <<real, removedQ>>
    BY <1>2
       DEF Work, Call, AdoptExisting, AdoptStatusRead, SubscribeSession,
           WatchSessionManager, TunnelCreated, ExecEnableLogForward,
           ExecConnect, ExecDisconnect, ExecOpenPrompt, ExecClosePrompt,
           ExecProvideInput, ExecNote, ExecCheckReady, ExecAskQueue,
           ExecReconcileTeardown, ExecReconcileStatus, HandleStatusRead,
           ExecNewTunnel, TunnelRefused, ExecSelect, ExecDisconnectActive,
           ExecPublish, ExecPublishIfNot, Subscribe, Watch, ForwardLog, Dial,
           Stop, Answer, openvpn3Vars, serviceVars, queueVars
  <2> QED BY <2>1 DEF Exists
<1> QED BY <1>1, <1>2

\* A session comes into the worker's hands only while it is there.
LEMMA HeldArrive ==
  ASSUME IInv, SInv, Ui \/ Signal \/ Settle \/ Work,
         NEW s \in (Held \cup Adopting)'
  PROVE  s \in Held \cup Adopting \/ Exists(s)'
<1>1. ASSUME Places, Tells
      PROVE  s \in Held
  BY <1>1 DEF Places, Settled, Tells, Held, Hands, Newborn, Adopting
<1>2. CASE Ui \/ Signal \/ Settle
  BY <1>1, <1>2, UiPlaces, InputPlaces, InputTells
<1>3. CASE \/ ExecCheckReady \/ ExecAskQueue \/ ExecReconcileTeardown
           \/ ExecReconcileStatus \/ HandleStatusRead \/ ExecSelect
           \/ ExecDisconnectActive
  <2>1. /\ todo # <<>>
        /\ Head(todo).op \notin Notices
    BY <1>3 DEF ExecCheckReady, ExecAskQueue, ExecReconcileTeardown,
       ExecReconcileStatus, HandleStatusRead, ExecSelect, ExecDisconnectActive,
       Doing, Notices
  <2>2. Rest \in Seq(CalmStep)
    BY <2>1, RestIsCalm DEF SInv
  <2> QED BY <1>1, <1>3, <2>2, EventWorkPlaces, EventWorkTells
<1>4. CASE \/ SubscribeSession \/ WatchSessionManager
           \/ ExecEnableLogForward \/ ExecConnect \/ ExecDisconnect
           \/ ExecOpenPrompt \/ ExecClosePrompt \/ ExecProvideInput
           \/ ExecNote \/ ExecPublish \/ ExecPublishIfNot
  <2>1. /\ todo # <<>> /\ Done /\ UNCHANGED machineVars
    BY <1>4 DEF SubscribeSession, WatchSessionManager, ExecEnableLogForward,
       ExecConnect, ExecDisconnect, ExecOpenPrompt, ExecClosePrompt,
       ExecProvideInput, ExecNote, ExecPublish, ExecPublishIfNot, Doing
  <2> QED BY <1>1, <2>1, DonePlaces DEF SInv, Tells, machineVars
<1>5. CASE AdoptExisting
  <2>1. todo # <<>> /\ Head(todo).op = "Adopt" /\ UNCHANGED machineVars
        /\ UNCHANGED real
    BY <1>5 DEF AdoptExisting, Doing, openvpn3Vars, serviceVars
  <2>2. CASE Done
    BY <1>1, <2>1, <2>2, DonePlaces DEF SInv, Tells, machineVars
  <2>3. CASE ~Done
    <3>1. PICK t \in Session :
            Exists(t) /\ Returns(<<AdoptAs(t, real[t])>>, Rest)
      BY <1>5, <2>3 DEF AdoptExisting
    <3>2. Rest \in Seq(CalmStep)
      BY <2>1, RestIsCalm DEF SInv, Notices
    <3>3. Head(todo') = AdoptAs(t, real[t])
      BY <3>1, <3>2 DEF Returns
    <3> QED BY <2>1, <3>1, <3>3
            DEF Held, Hands, Newborn, Adopting, Doing, AdoptAs, Exists,
                machineVars
  <2> QED BY <2>2, <2>3
<1>6. CASE AdoptStatusRead
  <2>1. /\ active' \in {active, Head(todo).session}
        /\ awaitingTeardown' = awaitingTeardown
    BY <1>6 DEF AdoptStatusRead, ExternalSessionSeen, Ignored, machineVars
  <2>2. Head(todo).session \in Adopting
    BY <1>6 DEF AdoptStatusRead, Adopting
  <2> QED BY <1>6, <2>1, <2>2, AdoptStatusPlaces
          DEF Settled, Held, Hands, Newborn, Adopting
<1>7. CASE ExecNewTunnel
  <2>1. todo # <<>> /\ Head(todo).op = "NewTunnel" /\ UNCHANGED machineVars
    BY <1>7 DEF ExecNewTunnel, TunnelStarts, TunnelRefused, Doing
  <2>2. CASE Done
    BY <1>1, <2>1, <2>2, DonePlaces DEF SInv, Tells, machineVars
  <2>3. CASE ~Done
    <3>1. PICK t \in Session, requests \in SUBSET Group :
            StartTunnel(t, requests) /\ Returns(<<Created(t)>>, Rest)
      BY <1>7, <2>3 DEF ExecNewTunnel, TunnelStarts, TunnelRefused
    <3>2. Rest \in Seq(CalmStep)
      BY <2>1, RestIsCalm DEF SInv, Notices
    <3>3. Head(todo') = Created(t)
      BY <3>1, <3>2 DEF Returns
    <3>4. Exists(t)'
      BY <3>1, Parts DEF StartTunnel, Exists, NoChange, BusOK, Openvpn3TypeOK
    <3> QED BY <2>1, <3>3, <3>4
            DEF Held, Hands, Newborn, Adopting, Doing, Created, machineVars
  <2> QED BY <2>2, <2>3
<1>8. CASE TunnelCreated
  <2>1. /\ todo # <<>> /\ Head(todo).op = "Created"
        /\ Head(todo).session \in Newborn /\ active' = Head(todo).session
        /\ awaitingTeardown' = awaitingTeardown
    BY <1>8 DEF TunnelCreated, SessionCreated, Newborn, Doing
  <2>2. Head(todo).session \in Session /\ Rest \in Seq(CalmStep)
    BY <2>1, HeadTypes, Parts, RestIsCalm DEF SInv, Notices
  <2>3. ~Doing("Created")' /\ ~Doing("AdoptAs")'
    BY <1>8, <2>2, CalmBatches, CalmBatch
       DEF TunnelCreated, SessionCreated, Settled
  <2> QED BY <2>1, <2>3 DEF Held, Hands, Newborn, Adopting
<1> QED BY <1>2, <1>3, <1>4, <1>5, <1>6, <1>7, <1>8 DEF Work, Call

\* A removal leaves the queue only with the session it is about.
LEMMA RemovalTaken ==
  ASSUME IInv, SInv, ReceiveRemoved, NEW s \in (Held \cup Adopting)',
         s \in Range(removedQ)
  PROVE  s \in Range(removedQ')
<1>1. removedQ \in Seq(Session) /\ removedQ # <<>>
  BY Parts DEF BusOK, Openvpn3TypeOK, ReceiveRemoved
<1>2. Places
  BY InputPlaces DEF Signal
<1>3. s \in Hands'
  BY <1>2 DEF Places, Settled, Held, Newborn, Adopting
<1>4. s # Head(removedQ)
  <2>1. SessionRemoved(Head(removedQ), <<Publish>>) /\ Exclusive
    BY Parts DEF ReceiveRemoved, Before
  <2> QED BY <1>3, <2>1
          DEF SessionRemoved, FinishTeardown, Ignored, machineVars, Hands,
              Exclusive
<1>5. Range(removedQ) \subseteq Range(Tail(removedQ)) \cup {Head(removedQ)}
  <2>1. Head(removedQ) \in Session
    BY <1>1
  <2> QED BY <1>1, <2>1, QueueRange
<1> QED BY <1>4, <1>5 DEF ReceiveRemoved

\* Every step preserves it when no signal is lost and the worker listens.
LEMMA EndsNext ==
  /\ ~Lossy /\ IInv /\ SInv /\ TInv /\ EndsAreWatched' /\ EndsSignalled
  /\ [Next]_vars
  => EndsSignalled'
<1> SUFFICES ASSUME ~Lossy, IInv, SInv, TInv, EndsAreWatched', EndsSignalled,
                    [Next]_vars, NEW s \in (Held \cup Adopting)',
                    real'[s] = "Gone"
             PROVE  s \in Range(removedQ')
  BY DEF EndsSignalled
<1>1. /\ real \in [Session -> StatusClass \cup {"Unborn", "Gone"}]
      /\ removedQ \in Seq(Session)
  BY Parts DEF BusOK, Openvpn3TypeOK
<1>2. Held \cup Adopting \subseteq Session
  BY HeadTypes, Parts
     DEF Before, MachineTypeOK, Held, Hands, Newborn, Adopting, Doing
<1>3. CASE Ui \/ Signal \/ Settle
  <2>1. UNCHANGED real
    BY <1>3, UiPlaces, InputPlaces DEF Known
  <2>2. s \in Held \cup Adopting
    BY <1>3, HeldArrive DEF Exists
  <2>3. s \in Range(removedQ)
    BY <2>1, <2>2 DEF EndsSignalled
  <2>4. ReceiveRemoved \/ removedQ' = removedQ
    BY <1>3
       DEF Ui, Signal, Settle, Receives, UiSelectProfile, UiDisconnect,
           UiRefresh, UiDismissFailure, UiManageProfiles, UiSubmitPrompt,
           UiCancelPrompt, ReceiveStatus, ReceiveAttention, openvpn3Vars,
           queueVars
  <2> QED BY <2>3, <2>4, RemovalTaken
<1>4. CASE Work
  <2>1. s \in Held \cup Adopting
    BY <1>4, HeldArrive DEF Exists
  <2>2. real[s] = "Gone" /\ removedQ' = removedQ
    BY <1>2, <1>4, <2>1, WorkOnBus DEF Exists
  <2> QED BY <2>1, <2>2 DEF EndsSignalled
<1>5. CASE Service
  <2>1. s \in Held \cup Adopting /\ s \in Session
    BY <1>2, <1>5
       DEF Service, machineVars, Held, Hands, Newborn, Adopting, Doing
  <2>2. PICK t \in Session :
          \/ \E x \in Reports : ReportStatus(t, x)
          \/ \E g \in Group : RequireAttention(t, g)
          \/ RemoveSession(t)
          \/ StartFromTerminal(t)
    BY <1>5 DEF Service, Openvpn3Next
  <2>3. CASE RemoveSession(t)
    <3>1. /\ real' = [real EXCEPT ![t] = "Gone"] /\ watching' = watching
          /\ \/ ~watching /\ removedQ' = removedQ
             \/ removedQ' = Append(removedQ, t)
      BY <2>3 DEF RemoveSession
    <3>2. watching
      BY <2>1, <3>1 DEF EndsAreWatched
    <3>3. /\ Range(removedQ) \subseteq Range(removedQ')
          /\ t \in Range(removedQ')
      BY <1>1, <3>1, <3>2, QueueRange
    <3> QED BY <1>1, <2>1, <3>1, <3>3 DEF EndsSignalled
  <2>4. CASE ~RemoveSession(t)
    <3>1. /\ UNCHANGED removedQ
          /\ \/ UNCHANGED real
             \/ \E x \in Reports \cup {"Connecting"} :
                  real' = [real EXCEPT ![t] = x]
      BY <2>2, <2>4
         DEF ReportStatus, RequireAttention, StartFromTerminal, queueVars
    <3>2. "Gone" \notin Reports \cup {"Connecting"}
      BY Openvpn3Assumption DEF StatusClass, ConnectionState, NoChange
    <3>3. real[s] = "Gone"
      BY <1>1, <2>1, <3>1, <3>2
    <3> QED BY <2>1, <3>1, <3>3 DEF EndsSignalled
  <2> QED BY <2>3, <2>4
<1>6. CASE UNCHANGED vars
  <2>1. s \in Held \cup Adopting /\ UNCHANGED <<real, removedQ>>
    BY <1>6 DEF vars, machineVars, openvpn3Vars, serviceVars, queueVars, Held,
       Hands, Newborn, Adopting, Doing
  <2> QED BY <2>1 DEF EndsSignalled
<1> QED BY <1>3, <1>4, <1>5, <1>6 DEF Next

\* The worker has no session in hand at first.
LEMMA EndsInit == Init => EndsSignalled
BY DEF Init, MachineInit, EndsSignalled, Held, Hands, Newborn, Adopting,
       Doing, Adopt

\* With no sessions but the applet's own there is none before the worker
\* watches for their ends.
EarlyWatch ==
  ~watching =>
    /\ todo \in {<<Adopt, WatchManager, Publish>>, <<WatchManager, Publish>>}
    /\ \A s \in Session : real[s] = "Unborn"

\* Once it watches it watches on.
LEMMA WatchesOn == [Next]_vars => UNCHANGED watching \/ watching'
<1> USE DEF openvpn3Vars
<1>1. Ui \/ Settle => UNCHANGED watching
  BY DEF Ui, Settle, UiSelectProfile, UiDisconnect, UiRefresh,
         UiDismissFailure, UiManageProfiles, UiSubmitPrompt, UiCancelPrompt,
         Receives
<1>2. Signal => UNCHANGED watching
  BY DEF Signal, ReceiveStatus, ReceiveAttention, ReceiveRemoved
<1>3. Work => UNCHANGED watching \/ watching'
  BY DEF Work, Call, AdoptExisting, AdoptStatusRead, SubscribeSession,
         WatchSessionManager, TunnelCreated, ExecEnableLogForward,
         ExecConnect, ExecDisconnect, ExecOpenPrompt, ExecClosePrompt,
         ExecProvideInput, ExecNote, ExecCheckReady, ExecAskQueue,
         ExecReconcileTeardown, ExecReconcileStatus, HandleStatusRead,
         ExecNewTunnel, TunnelStarts, TunnelRefused, ExecSelect,
         ExecDisconnectActive, ExecPublish, ExecPublishIfNot, Subscribe,
         Watch, ForwardLog, Dial, Stop, Answer, StartTunnel
<1>4. Service => UNCHANGED watching
  BY DEF Service, Openvpn3Next, ReportStatus, RequireAttention, RemoveSession,
         StartFromTerminal
<1> QED BY <1>1, <1>2, <1>3, <1>4 DEF Next, vars

\* What it does first are the steps they are named.
LEMMA FirstSteps ==
  ASSUME Work
  PROVE  /\ Head(todo).op = "Adopt" => AdoptExisting
         /\ Head(todo).op = "WatchManager" => WatchSessionManager
BY DEF Work, Call, AdoptExisting, AdoptStatusRead, SubscribeSession,
       WatchSessionManager, TunnelCreated, ExecEnableLogForward,
       ExecConnect, ExecDisconnect, ExecOpenPrompt, ExecClosePrompt,
       ExecProvideInput, ExecNote, ExecCheckReady, ExecAskQueue,
       ExecReconcileTeardown, ExecReconcileStatus, HandleStatusRead,
       ExecNewTunnel, TunnelStarts, TunnelRefused, ExecSelect,
       ExecDisconnectActive, ExecPublish, ExecPublishIfNot, Doing

\* Every step preserves it, when the call that watches does not fail.
LEMMA EarlyNext ==
  ASSUME Session = Own, "Watch" \notin FaultyCalls
  PROVE  EarlyWatch /\ [Next]_vars => EarlyWatch'
<1> SUFFICES ASSUME EarlyWatch, [Next]_vars, ~watching' PROVE EarlyWatch'
  BY DEF EarlyWatch
<1>1. /\ ~watching /\ \A s \in Session : real[s] = "Unborn"
      /\ \/ todo = <<Adopt, WatchManager, Publish>>
         \/ todo = <<WatchManager, Publish>>
  BY WatchesOn DEF EarlyWatch
<1>2. ~Idle
  BY <1>1 DEF Idle
<1>3. CASE Work
  <2>1. CASE todo = <<Adopt, WatchManager, Publish>>
    <3>1. Head(todo).op = "Adopt" /\ Rest = <<WatchManager, Publish>>
      BY <2>1 DEF Adopt, Rest
    <3>2. AdoptExisting
      BY <1>3, <3>1, FirstSteps
    <3>3. Done /\ UNCHANGED openvpn3Vars
      BY <1>1, <3>2 DEF AdoptExisting, Exists
    <3> QED BY <1>1, <3>1, <3>3 DEF EarlyWatch, Done, openvpn3Vars, serviceVars
  <2>2. CASE todo = <<WatchManager, Publish>>
    <3>1. Head(todo).op = "WatchManager"
      BY <2>2 DEF WatchManager
    <3>2. watching'
      BY <1>3, <3>1, FirstSteps DEF WatchSessionManager, Watch, Fails
    <3> QED BY <3>2
  <2> QED BY <1>1, <2>1, <2>2
<1>4. CASE Service
  BY <1>1, <1>4
     DEF Service, Openvpn3Next, ReportStatus, RequireAttention, RemoveSession,
         StartFromTerminal, Running, Exists
<1>5. CASE UNCHANGED vars
  BY <1>1, <1>5 DEF EarlyWatch, vars, openvpn3Vars, serviceVars
<1>6. ~(Ui \/ Signal \/ Settle)
  BY <1>2 DEF Ui, Signal, Settle, UiSelectProfile, UiDisconnect, UiRefresh,
     UiDismissFailure, UiManageProfiles, UiSubmitPrompt, UiCancelPrompt,
     Receives, ReceiveStatus, ReceiveAttention, ReceiveRemoved
<1> QED BY <1>3, <1>4, <1>5, <1>6 DEF Next

\* So no session ends unwatched.
LEMMA EarlyIsWatched ==
  ASSUME Session = Own
  PROVE  (Init => EarlyWatch) /\ (EarlyWatch => EndsAreWatched)
BY DEF Init, Openvpn3Init, EarlyWatch, EndsAreWatched

-----------------------------------------------------------------------------
(* The whole snapshot shown *)

\* A snapshot is about to be published.
Publishing == \E i \in 1..Len(todo) : todo[i].op = "Publish"

\* A tick that found the Machine showing x: what it has found since is on
\* display already, or it has changed the state.  It looks at the status of a
\* session on display only while that is connecting, when no prompt is open.
Ticking(x) ==
  \/ /\ state = x /\ shown = Snapshot
     /\ active # None => x = "Connecting"
     /\ \/ todo = <<ReconcileTeardown, ReconcileStatus, PublishIfNot(x)>>
        \/ todo = <<ReconcileStatus, PublishIfNot(x)>>
        \/ active # None /\ \E y \in StatusClass :
              todo = <<StatusRead(active, y), PublishIfNot(x)>>
        \/ \E s \in Session : todo = <<Note(s), PublishIfNot(x)>>
        \/ todo = <<PublishIfNot(x)>>
  \/ state # x /\ todo = <<PublishIfNot(x)>>

\* PanelIsCurrent needs it: what the panel has been shown is what there is to
\* show, or will be published, or the end of a session is still to be received.
ShownCurrent ==
  \/ removedQ # <<>>
  \/ todo = <<>> /\ shown = Snapshot
  \/ Publishing
  \/ \E x \in ConnectionState : Ticking(x)

\* What is to be published is, in the end.
LEMMA PublishingWork ==
  ASSUME IInv, ShownLast, Publishing, Work
  PROVE  Publishing' \/ (todo' = <<>> /\ shown' = Snapshot')
<1>1. todo # <<>> /\ todo \in Seq(Step)
  BY WorkTurns, Parts
<1>2. PICK i \in 1..Len(todo) : todo[i].op = "Publish"
  BY DEF Publishing
<1>3. CASE Head(todo).op \in PublishOps
  <2>1. Len(todo) = 1 /\ todo[1] = Head(todo) /\ todo' = <<>>
    BY <1>1, <1>3, PublishesLast
  <2>2. ExecPublish
    BY <1>2, <1>3, <2>1, PublishesLast DEF ExecPublishIfNot, Doing
  <2> QED BY <2>1, <2>2 DEF ExecPublish, Snapshot, machineVars
<1>4. CASE Head(todo).op \notin PublishOps
  <2>1. PICK cs \in Seq(Unpublished) : Returns(cs, Rest)
    BY <1>4, WorkReturns
  <2>2. i # 1
    BY <1>1, <1>2, <1>4 DEF PublishOps
  <2>3. Rest \in Seq(Step) /\ i - 1 \in 1..Len(Rest) /\ Rest[i - 1] = todo[i]
    BY <1>1, <2>2 DEF Rest
  <2>4. cs \in Seq(Step) /\ Len(cs) \in Nat
    BY DEF Unpublished
  <2>5. /\ Len(cs) + (i - 1) \in 1..Len(todo')
        /\ todo'[Len(cs) + (i - 1)] = Rest[i - 1]
    BY <2>1, <2>3, <2>4 DEF Returns
  <2> QED BY <1>2, <2>3, <2>5 DEF Publishing
<1> QED BY <1>3, <1>4

\* An input is followed by a snapshot, but for a tick.
LEMMA InputPublishes ==
  ASSUME IInv, Ui \/ Signal
  PROVE  Publishing'
<1>1. PICK cs \in Seq(InnerStep) : Returns(cs, <<Publish>>)
  BY UiTurns, SignalTurns DEF Turn
<1>2. Len(cs) \in Nat /\ Len(cs) + 1 \in 1..Len(todo')
      /\ todo'[Len(cs) + 1] = Publish
  BY <1>1 DEF Returns
<1> QED BY <1>2 DEF Publishing, Publish

\* Short batches, put together.
LEMMA ShortConcat ==
  /\ \A a, b \in Step : <<a>> \o <<b>> = <<a, b>>
  /\ \A a, b, c \in Step : <<a, b>> \o <<c>> = <<a, b, c>>
<1>1. ASSUME NEW a \in Step, NEW b \in Step
      PROVE  <<a>> \o <<b>> = <<a, b>>
  <2>1. <<a, b>> = Append(<<a>>, b)
    OBVIOUS
  <2>2. Append(<<a>>, b) = <<a>> \o <<b>>
    BY AppendIsConcat
  <2> QED BY <2>1, <2>2
<1>2. ASSUME NEW a \in Step, NEW b \in Step, NEW c \in Step
      PROVE  <<a, b>> \o <<c>> = <<a, b, c>>
  <2>1. <<a, b, c>> = Append(<<a, b>>, c)
    OBVIOUS
  <2>2. Append(<<a, b>>, c) = <<a, b>> \o <<c>>
    BY AppendIsConcat
  <2> QED BY <2>1, <2>2
<1> QED BY <1>1, <1>2

\* A tick begins with what is shown.
LEMMA TickBegins ==
  ASSUME IInv, ShownCurrent, Settle
  PROVE  ShownCurrent'
<1>1. /\ todo = <<>> /\ UNCHANGED <<machineVars, removedQ, prompt, shown>>
      /\ todo' = Reconcile \o <<PublishIfNot(state)>>
      /\ TransitionInFlight /\ state \in ConnectionState /\ Exclusive
  BY Parts
     DEF Settle, Receives, Idle, openvpn3Vars, queueVars, Before, MachineTypeOK
<1>2. todo' = <<ReconcileTeardown, ReconcileStatus, PublishIfNot(state)>>
  <2>1. /\ ReconcileTeardown \in Step /\ ReconcileStatus \in Step
        /\ PublishIfNot(state) \in Step
    BY <1>1 DEF ReconcileTeardown, ReconcileStatus, PublishIfNot, Step
  <2> QED BY <1>1, <2>1, ShortConcat DEF Reconcile
<1>3. removedQ # <<>> \/ shown = Snapshot
  BY <1>1 DEF ShownCurrent, Publishing, Ticking
<1>4. active # None => state = "Connecting"
  BY <1>1 DEF TransitionInFlight, Exclusive
<1>5. shown = Snapshot => Ticking(state)'
  BY <1>1, <1>2, <1>4 DEF Ticking, Snapshot, machineVars
<1> QED BY <1>1, <1>3, <1>5 DEF ShownCurrent, machineVars

\* The first look of a tick: a teardown that is over has been signalled.
LEMMA TickLooksForEnd ==
  ASSUME IInv, TInv, EndsSignalled, removedQ = <<>>,
         NEW x \in ConnectionState, state = x, shown = Snapshot,
         active # None => x = "Connecting",
         todo = <<ReconcileTeardown, ReconcileStatus, PublishIfNot(x)>>,
         ExecReconcileTeardown
  PROVE  Ticking(x)'
<1>1. awaitingTeardown # None => Exists(awaitingTeardown)
  <2> SUFFICES ASSUME awaitingTeardown # None, ~Exists(awaitingTeardown)
               PROVE  FALSE
    OBVIOUS
  <2>1. awaitingTeardown \in Held
    BY DEF Held, Hands
  <2>2. real[awaitingTeardown] = "Gone"
    BY <2>1 DEF TInv, HeldAreBorn, Exists
  <2>3. awaitingTeardown \in Range(removedQ)
    BY <2>1, <2>2 DEF EndsSignalled
  <2>4. Range(<<>>) = {}
    BY DEF Range
  <2> QED BY <2>3, <2>4
<1>2. Rest = <<ReconcileStatus, PublishIfNot(x)>>
  BY DEF Rest
<1>3. /\ todo' = <<ReconcileStatus, PublishIfNot(x)>>
      /\ UNCHANGED <<machineVars, prompt, shown>>
  BY <1>1, <1>2 DEF ExecReconcileTeardown, Ignored, Returns
<1> QED BY <1>3 DEF Ticking, Snapshot, machineVars

\* The second: a session on display has its status read.
LEMMA TickReads ==
  ASSUME IInv, NEW x \in ConnectionState, state = x, shown = Snapshot,
         active # None => x = "Connecting",
         todo = <<ReconcileStatus, PublishIfNot(x)>>, ExecReconcileStatus
  PROVE  Ticking(x)'
<1>1. Rest = <<PublishIfNot(x)>>
  BY DEF Rest
<1>2. UNCHANGED <<machineVars, prompt, shown>>
  BY DEF ExecReconcileStatus
<1>3. CASE Done
  BY <1>1, <1>2, <1>3 DEF Done, Ticking, Snapshot, machineVars
<1>4. CASE ~Done
  <2>1. /\ active # None /\ Exists(active)
        /\ Returns(<<StatusRead(active, real[active])>>, Rest)
    BY <1>4 DEF ExecReconcileStatus
  <2>2. real[active] \in StatusClass
    BY <2>1, Parts DEF Before, MachineTypeOK, BusOK, Openvpn3TypeOK, Exists
  <2>3. todo' = <<StatusRead(active, real[active]), PublishIfNot(x)>>
    <3>1. active \in Session
      BY <2>1, Parts DEF Before, MachineTypeOK
    <3>2. /\ StatusRead(active, real[active]) \in Step
          /\ PublishIfNot(x) \in Step
      BY <2>2, <3>1 DEF StatusRead, PublishIfNot, Step
    <3> QED BY <1>1, <2>1, <3>2, ShortConcat DEF Returns
  <2> QED BY <1>2, <2>1, <2>2, <2>3 DEF Ticking, Snapshot, machineVars
<1> QED BY <1>3, <1>4

\* The status may change the state on display, and nothing else of what is.
LEMMA TickHandles ==
  ASSUME IInv, AuthIsLive, NEW x \in ConnectionState, NEW y \in StatusClass,
         state = x, shown = Snapshot, active # None, x = "Connecting",
         todo = <<StatusRead(active, y), PublishIfNot(x)>>, HandleStatusRead
  PROVE  Ticking(x)'
<1>1. Rest = <<PublishIfNot(x)>> /\ Head(todo) = StatusRead(active, y)
  BY DEF Rest
<1>2. active \in Session /\ active # awaitingTeardown
  BY Parts DEF Before, MachineTypeOK, Exclusive
<1>3. ~promptOpen
  BY DEF AuthIsLive
<1>4. StatusChanged(active, y, Rest) /\ UNCHANGED <<prompt, shown>>
  BY <1>1 DEF HandleStatusRead, StatusRead
<1>5. ApplyStatus(active, y, Rest) /\ active' = active
  BY <1>2, <1>4 DEF StatusChanged
<1>6. CASE y \in ConnectionState
  <2>1. y # NoChange
    BY <1>6 DEF ConnectionState, NoChange
  <2>2. state' = y /\ Returns(<<>>, Rest)
    BY <1>3, <1>5, <2>1 DEF ApplyStatus, ClosesPrompt
  <2>3. todo' = <<PublishIfNot(x)>>
    BY <1>1, <2>2 DEF Returns
  <2> QED BY <1>4, <1>5, <2>2, <2>3 DEF Ticking, Snapshot
<1>7. CASE y = NoChange
  <2>1. y \notin ConnectionState
    BY <1>7 DEF ConnectionState, NoChange
  <2>2. state' = state /\ Returns(<<Note(active)>>, Rest)
    BY <1>5, <2>1 DEF ApplyStatus
  <2>3. todo' = <<Note(active), PublishIfNot(x)>>
    <3>1. Note(active) \in Step /\ PublishIfNot(x) \in Step
      BY <1>2 DEF Note, PublishIfNot, Step, Command
    <3> QED BY <1>1, <2>2, <3>1, ShortConcat DEF Returns
  <2> QED BY <1>2, <1>4, <1>5, <2>2, <2>3 DEF Ticking, Snapshot
<1> QED BY <1>6, <1>7 DEF StatusClass

\* A status without a display is only noted.
LEMMA TickNotes ==
  ASSUME NEW x \in ConnectionState, NEW s \in Session, state = x,
         shown = Snapshot, active # None => x = "Connecting",
         todo = <<Note(s), PublishIfNot(x)>>, ExecNote
  PROVE  Ticking(x)'
<1>1. Rest = <<PublishIfNot(x)>>
  BY DEF Rest
<1> QED BY <1>1 DEF ExecNote, Done, Ticking, Snapshot, machineVars

\* At its end a tick publishes what it has changed.
LEMMA TickEnds ==
  ASSUME NEW x \in ConnectionState, todo = <<PublishIfNot(x)>>,
         state = x => shown = Snapshot, ExecPublishIfNot
  PROVE  todo' = <<>> /\ shown' = Snapshot'
<1>1. Rest = <<>> /\ Head(todo).state = x
  BY DEF Rest, PublishIfNot
<1> QED BY <1>1 DEF ExecPublishIfNot, Done, Snapshot, machineVars

\* The steps of a tick are what they are named.
LEMMA TickSteps ==
  ASSUME Work
  PROVE  /\ Head(todo).op = "ReconcileTeardown" => ExecReconcileTeardown
         /\ Head(todo).op = "ReconcileStatus" => ExecReconcileStatus
         /\ Head(todo).op = "StatusRead" => HandleStatusRead
         /\ Head(todo).op = "Note" => ExecNote
         /\ Head(todo).op = "PublishIfNot" => ExecPublishIfNot
BY DEF Work, Call, AdoptExisting, AdoptStatusRead, SubscribeSession,
       WatchSessionManager, TunnelCreated, ExecEnableLogForward,
       ExecConnect, ExecDisconnect, ExecOpenPrompt, ExecClosePrompt,
       ExecProvideInput, ExecNote, ExecCheckReady, ExecAskQueue,
       ExecReconcileTeardown, ExecReconcileStatus, HandleStatusRead,
       ExecNewTunnel, TunnelStarts, TunnelRefused, ExecSelect,
       ExecDisconnectActive, ExecPublish, ExecPublishIfNot, Doing

\* A step of a tick goes on with it.
LEMMA TickWork ==
  ASSUME IInv, TInv, AuthIsLive, EndsSignalled, removedQ = <<>>,
         NEW x \in ConnectionState, Ticking(x), Work
  PROVE  Ticking(x)' \/ (todo' = <<>> /\ shown' = Snapshot')
<1>1. CASE todo = <<PublishIfNot(x)>>
  <2>1. Head(todo).op = "PublishIfNot" /\ (state = x => shown = Snapshot)
    BY <1>1 DEF Ticking, PublishIfNot
  <2> QED BY <1>1, <2>1, TickSteps, TickEnds
<1>2. CASE todo # <<PublishIfNot(x)>>
  <2>1. state = x /\ shown = Snapshot /\ (active # None => x = "Connecting")
    BY <1>2 DEF Ticking
  <2>2. CASE todo = <<ReconcileTeardown, ReconcileStatus, PublishIfNot(x)>>
    <3>1. Head(todo).op = "ReconcileTeardown"
      BY <2>2 DEF ReconcileTeardown
    <3> QED BY <2>1, <2>2, <3>1, TickSteps, TickLooksForEnd
  <2>3. CASE todo = <<ReconcileStatus, PublishIfNot(x)>>
    <3>1. Head(todo).op = "ReconcileStatus"
      BY <2>3 DEF ReconcileStatus
    <3> QED BY <2>1, <2>3, <3>1, TickSteps, TickReads
  <2>4. ASSUME NEW y \in StatusClass, active # None,
               todo = <<StatusRead(active, y), PublishIfNot(x)>>
        PROVE  Ticking(x)'
    <3>1. Head(todo).op = "StatusRead"
      BY <2>4 DEF StatusRead
    <3> QED BY <2>1, <2>4, <3>1, TickSteps, TickHandles
  <2>5. ASSUME NEW s \in Session, todo = <<Note(s), PublishIfNot(x)>>
        PROVE  Ticking(x)'
    <3>1. Head(todo).op = "Note"
      BY <2>5 DEF Note
    <3> QED BY <2>1, <2>5, <3>1, TickSteps, TickNotes
  <2> QED BY <1>2, <2>2, <2>3, <2>4, <2>5 DEF Ticking
<1> QED BY <1>1, <1>2

\* The service takes no signal back.
LEMMA RemovalsStay ==
  Service /\ removedQ # <<>> => removedQ' # <<>>
<1> SUFFICES ASSUME Service, removedQ # <<>> PROVE removedQ' # <<>>
  OBVIOUS
<1>1. PICK t \in Session :
        \/ \E x \in Reports : ReportStatus(t, x)
        \/ \E g \in Group : RequireAttention(t, g)
        \/ RemoveSession(t)
        \/ StartFromTerminal(t)
  BY DEF Service, Openvpn3Next
<1>2. removedQ' \in {removedQ, Append(removedQ, t)}
  BY <1>1
     DEF ReportStatus, RequireAttention, RemoveSession, StartFromTerminal,
         queueVars
<1> QED BY <1>2

\* Every step preserves it.
LEMMA ShownCurrentNext ==
  /\ IInv /\ TInv /\ ShownLast /\ AuthIsLive /\ EndsSignalled /\ ShownCurrent
  /\ [Next]_vars
  => ShownCurrent'
<1> SUFFICES ASSUME IInv, TInv, ShownLast, AuthIsLive, EndsSignalled,
                    ShownCurrent, [Next]_vars
             PROVE  ShownCurrent'
  OBVIOUS
<1>1. CASE Ui \/ Signal
  BY <1>1, InputPublishes DEF ShownCurrent
<1>2. CASE Settle
  BY <1>2, TickBegins
<1>3. CASE Work
  <2>1. todo # <<>> /\ removedQ' = removedQ
    BY <1>3, WorkTurns, WorkOnBus
  <2>2. CASE Publishing
    BY <1>3, <2>2, PublishingWork DEF ShownCurrent
  <2>3. ASSUME NEW x \in ConnectionState, Ticking(x), removedQ = <<>>
        PROVE  ShownCurrent'
    BY <1>3, <2>3, TickWork DEF ShownCurrent
  <2> QED BY <2>1, <2>2, <2>3 DEF ShownCurrent
<1>4. CASE Service
  <2>1. UNCHANGED <<machineVars, todo, prompt, shown>>
    BY <1>4 DEF Service
  <2>2. UNCHANGED Snapshot /\ (Publishing => Publishing')
    BY <2>1 DEF Snapshot, machineVars, Publishing
  <2>3. \A x \in ConnectionState : Ticking(x) => Ticking(x)'
    BY <2>1, <2>2 DEF Ticking, machineVars
  <2> QED BY <1>4, <2>1, <2>2, <2>3, RemovalsStay DEF ShownCurrent
<1>5. CASE UNCHANGED vars
  <2>1. UNCHANGED <<machineVars, todo, removedQ, prompt, shown>>
    BY <1>5 DEF vars, openvpn3Vars, queueVars
  <2>2. UNCHANGED Snapshot /\ (Publishing => Publishing')
    BY <2>1 DEF Snapshot, machineVars, Publishing
  <2>3. \A x \in ConnectionState : Ticking(x) => Ticking(x)'
    BY <2>1, <2>2 DEF Ticking, machineVars
  <2> QED BY <2>1, <2>2, <2>3 DEF ShownCurrent
<1> QED BY <1>1, <1>2, <1>3, <1>4, <1>5 DEF Next

\* At first the worker has a snapshot to publish.
LEMMA ShownCurrentInit == Init => ShownCurrent
<1> SUFFICES ASSUME Init PROVE Publishing
  BY DEF ShownCurrent
<1>1. 3 \in 1..Len(todo) /\ todo[3] = Publish
  BY DEF Init
<1> QED BY <1>1 DEF Publishing, Publish

\* What is shown is all there is to show, when the worker is idle and has been
\* told of every session that is gone: also after the ticks that publish nothing.
THEOREM ShownIsWhole ==
  ASSUME ~Lossy
  PROVE  Spec /\ []EndsAreWatched
           => [](Idle /\ removedQ = <<>> => shown = Snapshot)
<1>1. ShownCurrent => (Idle /\ removedQ = <<>> => shown = Snapshot)
  BY DEF ShownCurrent, Idle, Publishing, Ticking
<1>2. Spec => [](IInv /\ SInv /\ TInv /\ ShownLast)
  BY Invariance, SInvInit, SInvNext, TInvInit, TInvNext, ShownInit, ShownNext,
     PTL DEF Spec
<1>3. Spec => []AuthIsLive
  BY Invariance, PromptInit, PromptNext, FreshInit, FreshNext, AuthInit,
     AuthNext, PTL DEF Spec
<1>4. Spec /\ []EndsAreWatched => []EndsSignalled
  BY <1>2, EndsInit, EndsNext, PTL DEF Spec
<1> QED BY <1>1, <1>2, <1>3, <1>4, ShownCurrentInit, ShownCurrentNext,
           PTL DEF Spec

\* Beside no sessions from a terminal nothing else need be assumed than that
\* the worker's call to watch for the ends of sessions is answered.
THEOREM ShownIsWholeAlone ==
  ASSUME ~Lossy, Session = Own, "Watch" \notin FaultyCalls
  PROVE  Spec => [](Idle /\ removedQ = <<>> => shown = Snapshot)
<1>1. Spec => []EarlyWatch
  BY EarlyIsWatched, EarlyNext, PTL DEF Spec
<1>2. EarlyWatch => EndsAreWatched
  BY EarlyIsWatched
<1> QED BY <1>1, <1>2, ShownIsWhole, PTL
=============================================================================
