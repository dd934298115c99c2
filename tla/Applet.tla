------------------------------- MODULE Applet -------------------------------
(***************************************************************************)
(* The applet: the panel and the worker, two tasks joined by two channels. *)
(* Commands go to the worker in no particular order; snapshots come back   *)
(* in order, and the worker waits while that channel is full               *)
(* (MaxSnapshots; 32 and 64 in the code).  The panel acts on what the last *)
(* snapshot it has got says, the worker on what it knows by then.          *)
(***************************************************************************)
EXTENDS Profiles, Panel, SequencesExt

CONSTANT MaxSnapshots   \* snapshots under way

VARIABLE snapshots   \* snapshots under way to the panel

workerVars == <<vars, profileVars>>
appletVars == <<workerVars, panelVars, snapshots>>

-----------------------------------------------------------------------------
(* The worker's end *)

\* Worker::publish.
WholeSnapshot ==
  [state |-> state, config |-> ActiveConfig, prompt |-> prompt,
   profiles |-> listed, unavailable |-> unavailable]

Sends ==
  /\ Len(snapshots) < MaxSnapshots
  /\ snapshots' = Append(snapshots, WholeSnapshot)

PublishToPanel ==
  /\ \/ ExecPublish /\ Sends
     \/ /\ ExecPublishIfNot
        /\ \/ state # Head(todo).state /\ Sends
           \/ state = Head(todo).state /\ UNCHANGED snapshots
  /\ UNCHANGED <<profileVars, panelVars>>

\* Mutant: a profile is selected without a look at the service first.
OnUiCommandUnreconciled(m) ==
  \/ m.op = "SelectProfile" /\ Receives(<<Select(m.config), Publish>>)
  \/ m.op = "Disconnect" /\ UiDisconnect
  \/ m.op = "RefreshProfiles" /\ Receives(Reconcile \o <<Fetch(1), Publish>>)

\* on_ui_command.
OnUiCommand(m) ==
  \/ m.op = "SelectProfile" /\ UiSelectProfile(m.config)
  \/ m.op = "Disconnect" /\ UiDisconnect
  \/ m.op = "DismissFailure" /\ UiDismissFailure
  \/ m.op = "SubmitPrompt" /\ UiSubmitPrompt(m.answers)
  \/ m.op = "CancelPrompt" /\ UiCancelPrompt
  \/ m.op = "RefreshProfiles" /\ Receives(Reconcile \o <<Fetch(1), Publish>>)
  \/ m.op = "Import" /\ Receives(<<ImportFile(m.name), Publish>>)
  \/ m.op = "RenameProfile"
       /\ Receives(<<RenameProfile(m.config, m.name), Publish>>)
  \/ m.op = "DeleteProfile" /\ Receives(<<DeleteProfile(m.config), Publish>>)

ReceiveCommand ==
  /\ \E m \in BagToSet(commands) :
       OnUiCommand(m) /\ commands' = BagRemove(commands, m)
  /\ UNCHANGED <<profileVars, ready, snapshot, popup, page, armed, typed,
                 picking, meant, snapshots>>

\* Everything else the worker does, and the service.
WorkerAlone ==
  /\ \/ (Signal \/ Settle \/ Call \/ Service) /\ UNCHANGED profileVars
     \/ ExecNewTunnelFor
     \/ ProfileWork
     \/ ConfigTerminal
  /\ UNCHANGED <<panelVars, snapshots>>

-----------------------------------------------------------------------------
(* The panel's end *)

\* Selections that may each still take a session path.
Selections ==
  MapThenSumSet(LAMBDA m : Copies(m, commands),
                {m \in BagToSet(commands) : m.op = "SelectProfile"})
    + Cardinality({i \in DOMAIN todo : todo[i].op \in {"Select", "NewTunnel"}})
    + Cardinality({pendingTarget} \ {None})

\* A session path is left for one more: a bound of the instance, like Worker's
\* PathsLeft.
MayConnect ==
  Cardinality({s \in Own : real[s] = "Unborn"}) > Selections

PanelAlone ==
  /\ \/ Free /\ Click
     \/ Free /\ ClickConnect /\ MayConnect
     \/ Room /\ ImportChosen
     \/ WorkerReady
  /\ UNCHANGED <<workerVars, snapshots>>

SnapshotReceived ==
  /\ snapshots # <<>>
  /\ SnapshotArrives(Head(snapshots))
  /\ snapshots' = Tail(snapshots)
  /\ UNCHANGED workerVars

-----------------------------------------------------------------------------
AppletNext ==
  ReceiveCommand \/ PublishToPanel \/ WorkerAlone \/ PanelAlone \/ SnapshotReceived

\* The beginning of run, with the profiles.
AppletInit ==
  /\ MachineInit
  /\ Openvpn3Init
  /\ prompt = None
  /\ shown = [state |-> "Disconnected", active |-> None, prompt |-> None]
  /\ intent = None
  /\ todo = <<Fetch(1), Adopt, WatchManager, Publish>>
  /\ ProfilesInit
  /\ PanelInit
  /\ snapshots = <<>>

AppletSpec == AppletInit /\ [][AppletNext]_appletVars

-----------------------------------------------------------------------------
(* Properties *)

\* Every variable the worker does not have holds a value of its kind.
AppletTypeOK ==
  /\ ProfilesTypeOK
  /\ PanelTypeOK
  /\ snapshots \in Seq(SnapshotKind)

\* Nothing is under way between the two tasks, nor from the service.
Quiet ==
  /\ Idle
  /\ ready
  /\ commands = EmptyBag
  /\ snapshots = <<>>
  /\ removedQ = <<>>
  /\ \A s \in Session : statusQ[s] = <<>> /\ attentionQ[s] = <<>>

\* The panel shows what the worker knows once nothing is under way, though
\* the ticks publish only a change of the state.
PanelIsCurrent == Quiet => snapshot = WholeSnapshot

\* R9: what was typed into a prompt does not outlive its page, however the page
\* is left: sent, cancelled, dismissed, or taken away by the worker.
NothingTypedIsKept == ~On("Auth") => typed = NothingTyped

\* AE2: leaving a prompt resolves it, exactly once: a dismissal is a
\* cancellation, a submission is not followed by one, both are about the prompt
\* that was on the screen, and nothing else sends either.
LeavingResolvesOnce ==
  [][ LET leaves == On("Auth") /\ ~On("Auth")' /\ snapshot'.prompt # None
          resolutions ==
            {m \in BagToSet(commands') : m.op \in {"SubmitPrompt", "CancelPrompt"}}
      IN  IF leaves
          THEN \E m \in resolutions :
                 /\ m.from = snapshot.prompt.session
                 /\ commands' = BagAdd(commands, m)
          ELSE \A m \in resolutions :
                 Copies(m, commands') <= Copies(m, commands) ]_appletVars

\* A profile is deleted only from the page its deletion was confirmed on, with
\* nothing done there in between.
DeleteWasArmedHere ==
  [][ \A c \in Config :
        Copies(Delete(c), commands') > Copies(Delete(c), commands)
          => meant = c ]_appletVars

\* The menu lists every profile the service has under its present name, unless
\* a terminal has changed them since, or it says that it cannot.
MenuIsTrue ==
  Idle /\ ~touched =>
    \/ \A c \in Config :
         IF Stored(c)
         THEN \/ listed[c] = DisplayName[stored[c]]
              \/ FailsToo("Name") /\ listed[c] = Fallback
         ELSE listed[c] = None
    \/ listed = NothingListed /\ unavailable # None

\* Deleting a profile out from under a live session: the applet does it to no
\* session that has not been told to go, whatever the panel believed when the
\* button was pressed.
RunningProfileIsKept ==
  [][ \A s \in Own :
        Running(s) /\ s \notin told /\ configOf[s] # None /\ ~ConfigTerminal =>
          (Stored(configOf[s]) => Stored(configOf[s])') ]_appletVars

\* The worker's steps without the one about profiles: there is at most one.
WorkerSteps(steps) ==
  RemoveFirstMatch(steps, LAMBDA step : step.op \in ProfileOps)

\* With the panel and the profiles the worker still is the one of Worker,
\* where commands come at any time, the steps about profiles do nothing and a
\* tunnel may be refused.  What is proved of Worker holds here.
WorkerPart ==
  INSTANCE Worker WITH
    todo <- WorkerSteps(todo),
    FaultyCalls <- FaultyCalls \cup {"NewTunnel"}

\* WorkerPart!Spec, with the steps that leave the worker alone, most of them,
\* written first for TLC.
ImplementsWorker ==
  /\ WorkerPart!Init
  /\ [][UNCHANGED WorkerPart!vars \/ WorkerPart!Next]_(WorkerPart!vars)

-----------------------------------------------------------------------------
(* What the documents say of the program and the program does not do *)

\* "A connect that needs input has stalled until it gets some, so open the popup
\* rather than waiting to be noticed" (app.rs): every way off a prompt's page
\* resolves the prompt, so one that is open is on the screen.
PromptIsNoticed == Quiet /\ promptOpen => On("Auth")

\* "R9 - nothing is retained between connects, including in the UI" (app.rs):
\* no value typed for one session is in the form for another.
NothingIsRetained ==
  On("Auth") =>
    \A g \in Group : typed[g] \in {None, snapshot.prompt.session}
=============================================================================
