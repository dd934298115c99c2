-------------------------------- MODULE Panel --------------------------------
(***************************************************************************)
(* The panel applet, crates/applet/src/app.rs: the popup and its pages,    *)
(* what the user types, and the commands it sends to the worker.           *)
(*                                                                         *)
(* Each message of App::update is an action.  A message of the user exists *)
(* only where view_window draws the button or field for it: that is the    *)
(* first part of its guard.  Drawing and handling are one step: libcosmic  *)
(* rebuilds the view after every message.                                  *)
(*                                                                         *)
(* send spawns a task for each command, so the commands under way are a    *)
(* bag, from which the worker may get any next.                            *)
(*                                                                         *)
(* A field's key is its request, an element of Group; values are not       *)
(* modelled, only which fields have one.  Left out: Tick, which redraws    *)
(* the uptime, and the log's lines.                                        *)
(***************************************************************************)
EXTENDS ProfileNames, Status, Integers, FiniteSets, BagsExt, Bags

CONSTANTS
  MaxCommands,  \* commands under way
  Buttons       \* the buttons this instance's user presses

ASSUME PanelAssumption == MaxCommands \in Nat

VARIABLES
  commands,  \* commands sent and not received yet, a bag
  ready,     \* whether WorkerReady has arrived: the Sender
  snapshot,  \* the last Snapshot received
  popup,     \* whether the popup is open; its window id
  page,      \* what the popup shows
  armed,     \* delete_armed
  typed,     \* field_values: typed[g] is the session whose prompt the value
             \* of field g was typed into (the code keeps the value alone),
             \* or None
  picking,   \* whether the portal's file picker is open
  meant      \* history: the profile whose Delete button was armed on the
             \* page the user still is on, or None

panelVars ==
  <<commands, ready, snapshot, popup, page, armed, typed, picking, meant>>

-----------------------------------------------------------------------------
(* enum Page.  Page::Manage holds the profile as it was listed, and the name
   typed for it, which nothing else reads. *)

Menu == [name |-> "Menu"]
Auth == [name |-> "Auth"]
Log  == [name |-> "Log"]
Manage(c, label, new) ==
  [name |-> "Manage", config |-> c, label |-> label, new |-> new]

(* enum UiCommand.  `from' is history: the session whose prompt was shown. *)

SelectProfile(c)    == [op |-> "SelectProfile", config |-> c]
DisconnectActiveOne == [op |-> "Disconnect"]
SubmitPrompt(s, gs) == [op |-> "SubmitPrompt", from |-> s, answers |-> gs]
CancelPrompt(s)     == [op |-> "CancelPrompt", from |-> s]
Import(n)           == [op |-> "Import", name |-> n]
Rename(c, n)        == [op |-> "RenameProfile", config |-> c, name |-> n]
Delete(c)           == [op |-> "DeleteProfile", config |-> c]
DismissFailure      == [op |-> "DismissFailure"]
RefreshProfiles     == [op |-> "RefreshProfiles"]

\* App::send: nothing is sent before the worker is ready.
Send(m) == commands' = IF ready THEN BagAdd(commands, m) ELSE commands

NothingTyped == [g \in Group |-> None]

\* The copies of a command in a bag.
Copies(m, bag) == IF BagIn(m, bag) THEN bag[m] ELSE 0

-----------------------------------------------------------------------------
(* Helpers of App *)

Prompted == snapshot.prompt # None

\* Mutant: what was typed stays.
CancelPromptIfOpenKeeping ==
  /\ \/ page = Auth /\ Prompted /\ Send(CancelPrompt(snapshot.prompt.session))
     \/ ~(page = Auth /\ Prompted) /\ UNCHANGED commands
  /\ UNCHANGED typed

\* cancel_prompt_if_open: leaving the prompt is cancelling it (AE2).
CancelPromptIfOpen ==
  \/ /\ page = Auth
     /\ Prompted
     /\ Send(CancelPrompt(snapshot.prompt.session))
     /\ typed' = NothingTyped
  \/ /\ ~(page = Auth /\ Prompted)
     /\ UNCHANGED <<commands, typed>>

\* open_popup: opening it refreshes the profiles.
OpenPopup ==
  /\ popup' = TRUE
  /\ IF popup THEN UNCHANGED commands ELSE Send(RefreshProfiles)

\* close_popup_without_cancel.
ClosePopupWithoutCancel ==
  /\ popup' = FALSE
  /\ page' = Menu
  /\ meant' = None

\* close_popup.
ClosePopup == CancelPromptIfOpen /\ ClosePopupWithoutCancel

\* A page is left for the menu, in the popup.
ToMenu == page' = Menu /\ meant' = None /\ UNCHANGED popup

-----------------------------------------------------------------------------
(* What is on the screen *)

On(name) == popup /\ page.name = name

\* view_menu draws nothing but the reason if openvpn3 is unavailable.
OnMenu == On("Menu") /\ snapshot.unavailable = None

Listed(c) == snapshot.profiles[c] # None

\* view_profile_row, view_manage: the profile in use.
IsActive(c) == snapshot.config = c

\* The row of a profile in use has a Disconnect button, while there is
\* something to disconnect; any other has a Connect button.
Connectable(c) ==
  IsActive(c) =>
    snapshot.state \notin {"Connected", "Connecting", "AuthPending"}

-----------------------------------------------------------------------------
(* App::update: messages of the worker and of the window system *)

WorkerReady ==
  /\ ~ready
  /\ ready' = TRUE
  /\ UNCHANGED <<commands, snapshot, popup, page, armed, typed, picking, meant>>

\* Message::Snapshot: a prompt that appears opens the popup; one that is gone
\* takes its page with it.
SnapshotArrives(new) ==
  /\ ready
  /\ snapshot' = new
  /\ \/ /\ ~Prompted /\ new.prompt # None
        /\ typed' = NothingTyped
        /\ page' = Auth
        /\ meant' = None
        /\ OpenPopup
     \/ /\ Prompted /\ new.prompt = None /\ page = Auth
        /\ typed' = NothingTyped
        /\ ToMenu
        /\ UNCHANGED commands
     \/ /\ ~(~Prompted /\ new.prompt # None)
        /\ ~(Prompted /\ new.prompt = None /\ page = Auth)
        /\ UNCHANGED <<commands, popup, typed, page, meant>>
  /\ UNCHANGED <<ready, armed, picking>>

\* A click outside the popup: the window system has closed it.
Closed ==
  /\ popup
  /\ ClosePopup
  /\ UNCHANGED <<ready, snapshot, armed, picking>>

\* The portal's answer: a file, or none.
ImportChosen ==
  /\ picking
  /\ picking' = FALSE
  /\ (\E n \in Name : Send(Import(n))) \/ UNCHANGED commands
  /\ UNCHANGED <<ready, snapshot, popup, page, armed, typed, meant>>

-----------------------------------------------------------------------------
(* App::update: messages of the user *)

\* Mutant: opened by a click, the popup asks for nothing.
TogglePopupSilent ==
  /\ \/ /\ popup
        /\ ClosePopup
     \/ /\ ~popup
        /\ popup' = TRUE
        /\ page' = Menu
        /\ UNCHANGED <<commands, typed, meant>>
  /\ UNCHANGED <<ready, snapshot, armed, picking>>

TogglePopup ==
  /\ \/ /\ popup
        /\ ClosePopup
     \/ /\ ~popup
        /\ page' = Menu
        /\ OpenPopup
        /\ UNCHANGED <<typed, meant>>
  /\ UNCHANGED <<ready, snapshot, armed, picking>>

\* close_popup has no prompt to cancel when the page is the menu.
ClickConnect ==
  /\ OnMenu
  /\ \E c \in Config : Listed(c) /\ Connectable(c) /\ Send(SelectProfile(c))
  /\ ClosePopupWithoutCancel
  /\ UNCHANGED <<ready, snapshot, armed, typed, picking>>

ClickDisconnect ==
  /\ OnMenu
  /\ \E c \in Config : Listed(c) /\ ~Connectable(c)
  /\ Send(DisconnectActiveOne)
  /\ ClosePopupWithoutCancel
  /\ UNCHANGED <<ready, snapshot, armed, typed, picking>>

ClickDismiss ==
  /\ OnMenu
  /\ snapshot.state = "Failed"
  /\ Send(DismissFailure)
  /\ UNCHANGED <<ready, snapshot, popup, page, armed, typed, picking, meant>>

ClickViewLog ==
  /\ OnMenu
  /\ snapshot.state = "Failed"
  /\ page' = Log
  /\ UNCHANGED <<commands, ready, snapshot, popup, armed, typed, picking, meant>>

ClickEnterCredentials ==
  /\ OnMenu
  /\ snapshot.state = "AuthPending"
  /\ Prompted
  /\ page' = Auth
  /\ UNCHANGED <<commands, ready, snapshot, popup, armed, typed, picking, meant>>

ClickImport ==
  /\ OnMenu
  /\ picking' = TRUE
  /\ ClosePopupWithoutCancel
  /\ UNCHANGED <<commands, ready, snapshot, armed, typed>>

\* Mutant: no look at whether the profile still is listed.
ClickManageUnlisted ==
  /\ OnMenu
  /\ \E c \in Config :
       page' = Manage(c, snapshot.profiles[c], snapshot.profiles[c])
  /\ armed' = FALSE
  /\ UNCHANGED <<commands, ready, snapshot, popup, typed, picking, meant>>

\* Mutant: the confirmation of another profile's page still stands.
ClickManageArmed ==
  /\ OnMenu
  /\ \E c \in Config :
       Listed(c) /\ page' = Manage(c, snapshot.profiles[c], snapshot.profiles[c])
  /\ UNCHANGED <<commands, ready, snapshot, popup, armed, typed, picking, meant>>

ClickManage ==
  /\ OnMenu
  /\ \E c \in Config :
       Listed(c) /\ page' = Manage(c, snapshot.profiles[c], snapshot.profiles[c])
  /\ armed' = FALSE
  /\ UNCHANGED <<commands, ready, snapshot, popup, typed, picking, meant>>

ClickBack ==
  /\ On("Manage") \/ On("Log")
  /\ armed' = FALSE
  /\ ToMenu
  /\ UNCHANGED <<commands, ready, snapshot, typed, picking>>

TypeName ==
  /\ On("Manage")
  /\ \E n \in Name : page' = [page EXCEPT !.new = n]
  /\ armed' = FALSE
  /\ meant' = None
  /\ UNCHANGED <<commands, ready, snapshot, popup, typed, picking>>

ClickRename ==
  /\ On("Manage")
  /\ IF page.new # page.label
     THEN Send(Rename(page.config, page.new))
     ELSE UNCHANGED commands
  /\ ToMenu
  /\ UNCHANGED <<ready, snapshot, armed, typed, picking>>

ClickArmDelete ==
  /\ On("Manage")
  /\ ~IsActive(page.config) /\ ~armed
  /\ armed' = TRUE
  /\ meant' = page.config
  /\ UNCHANGED <<commands, ready, snapshot, popup, page, typed, picking>>

ClickDisarmDelete ==
  /\ On("Manage")
  /\ ~IsActive(page.config) /\ armed
  /\ armed' = FALSE
  /\ meant' = None
  /\ UNCHANGED <<commands, ready, snapshot, popup, page, typed, picking>>

ClickDelete ==
  /\ On("Manage")
  /\ ~IsActive(page.config) /\ armed
  /\ Send(Delete(page.config))
  /\ armed' = FALSE
  /\ ToMenu
  /\ UNCHANGED <<ready, snapshot, typed, picking>>

\* view_auth draws a field for each request, and two buttons.
TypeField ==
  /\ On("Auth") /\ Prompted
  /\ \E g \in snapshot.prompt.fields :
       typed' = [typed EXCEPT ![g] = snapshot.prompt.session]
  /\ UNCHANGED <<commands, ready, snapshot, popup, page, armed, picking, meant>>

\* Mutant: the popup is closed the usual way, while the page still is Auth.
ClickSubmitCancelling ==
  /\ On("Auth") /\ Prompted
  /\ LET p == snapshot.prompt IN
       /\ commands' = BagAdd(BagAdd(commands, SubmitPrompt(p.session, p.fields)),
                             CancelPrompt(p.session))
  /\ typed' = NothingTyped
  /\ ClosePopupWithoutCancel
  /\ UNCHANGED <<ready, snapshot, armed, picking>>

ClickSubmit ==
  /\ On("Auth") /\ Prompted
  /\ Send(SubmitPrompt(snapshot.prompt.session, snapshot.prompt.fields))
  /\ typed' = NothingTyped
  /\ ClosePopupWithoutCancel
  /\ UNCHANGED <<ready, snapshot, armed, picking>>

ClickCancel ==
  /\ On("Auth") /\ Prompted
  /\ Send(CancelPrompt(snapshot.prompt.session))
  /\ typed' = NothingTyped
  /\ ClosePopupWithoutCancel
  /\ UNCHANGED <<ready, snapshot, armed, picking>>

-----------------------------------------------------------------------------
\* Bounds of the instance, not guards of the code: Buttons leaves out some, and
\* the user waits while MaxCommands are under way, and answers an open file
\* picker first.
Click ==
  \/ TogglePopup \/ Closed \/ ClickDisconnect
  \/ "Dismiss" \in Buttons /\ ClickDismiss
  \/ "Log" \in Buttons /\ ClickViewLog
  \/ ClickEnterCredentials \/ TypeField \/ ClickSubmit \/ ClickCancel
  \/ "Import" \in Buttons /\ ClickImport
  \/ "Manage" \in Buttons /\
       (ClickManage \/ TypeName \/ ClickRename
          \/ ClickArmDelete \/ ClickDisarmDelete \/ ClickDelete)
  \/ ClickBack

Room == BagCardinality(commands) < MaxCommands
Free == Room /\ ~picking

\* App::init.
PanelInit ==
  /\ commands = EmptyBag
  /\ ready = FALSE
  /\ snapshot = [state |-> "Disconnected", config |-> None, prompt |-> None,
                 profiles |-> [c \in Config |-> None], unavailable |-> None]
  /\ popup = FALSE
  /\ page = Menu
  /\ armed = FALSE
  /\ typed = NothingTyped
  /\ picking = FALSE
  /\ meant = None

Label == Name \cup {Fallback}

UiCommand ==
  [op : {"SelectProfile", "DeleteProfile"}, config : Config]
    \cup [op : {"Disconnect", "DismissFailure", "RefreshProfiles"}]
    \cup [op : {"SubmitPrompt"}, from : Session, answers : SUBSET Supported]
    \cup [op : {"CancelPrompt"}, from : Session]
    \cup [op : {"Import"}, name : Name]
    \cup [op : {"RenameProfile"}, config : Config, name : Name]

\* What the panel is shown: the fields it offers are ones the applet supports.
SnapshotKind ==
  [state : ConnectionState, config : Config \cup {None},
   prompt : [session : Session, fields : SUBSET Supported] \cup {None},
   profiles : [Config -> Label \cup {None}],
   unavailable : {None, "Down", "Refused"}]

PanelTypeOK ==
  /\ IsABag(commands)
  /\ BagToSet(commands) \subseteq UiCommand
  /\ ready \in BOOLEAN
  /\ snapshot \in SnapshotKind
  /\ popup \in BOOLEAN
  /\ page \in {Menu, Auth, Log}
       \cup [name : {"Manage"}, config : Config, label : Label, new : Label]
  /\ armed \in BOOLEAN
  /\ typed \in [Group -> Session \cup {None}]
  /\ picking \in BOOLEAN
  /\ meant \in Config \cup {None}
=============================================================================
