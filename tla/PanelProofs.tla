------------------------------ MODULE PanelProofs ------------------------------
(***************************************************************************)
(* What every message of the panel preserves, whatever the worker does:    *)
(* PanelInv, for any number of profiles, names and requests, any buttons   *)
(* and any number of commands under way.  AppletProofs uses it.            *)
(***************************************************************************)
EXTENDS Panel, TLAPS

-----------------------------------------------------------------------------
(* The invariant *)

\* R9, as it is kept: a value that has been typed is in the form of a prompt
\* that is on the screen.
TypedIsOnScreen == typed # NothingTyped => On("Auth") /\ Prompted

\* What is armed is the deletion of the profile whose page is shown.
ArmedIsMeant == page.name = "Manage" /\ armed => meant = page.config

\* The name in the field is the one that was there, or a typed one.
NewNameIsName == page.name = "Manage" => page.new \in Name \cup {page.label}

PanelInv == PanelTypeOK /\ TypedIsOnScreen /\ ArmedIsMeant /\ NewNameIsName

\* A deletion is sent only for the profile that is meant.
DeletesMeant ==
  \A c \in Config :
    Copies(Delete(c), commands') > Copies(Delete(c), commands) => meant = c

-----------------------------------------------------------------------------
(* Bags of commands *)

\* One more of a command.
LEMMA Added ==
  ASSUME NEW B, IsABag(B), NEW m
  PROVE  /\ IsABag(BagAdd(B, m))
         /\ BagToSet(BagAdd(B, m)) = BagToSet(B) \cup {m}
         /\ \A n : n # m => Copies(n, BagAdd(B, m)) = Copies(n, B)
BY DEF IsABag, BagToSet, BagIn, Copies, BagAdd

\* One less of it.
LEMMA Removed ==
  ASSUME NEW B, IsABag(B), NEW m
  PROVE  /\ IsABag(BagRemove(B, m))
         /\ BagToSet(BagRemove(B, m)) \subseteq BagToSet(B)
         /\ \A n : Copies(n, BagRemove(B, m)) <= Copies(n, B)
BY DEF IsABag, BagToSet, BagIn, Copies, BagRemove

\* Nothing is under way at first.
LEMMA EmptyBags == IsABag(EmptyBag) /\ BagToSet(EmptyBag) = {}
BY DEF IsABag, BagToSet, EmptyBag, SetToBag

BagOK == IsABag(commands) /\ BagToSet(commands) \subseteq UiCommand

\* The commands the panel sends, but for a deletion, are no deletion.
LEMMA Kinds ==
  /\ \A c \in Config : SelectProfile(c) \in UiCommand /\ Delete(c) \in UiCommand
  /\ DisconnectActiveOne \in UiCommand /\ DismissFailure \in UiCommand
  /\ RefreshProfiles \in UiCommand
  /\ \A s \in Session : CancelPrompt(s) \in UiCommand
  /\ \A s \in Session, gs \in SUBSET Supported : SubmitPrompt(s, gs) \in UiCommand
  /\ \A n \in Name : Import(n) \in UiCommand
  /\ \A c \in Config, n \in Name : Rename(c, n) \in UiCommand
BY DEF UiCommand, SelectProfile, Delete, DisconnectActiveOne, DismissFailure,
       RefreshProfiles, CancelPrompt, SubmitPrompt, Import, Rename

\* A command that is sent is one more under way, of its kind.
LEMMA Sent ==
  ASSUME BagOK, NEW m \in UiCommand, Send(m)
  PROVE  /\ BagOK'
         /\ m.op # "DeleteProfile" => DeletesMeant
         /\ \A c \in Config : m = Delete(c) /\ meant = c => DeletesMeant
<1>1. CASE ready
  <2>1. commands' = BagAdd(commands, m)
    BY <1>1 DEF Send
  <2>2. BagOK'
    BY <2>1, Added DEF BagOK
  <2>3. \A n : n # m => Copies(n, commands') = Copies(n, commands)
    BY <2>1, Added DEF BagOK
  <2>4. \A c \in Config :
          m # Delete(c) =>
            ~(Copies(Delete(c), commands') > Copies(Delete(c), commands))
    <3>1. \A n : Copies(n, commands) \in Nat
      BY DEF BagOK, IsABag, Copies, BagIn, BagToSet
    <3> QED BY <2>3, <3>1
  <2>5. \A c, d \in Config : Delete(c) = Delete(d) => c = d
    BY DEF Delete
  <2>6. \A c \in Config : Delete(c).op = "DeleteProfile"
    BY DEF Delete
  <2> QED BY <2>2, <2>4, <2>5, <2>6 DEF DeletesMeant
<1>2. CASE ~ready
  <2>1. commands' = commands
    BY <1>2 DEF Send
  <2>2. \A n : Copies(n, commands) \in Nat
    BY DEF BagOK, IsABag, Copies, BagIn, BagToSet
  <2> QED BY <2>1, <2>2 DEF BagOK, DeletesMeant
<1> QED BY <1>1, <1>2

\* Nothing is sent.
LEMMA NotSent ==
  ASSUME BagOK, commands' = commands
  PROVE  BagOK' /\ DeletesMeant
<1>1. \A n : Copies(n, commands) \in Nat
  BY DEF BagOK, IsABag, Copies, BagIn, BagToSet
<1> QED BY <1>1 DEF BagOK, DeletesMeant

-----------------------------------------------------------------------------
(* Pages and snapshots *)

\* Pages are told apart by their names, and the page of a profile is its own.
LEMMA Pages ==
  /\ Menu.name = "Menu" /\ Auth.name = "Auth" /\ Log.name = "Log"
  /\ \A p \in {Menu, Auth, Log}
         \cup [name : {"Manage"}, config : Config, label : Label, new : Label] :
       /\ p.name = "Auth" <=> p = Auth
       /\ p.name = "Manage" =>
            p \in [name : {"Manage"}, config : Config, label : Label, new : Label]
<1>1. Menu.name = "Menu" /\ Auth.name = "Auth" /\ Log.name = "Log"
  BY DEF Menu, Auth, Log
<1>2. ASSUME NEW p \in [name : {"Manage"}, config : Config, label : Label,
                        new : Label]
      PROVE  p.name = "Manage"
  OBVIOUS
<1> QED BY <1>1, <1>2

\* What is offered is a prompt.
LEMMA Offered ==
  ASSUME PanelTypeOK, Prompted
  PROVE  snapshot.prompt \in [session : Session, fields : SUBSET Supported]
BY DEF PanelTypeOK, SnapshotKind, Prompted

\* What PanelInv says of the variables other than the commands.
Face == <<ready, snapshot, popup, page, armed, typed, picking, meant>>

\* A message that changes nothing on the screen.
LEMMA FaceKept ==
  ASSUME PanelInv, UNCHANGED Face, BagOK'
  PROVE  PanelInv'
BY DEF PanelInv, PanelTypeOK, TypedIsOnScreen, ArmedIsMeant, NewNameIsName,
       Face, BagOK, On, Prompted

\* A message that leads to the menu, or leaves it closed.
LEMMA MenuSound ==
  ASSUME PanelInv, BagOK',
         page' = Menu, typed' = NothingTyped, meant' = None,
         UNCHANGED ready, snapshot' \in SnapshotKind,
         popup' \in BOOLEAN, armed' \in BOOLEAN, picking' \in BOOLEAN
  PROVE  PanelInv'
<1>1. page'.name = "Menu"
  BY Pages
<1>2. typed' \in [Group -> Session \cup {None}]
  BY DEF NothingTyped
<1>3. PanelTypeOK'
  BY <1>2 DEF PanelInv, PanelTypeOK, BagOK
<1>4. TypedIsOnScreen'
  BY DEF TypedIsOnScreen
<1>5. ArmedIsMeant' /\ NewNameIsName'
  BY <1>1 DEF ArmedIsMeant, NewNameIsName
<1> QED BY <1>3, <1>4, <1>5 DEF PanelInv

\* Nothing is typed on any page but a prompt's.
LEMMA ElsewhereUntyped ==
  ASSUME PanelInv, ~On("Auth")
  PROVE  typed = NothingTyped
BY DEF PanelInv, TypedIsOnScreen

\* cancel_prompt_if_open, on whatever page.
LEMMA CancelSound ==
  ASSUME PanelInv, CancelPromptIfOpen
  PROVE  typed' = NothingTyped /\ BagOK' /\ DeletesMeant
<1>1. BagOK
  BY DEF PanelInv, PanelTypeOK, BagOK
<1>2. CASE page = Auth /\ Prompted
  <2>1. CancelPrompt(snapshot.prompt.session) \in UiCommand
    BY <1>2, Offered, Kinds DEF PanelInv
  <2>2. CancelPrompt(snapshot.prompt.session).op # "DeleteProfile"
    BY DEF CancelPrompt
  <2> QED BY <1>1, <1>2, <2>1, <2>2, Sent DEF CancelPromptIfOpen
<1>3. CASE ~(page = Auth /\ Prompted)
  <2>1. typed = NothingTyped
    BY <1>3, Pages DEF PanelInv, PanelTypeOK, TypedIsOnScreen, On
  <2> QED BY <1>1, <1>3, <2>1, NotSent DEF CancelPromptIfOpen
<1> QED BY <1>2, <1>3

\* open_popup.
LEMMA OpenSound ==
  ASSUME PanelInv, OpenPopup
  PROVE  popup' = TRUE /\ BagOK' /\ DeletesMeant
<1>1. BagOK
  BY DEF PanelInv, PanelTypeOK, BagOK
<1>2. RefreshProfiles \in UiCommand /\ RefreshProfiles.op # "DeleteProfile"
  BY Kinds DEF RefreshProfiles
<1> QED BY <1>1, <1>2, Sent, NotSent DEF OpenPopup

-----------------------------------------------------------------------------
(* The messages *)

Sound == PanelInv' /\ DeletesMeant

\* The Sender arrives.
LEMMA WorkerReadySound == PanelInv /\ WorkerReady => Sound
<1> SUFFICES ASSUME PanelInv, WorkerReady PROVE Sound
  OBVIOUS
<1>1. BagOK /\ commands' = commands
  BY DEF PanelInv, PanelTypeOK, BagOK, WorkerReady
<1>2. BagOK' /\ DeletesMeant
  BY <1>1, NotSent
<1> QED BY <1>1, <1>2
        DEF Sound, BagOK, WorkerReady, PanelInv, PanelTypeOK, TypedIsOnScreen,
            ArmedIsMeant, NewNameIsName, On, Prompted

\* A snapshot: nothing typed outlives the prompt it was typed for.
LEMMA SnapshotArrivesSound ==
  ASSUME PanelInv, NEW new \in SnapshotKind, SnapshotArrives(new)
  PROVE  Sound
<1>0. BagOK
  BY DEF PanelInv, PanelTypeOK, BagOK
<1>1. CASE /\ ~Prompted /\ new.prompt # None
           /\ typed' = NothingTyped
           /\ page' = Auth
           /\ meant' = None
           /\ OpenPopup
  <2>1. popup' = TRUE /\ BagOK' /\ DeletesMeant
    BY <1>1, OpenSound
  <2> QED BY <1>1, <2>1, Pages
          DEF SnapshotArrives, Sound, PanelInv, PanelTypeOK, BagOK,
              TypedIsOnScreen, ArmedIsMeant, NewNameIsName
<1>2. CASE /\ Prompted /\ new.prompt = None /\ page = Auth
           /\ typed' = NothingTyped
           /\ ToMenu
           /\ UNCHANGED commands
  <2>1. BagOK' /\ DeletesMeant
    BY <1>0, <1>2, NotSent
  <2>2. /\ page' = Menu /\ typed' = NothingTyped /\ meant' = None
        /\ UNCHANGED ready /\ snapshot' \in SnapshotKind
        /\ popup' \in BOOLEAN /\ armed' \in BOOLEAN /\ picking' \in BOOLEAN
    BY <1>2 DEF SnapshotArrives, ToMenu, PanelInv, PanelTypeOK
  <2> QED BY <2>1, <2>2, MenuSound DEF Sound
<1>3. CASE /\ ~(~Prompted /\ new.prompt # None)
           /\ ~(Prompted /\ new.prompt = None /\ page = Auth)
           /\ UNCHANGED <<commands, popup, typed, page, meant>>
  <2>1. BagOK' /\ DeletesMeant
    BY <1>0, <1>3, NotSent
  <2>2. typed # NothingTyped => Prompted'
    BY <1>3, Pages
       DEF SnapshotArrives, PanelInv, PanelTypeOK, TypedIsOnScreen, On, Prompted
  <2> QED BY <1>3, <2>1, <2>2
          DEF SnapshotArrives, Sound, PanelInv, PanelTypeOK, BagOK,
              TypedIsOnScreen, ArmedIsMeant, NewNameIsName, On
<1> QED BY <1>1, <1>2, <1>3 DEF SnapshotArrives

\* A click outside the popup.
LEMMA ClosedSound == PanelInv /\ Closed => Sound
<1> SUFFICES ASSUME PanelInv, Closed PROVE Sound
  OBVIOUS
<1>1. typed' = NothingTyped /\ BagOK' /\ DeletesMeant
  BY CancelSound DEF Closed, ClosePopup
<1>2. PanelInv'
  BY <1>1, MenuSound
     DEF Closed, ClosePopup, ClosePopupWithoutCancel, PanelInv, PanelTypeOK
<1> QED BY <1>1, <1>2 DEF Sound

\* The icon is clicked.
LEMMA TogglePopupSound == PanelInv /\ TogglePopup => Sound
<1> SUFFICES ASSUME PanelInv, TogglePopup PROVE Sound
  OBVIOUS
<1>1. CASE popup /\ ClosePopup
  <2>1. typed' = NothingTyped /\ BagOK' /\ DeletesMeant
    BY <1>1, CancelSound DEF ClosePopup
  <2>2. PanelInv'
    BY <1>1, <2>1, MenuSound
       DEF TogglePopup, ClosePopup, ClosePopupWithoutCancel, PanelInv, PanelTypeOK
  <2> QED BY <2>1, <2>2 DEF Sound
<1>2. CASE ~popup /\ page' = Menu /\ OpenPopup /\ UNCHANGED <<typed, meant>>
  <2>1. popup' = TRUE /\ BagOK' /\ DeletesMeant
    BY <1>2, OpenSound
  <2>2. typed = NothingTyped
    BY <1>2, ElsewhereUntyped DEF On
  <2>3. page'.name = "Menu"
    BY <1>2, Pages
  <2>4. PanelTypeOK'
    BY <1>2, <2>1 DEF TogglePopup, PanelInv, PanelTypeOK, BagOK
  <2>5. TypedIsOnScreen' /\ ArmedIsMeant' /\ NewNameIsName'
    BY <1>2, <2>2, <2>3 DEF TypedIsOnScreen, ArmedIsMeant, NewNameIsName
  <2> QED BY <2>1, <2>4, <2>5 DEF PanelInv, Sound
<1> QED BY <1>1, <1>2 DEF TogglePopup

\* The portal answers.
LEMMA ImportChosenSound == PanelInv /\ ImportChosen => Sound
<1> SUFFICES ASSUME PanelInv, ImportChosen PROVE Sound
  OBVIOUS
<1>0. BagOK
  BY DEF PanelInv, PanelTypeOK, BagOK
<1>1. ASSUME NEW n \in Name, Send(Import(n))
      PROVE  BagOK' /\ DeletesMeant
  <2>1. Import(n) \in UiCommand /\ Import(n).op # "DeleteProfile"
    BY Kinds DEF Import
  <2> QED BY <1>0, <1>1, <2>1, Sent
<1>2. BagOK' /\ DeletesMeant
  BY <1>0, <1>1, NotSent DEF ImportChosen
<1>3. PanelInv'
  BY <1>2
     DEF ImportChosen, PanelInv, PanelTypeOK, TypedIsOnScreen, ArmedIsMeant,
         NewNameIsName, BagOK, On, Prompted
<1> QED BY <1>2, <1>3 DEF Sound

\* A message on the menu that sends a command and closes the popup.
LEMMA LeavesMenu ==
  ASSUME PanelInv, OnMenu, ClosePopupWithoutCancel, BagOK',
         UNCHANGED <<ready, snapshot, armed, typed>>, picking' \in BOOLEAN
  PROVE  PanelInv'
<1>1. typed = NothingTyped
  BY ElsewhereUntyped DEF OnMenu, On
<1> QED BY <1>1, MenuSound DEF ClosePopupWithoutCancel, PanelInv, PanelTypeOK

\* A profile's Connect.
LEMMA ClickConnectSound == PanelInv /\ ClickConnect => Sound
<1> SUFFICES ASSUME PanelInv, ClickConnect PROVE Sound
  OBVIOUS
<1>1. BagOK
  BY DEF PanelInv, PanelTypeOK, BagOK
<1>2. PICK c \in Config : Send(SelectProfile(c))
  BY DEF ClickConnect
<1>3. SelectProfile(c) \in UiCommand /\ SelectProfile(c).op # "DeleteProfile"
  BY Kinds DEF SelectProfile
<1>4. BagOK' /\ DeletesMeant
  BY <1>1, <1>2, <1>3, Sent
<1>5. PanelInv'
  BY <1>4, LeavesMenu DEF ClickConnect, PanelInv, PanelTypeOK
<1> QED BY <1>4, <1>5 DEF Sound

\* Disconnect.
LEMMA ClickDisconnectSound == PanelInv /\ ClickDisconnect => Sound
<1> SUFFICES ASSUME PanelInv, ClickDisconnect PROVE Sound
  OBVIOUS
<1>1. BagOK
  BY DEF PanelInv, PanelTypeOK, BagOK
<1>2. /\ DisconnectActiveOne \in UiCommand
      /\ DisconnectActiveOne.op # "DeleteProfile"
  BY Kinds DEF DisconnectActiveOne
<1>3. Send(DisconnectActiveOne)
  BY DEF ClickDisconnect
<1>4. BagOK' /\ DeletesMeant
  BY <1>1, <1>2, <1>3, Sent
<1>5. PanelInv'
  BY <1>4, LeavesMenu DEF ClickDisconnect, PanelInv, PanelTypeOK
<1> QED BY <1>4, <1>5 DEF Sound

\* A failure is dismissed.
LEMMA ClickDismissSound == PanelInv /\ ClickDismiss => Sound
<1> SUFFICES ASSUME PanelInv, ClickDismiss PROVE Sound
  OBVIOUS
<1>1. BagOK
  BY DEF PanelInv, PanelTypeOK, BagOK
<1>2. DismissFailure \in UiCommand /\ DismissFailure.op # "DeleteProfile"
  BY Kinds DEF DismissFailure
<1>3. Send(DismissFailure) /\ UNCHANGED Face
  BY DEF ClickDismiss, Face
<1>4. BagOK' /\ DeletesMeant
  BY <1>1, <1>2, <1>3, Sent
<1> QED BY <1>3, <1>4, FaceKept DEF Sound

\* The file picker is opened.
LEMMA ClickImportSound == PanelInv /\ ClickImport => Sound
<1> SUFFICES ASSUME PanelInv, ClickImport PROVE Sound
  OBVIOUS
<1>1. BagOK /\ commands' = commands
  BY DEF PanelInv, PanelTypeOK, BagOK, ClickImport
<1>2. BagOK' /\ DeletesMeant
  BY <1>1, NotSent
<1>3. PanelInv'
  BY <1>2, LeavesMenu DEF ClickImport
<1> QED BY <1>2, <1>3 DEF Sound

\* From the menu to another page.
LEMMA ClickViewLogSound == PanelInv /\ ClickViewLog => Sound
<1> SUFFICES ASSUME PanelInv, ClickViewLog PROVE Sound
  OBVIOUS
<1>1. BagOK /\ commands' = commands
  BY DEF PanelInv, PanelTypeOK, BagOK, ClickViewLog
<1>2. BagOK' /\ DeletesMeant
  BY <1>1, NotSent
<1>3. typed = NothingTyped
  BY ElsewhereUntyped DEF ClickViewLog, OnMenu, On
<1>4. page'.name = "Log"
  BY Pages DEF ClickViewLog
<1>5. PanelTypeOK'
  BY <1>2 DEF ClickViewLog, PanelInv, PanelTypeOK, BagOK
<1>6. TypedIsOnScreen' /\ ArmedIsMeant' /\ NewNameIsName'
  BY <1>3, <1>4
     DEF ClickViewLog, TypedIsOnScreen, ArmedIsMeant, NewNameIsName
<1> QED BY <1>2, <1>5, <1>6 DEF PanelInv, Sound

\* Back to the prompt.
LEMMA ClickEnterCredentialsSound == PanelInv /\ ClickEnterCredentials => Sound
<1> SUFFICES ASSUME PanelInv, ClickEnterCredentials PROVE Sound
  OBVIOUS
<1>1. BagOK /\ commands' = commands
  BY DEF PanelInv, PanelTypeOK, BagOK, ClickEnterCredentials
<1>2. BagOK' /\ DeletesMeant
  BY <1>1, NotSent
<1>3. typed = NothingTyped
  BY ElsewhereUntyped DEF ClickEnterCredentials, OnMenu, On
<1>4. page'.name = "Auth"
  BY Pages DEF ClickEnterCredentials
<1>5. PanelTypeOK'
  BY <1>2 DEF ClickEnterCredentials, PanelInv, PanelTypeOK, BagOK
<1>6. TypedIsOnScreen' /\ ArmedIsMeant' /\ NewNameIsName'
  BY <1>3, <1>4
     DEF ClickEnterCredentials, TypedIsOnScreen, ArmedIsMeant, NewNameIsName
<1> QED BY <1>2, <1>5, <1>6 DEF PanelInv, Sound

\* To the page of a profile: what was armed elsewhere is not armed here.
LEMMA ClickManageSound == PanelInv /\ ClickManage => Sound
<1> SUFFICES ASSUME PanelInv, ClickManage PROVE Sound
  OBVIOUS
<1>1. BagOK /\ commands' = commands
  BY DEF PanelInv, PanelTypeOK, BagOK, ClickManage
<1>2. BagOK' /\ DeletesMeant
  BY <1>1, NotSent
<1>3. typed = NothingTyped
  BY ElsewhereUntyped DEF ClickManage, OnMenu, On
<1>4. PICK c \in Config :
        /\ Listed(c)
        /\ page' = Manage(c, snapshot.profiles[c], snapshot.profiles[c])
  BY DEF ClickManage
<1>5. snapshot.profiles[c] \in Label
  BY <1>4 DEF Listed, PanelInv, PanelTypeOK, SnapshotKind
<1>6. /\ page' \in [name : {"Manage"}, config : Config, label : Label, new : Label]
      /\ page'.name = "Manage" /\ page'.new = page'.label
  BY <1>4, <1>5 DEF Manage
<1>7. PanelTypeOK'
  BY <1>2, <1>6 DEF ClickManage, PanelInv, PanelTypeOK, BagOK
<1>8. TypedIsOnScreen' /\ ArmedIsMeant' /\ NewNameIsName'
  BY <1>3, <1>6
     DEF ClickManage, TypedIsOnScreen, ArmedIsMeant, NewNameIsName
<1> QED BY <1>2, <1>7, <1>8 DEF PanelInv, Sound

\* Back to the menu.
LEMMA ClickBackSound == PanelInv /\ ClickBack => Sound
<1> SUFFICES ASSUME PanelInv, ClickBack PROVE Sound
  OBVIOUS
<1>1. BagOK /\ commands' = commands
  BY DEF PanelInv, PanelTypeOK, BagOK, ClickBack
<1>2. BagOK' /\ DeletesMeant
  BY <1>1, NotSent
<1>3. typed = NothingTyped
  BY ElsewhereUntyped DEF ClickBack, On
<1>4. PanelInv'
  BY <1>2, <1>3, MenuSound DEF ClickBack, ToMenu, PanelInv, PanelTypeOK
<1> QED BY <1>2, <1>4 DEF Sound

-----------------------------------------------------------------------------
(* The page of a profile *)

\* Nothing is typed on it but the name.
LEMMA OnManage ==
  ASSUME PanelInv, On("Manage")
  PROVE  /\ typed = NothingTyped
         /\ page \in [name : {"Manage"}, config : Config, label : Label, new : Label]
<1>1. typed = NothingTyped
  BY ElsewhereUntyped DEF On
<1> QED BY <1>1, Pages DEF On, PanelInv, PanelTypeOK

\* A new name is typed, which disarms.
LEMMA TypeNameSound == PanelInv /\ TypeName => Sound
<1> SUFFICES ASSUME PanelInv, TypeName PROVE Sound
  OBVIOUS
<1>1. BagOK /\ commands' = commands
  BY DEF PanelInv, PanelTypeOK, BagOK, TypeName
<1>2. BagOK' /\ DeletesMeant
  BY <1>1, NotSent
<1>3. /\ typed = NothingTyped
      /\ page \in [name : {"Manage"}, config : Config, label : Label, new : Label]
  BY OnManage DEF TypeName
<1>4. PICK n \in Name : page' = [page EXCEPT !.new = n]
  BY DEF TypeName
<1>5. /\ page' \in [name : {"Manage"}, config : Config, label : Label, new : Label]
      /\ page'.new \in Name
  BY <1>3, <1>4 DEF Label
<1>6. PanelTypeOK'
  BY <1>2, <1>5 DEF TypeName, PanelInv, PanelTypeOK, BagOK
<1>7. TypedIsOnScreen' /\ ArmedIsMeant' /\ NewNameIsName'
  BY <1>3, <1>5 DEF TypeName, TypedIsOnScreen, ArmedIsMeant, NewNameIsName
<1> QED BY <1>2, <1>6, <1>7 DEF PanelInv, Sound

\* Rename.
LEMMA ClickRenameSound == PanelInv /\ ClickRename => Sound
<1> SUFFICES ASSUME PanelInv, ClickRename PROVE Sound
  OBVIOUS
<1>1. BagOK
  BY DEF PanelInv, PanelTypeOK, BagOK
<1>2. /\ typed = NothingTyped
      /\ page \in [name : {"Manage"}, config : Config, label : Label, new : Label]
  BY OnManage DEF ClickRename
<1>3. BagOK' /\ DeletesMeant
  <2>1. CASE page.new # page.label
    <3>1. page.new \in Name
      BY <1>2, <2>1 DEF PanelInv, NewNameIsName
    <3>2. /\ Rename(page.config, page.new) \in UiCommand
          /\ Rename(page.config, page.new).op # "DeleteProfile"
      BY <1>2, <3>1, Kinds DEF Rename
    <3>3. Send(Rename(page.config, page.new))
      BY <2>1 DEF ClickRename
    <3> QED BY <1>1, <3>2, <3>3, Sent
  <2>2. CASE page.new = page.label
    BY <1>1, <2>2, NotSent DEF ClickRename
  <2> QED BY <2>1, <2>2
<1>4. PanelInv'
  BY <1>2, <1>3, MenuSound DEF ClickRename, ToMenu, PanelInv, PanelTypeOK
<1> QED BY <1>3, <1>4 DEF Sound

\* Delete, pressed once.
LEMMA ClickArmDeleteSound == PanelInv /\ ClickArmDelete => Sound
<1> SUFFICES ASSUME PanelInv, ClickArmDelete PROVE Sound
  OBVIOUS
<1>1. BagOK /\ commands' = commands
  BY DEF PanelInv, PanelTypeOK, BagOK, ClickArmDelete
<1>2. BagOK' /\ DeletesMeant
  BY <1>1, NotSent
<1>3. page.config \in Config
  BY OnManage DEF ClickArmDelete
<1>4. PanelTypeOK'
  BY <1>2, <1>3 DEF ClickArmDelete, PanelInv, PanelTypeOK, BagOK
<1>5. TypedIsOnScreen' /\ ArmedIsMeant' /\ NewNameIsName'
  BY DEF ClickArmDelete, PanelInv, TypedIsOnScreen, ArmedIsMeant,
         NewNameIsName, On, Prompted
<1> QED BY <1>2, <1>4, <1>5 DEF PanelInv, Sound

\* Keep, instead of the second press.
LEMMA ClickDisarmDeleteSound == PanelInv /\ ClickDisarmDelete => Sound
<1> SUFFICES ASSUME PanelInv, ClickDisarmDelete PROVE Sound
  OBVIOUS
<1>1. BagOK /\ commands' = commands
  BY DEF PanelInv, PanelTypeOK, BagOK, ClickDisarmDelete
<1>2. BagOK' /\ DeletesMeant
  BY <1>1, NotSent
<1>3. PanelTypeOK'
  BY <1>2 DEF ClickDisarmDelete, PanelInv, PanelTypeOK, BagOK
<1>4. TypedIsOnScreen' /\ ArmedIsMeant' /\ NewNameIsName'
  BY DEF ClickDisarmDelete, PanelInv, TypedIsOnScreen, ArmedIsMeant,
         NewNameIsName, On, Prompted
<1> QED BY <1>2, <1>3, <1>4 DEF PanelInv, Sound

\* The one that deletes: the profile is the one whose deletion was armed.
LEMMA ClickDeleteSound == PanelInv /\ ClickDelete => Sound
<1> SUFFICES ASSUME PanelInv, ClickDelete PROVE Sound
  OBVIOUS
<1>1. BagOK
  BY DEF PanelInv, PanelTypeOK, BagOK
<1>2. typed = NothingTyped /\ page.config \in Config
  BY OnManage DEF ClickDelete
<1>3. Delete(page.config) \in UiCommand /\ Send(Delete(page.config))
  BY <1>2, Kinds DEF ClickDelete
<1>4. meant = page.config
  BY DEF ClickDelete, On, PanelInv, ArmedIsMeant
<1>5. BagOK' /\ DeletesMeant
  BY <1>1, <1>2, <1>3, <1>4, Sent
<1>6. PanelInv'
  BY <1>2, <1>5, MenuSound DEF ClickDelete, ToMenu, PanelInv, PanelTypeOK
<1> QED BY <1>5, <1>6 DEF Sound

-----------------------------------------------------------------------------
(* The page of a prompt *)

\* A credential is typed.
LEMMA TypeFieldSound == PanelInv /\ TypeField => Sound
<1> SUFFICES ASSUME PanelInv, TypeField PROVE Sound
  OBVIOUS
<1>1. BagOK /\ commands' = commands
  BY DEF PanelInv, PanelTypeOK, BagOK, TypeField
<1>2. BagOK' /\ DeletesMeant
  BY <1>1, NotSent
<1>3. snapshot.prompt.session \in Session
  BY Offered DEF TypeField, PanelInv
<1>4. typed' \in [Group -> Session \cup {None}]
  BY <1>3 DEF TypeField, PanelInv, PanelTypeOK
<1>5. PanelTypeOK'
  BY <1>2, <1>4 DEF TypeField, PanelInv, PanelTypeOK, BagOK
<1>6. TypedIsOnScreen' /\ ArmedIsMeant' /\ NewNameIsName'
  BY DEF TypeField, PanelInv, TypedIsOnScreen, ArmedIsMeant, NewNameIsName,
         On, Prompted
<1> QED BY <1>2, <1>5, <1>6 DEF PanelInv, Sound

\* The prompt is answered.
LEMMA ClickSubmitSound == PanelInv /\ ClickSubmit => Sound
<1> SUFFICES ASSUME PanelInv, ClickSubmit PROVE Sound
  OBVIOUS
<1>1. BagOK
  BY DEF PanelInv, PanelTypeOK, BagOK
<1> DEFINE m == SubmitPrompt(snapshot.prompt.session, snapshot.prompt.fields)
<1>2. m \in UiCommand
  BY Offered, Kinds DEF ClickSubmit, PanelInv
<1>3. m.op # "DeleteProfile"
  BY DEF SubmitPrompt
<1>4. Send(m)
  BY DEF ClickSubmit
<1> HIDE DEF m
<1>5. BagOK' /\ DeletesMeant
  BY <1>1, <1>2, <1>3, <1>4, Sent
<1>6. PanelInv'
  BY <1>5, MenuSound
     DEF ClickSubmit, ClosePopupWithoutCancel, PanelInv, PanelTypeOK
<1> QED BY <1>5, <1>6 DEF Sound

\* The prompt is cancelled.
LEMMA ClickCancelSound == PanelInv /\ ClickCancel => Sound
<1> SUFFICES ASSUME PanelInv, ClickCancel PROVE Sound
  OBVIOUS
<1>1. BagOK
  BY DEF PanelInv, PanelTypeOK, BagOK
<1> DEFINE m == CancelPrompt(snapshot.prompt.session)
<1>2. m \in UiCommand
  BY Offered, Kinds DEF ClickCancel, PanelInv
<1>3. m.op # "DeleteProfile"
  BY DEF CancelPrompt
<1>4. Send(m)
  BY DEF ClickCancel
<1> HIDE DEF m
<1>5. BagOK' /\ DeletesMeant
  BY <1>1, <1>2, <1>3, <1>4, Sent
<1>6. PanelInv'
  BY <1>5, MenuSound
     DEF ClickCancel, ClosePopupWithoutCancel, PanelInv, PanelTypeOK
<1> QED BY <1>5, <1>6 DEF Sound

-----------------------------------------------------------------------------
(* Together *)

\* A message of the user.
LEMMA ClickSound == PanelInv /\ Click => Sound
BY TogglePopupSound, ClosedSound, ClickDisconnectSound, ClickDismissSound,
   ClickViewLogSound, ClickEnterCredentialsSound, TypeFieldSound,
   ClickSubmitSound, ClickCancelSound, ClickImportSound, ClickManageSound,
   TypeNameSound, ClickRenameSound, ClickArmDeleteSound,
   ClickDisarmDeleteSound, ClickDeleteSound, ClickBackSound
   DEF Click

\* The worker takes a command.
LEMMA TakenSound ==
  ASSUME PanelInv, NEW m \in BagToSet(commands),
         commands' = BagRemove(commands, m), UNCHANGED Face
  PROVE  Sound
<1>1. BagOK
  BY DEF PanelInv, PanelTypeOK, BagOK
<1>2. BagOK'
  BY <1>1, Removed DEF BagOK
<1>3. \A n : Copies(n, commands) \in Nat /\ Copies(n, commands') \in Nat
  BY <1>1, <1>2 DEF BagOK, IsABag, Copies, BagIn, BagToSet
<1>4. DeletesMeant
  BY <1>1, <1>3, Removed DEF BagOK, DeletesMeant
<1> QED BY <1>2, <1>4, FaceKept DEF Sound

\* Nothing happens here.
LEMMA PanelStill == PanelInv /\ UNCHANGED panelVars => Sound
<1> SUFFICES ASSUME PanelInv, UNCHANGED panelVars PROVE Sound
  OBVIOUS
<1>1. BagOK /\ commands' = commands /\ UNCHANGED Face
  BY DEF PanelInv, PanelTypeOK, BagOK, panelVars, Face
<1>2. BagOK' /\ DeletesMeant
  BY <1>1, NotSent
<1> QED BY <1>1, <1>2, FaceKept DEF Sound

\* It holds at first.
LEMMA PanelInitSound == PanelInit => PanelInv
<1> SUFFICES ASSUME PanelInit PROVE PanelInv
  OBVIOUS
<1>1. snapshot \in SnapshotKind
  BY DEF PanelInit, SnapshotKind, ConnectionState
<1>2. typed \in [Group -> Session \cup {None}] /\ typed = NothingTyped
  BY DEF PanelInit, NothingTyped
<1>3. IsABag(commands) /\ BagToSet(commands) \subseteq UiCommand
  BY EmptyBags DEF PanelInit
<1>4. page = Menu /\ page.name = "Menu"
  BY Pages DEF PanelInit
<1>5. PanelTypeOK
  BY <1>1, <1>2, <1>3 DEF PanelInit, PanelTypeOK
<1> QED BY <1>2, <1>4, <1>5
        DEF PanelInv, TypedIsOnScreen, ArmedIsMeant, NewNameIsName

-----------------------------------------------------------------------------
(* A prompt is resolved once *)

\* Every message the panel handles.
Message ==
  \/ Click \/ ClickConnect \/ ImportChosen \/ WorkerReady
  \/ \E new \in SnapshotKind : SnapshotArrives(new)

\* The page of a prompt is on the screen with its prompt, and a prompt comes
\* only from a worker that is ready.
AuthIsShown ==
  /\ page = Auth => popup /\ Prompted
  /\ Prompted => ready

ResolutionOps == {"SubmitPrompt", "CancelPrompt"}

\* No resolution is sent; one is.
ResolvesNone ==
  \A m \in BagToSet(commands') :
    m.op \in ResolutionOps => Copies(m, commands') <= Copies(m, commands)

ResolvesOne ==
  \E m \in BagToSet(commands') :
    /\ m.op \in ResolutionOps
    /\ m.from = snapshot.prompt.session
    /\ commands' = BagAdd(commands, m)

Leaves == On("Auth") /\ ~On("Auth")' /\ snapshot'.prompt # None

ResolvesOnce == IF Leaves THEN ResolvesOne ELSE ResolvesNone

\* Every message but those of the menu and of a profile's page leaves the page
\* alone or leads to the menu.
LEMMA AuthShownNext ==
  ASSUME PanelInv, AuthIsShown, Message
  PROVE  AuthIsShown'
<1>1. /\ Menu # Auth /\ Log # Auth
      /\ \A c, l, n : Manage(c, l, n) # Auth
      /\ On("Auth") => page = Auth
  <2>1. page.name = "Auth" <=> page = Auth
    BY Pages DEF PanelInv, PanelTypeOK
  <2> QED BY <2>1 DEF Menu, Auth, Log, Manage, On
<1> USE DEF AuthIsShown, Prompted
<1>2. CASE TogglePopup \/ Closed
  BY <1>1, <1>2 DEF TogglePopup, Closed, ClosePopup, ClosePopupWithoutCancel
<1>3. CASE \/ ClickConnect \/ ClickDisconnect \/ ClickImport \/ ClickSubmit
           \/ ClickCancel \/ ClickRename \/ ClickDelete \/ ClickBack
  BY <1>1, <1>3
     DEF ClickConnect, ClickDisconnect, ClickImport, ClickSubmit, ClickCancel,
         ClickRename, ClickDelete, ClickBack, ClosePopupWithoutCancel, ToMenu
<1>4. CASE ClickViewLog \/ ClickManage \/ ClickEnterCredentials
  BY <1>1, <1>4
     DEF ClickViewLog, ClickManage, ClickEnterCredentials, OnMenu, On
<1>5. CASE TypeName
  <2>1. PICK n \in Name : page' = [page EXCEPT !.new = n]
    BY <1>5 DEF TypeName
  <2>2. page \in [name : {"Manage"}, config : Config, label : Label, new : Label]
    BY <1>5, OnManage DEF TypeName
  <2>3. page'.name = "Manage"
    BY <2>1, <2>2
  <2>4. page' # Auth
    BY <2>3 DEF Auth
  <2> QED BY <1>5, <2>4 DEF TypeName
<1>6. CASE \/ ClickDismiss \/ ClickArmDelete \/ ClickDisarmDelete \/ TypeField
           \/ ImportChosen
  BY <1>6
     DEF ClickDismiss, ClickArmDelete, ClickDisarmDelete, TypeField, ImportChosen
<1>7. CASE WorkerReady
  BY <1>7 DEF WorkerReady
<1>8. ASSUME NEW new \in SnapshotKind, SnapshotArrives(new)
      PROVE  AuthIsShown'
  BY <1>1, <1>8 DEF SnapshotArrives, OpenPopup, ToMenu
<1> QED BY <1>2, <1>3, <1>4, <1>5, <1>6, <1>7, <1>8 DEF Message, Click

\* Sending nothing, or a command of another kind, resolves nothing.
LEMMA SendsOther ==
  ASSUME BagOK,
         \/ UNCHANGED commands
         \/ \E m \in UiCommand : m.op \notin ResolutionOps /\ Send(m)
  PROVE  ResolvesNone
<1>1. \A n : Copies(n, commands) \in Nat
  BY DEF BagOK, IsABag, Copies, BagIn, BagToSet
<1>2. CASE UNCHANGED commands
  BY <1>1, <1>2 DEF ResolvesNone
<1>3. ASSUME NEW m \in UiCommand, m.op \notin ResolutionOps, Send(m)
      PROVE  ResolvesNone
  <2>1. CASE ready
    <3>1. \A n : n # m => Copies(n, commands') = Copies(n, commands)
      BY <1>3, <2>1, Added DEF BagOK, Send
    <3> QED BY <1>1, <1>3, <3>1 DEF ResolvesNone
  <2>2. CASE ~ready
    BY <1>1, <1>3, <2>2 DEF ResolvesNone, Send
  <2> QED BY <2>1, <2>2
<1> QED BY <1>2, <1>3

\* A resolution of the prompt on the screen is one more under way.
LEMMA SendsOne ==
  ASSUME BagOK, AuthIsShown, Prompted, NEW m \in UiCommand,
         m.op \in ResolutionOps, m.from = snapshot.prompt.session, Send(m)
  PROVE  ResolvesOne
<1>1. commands' = BagAdd(commands, m)
  BY DEF AuthIsShown, Send
<1>2. m \in BagToSet(commands')
  BY <1>1, Added DEF BagOK
<1> QED BY <1>1, <1>2 DEF ResolvesOne

\* close_popup, on whatever page: the prompt's page is left by cancelling it.
LEMMA ClosingResolves ==
  ASSUME PanelInv, AuthIsShown, popup, ClosePopup, UNCHANGED snapshot
  PROVE  ResolvesOnce
<1>1. BagOK
  BY DEF PanelInv, PanelTypeOK, BagOK
<1>2. ~On("Auth")'
  BY DEF ClosePopup, ClosePopupWithoutCancel, On
<1>3. On("Auth") <=> page = Auth
  BY Pages DEF PanelInv, PanelTypeOK, On
<1>4. CASE page = Auth
  <2> DEFINE m == CancelPrompt(snapshot.prompt.session)
  <2>1. Prompted /\ Leaves
    BY <1>2, <1>3, <1>4 DEF AuthIsShown, Leaves, Prompted
  <2>2. m \in UiCommand
    BY <2>1, Offered, Kinds DEF PanelInv
  <2>3. m.op \in ResolutionOps /\ m.from = snapshot.prompt.session
    BY DEF CancelPrompt, ResolutionOps
  <2>4. Send(m)
    BY <1>4, <2>1 DEF ClosePopup, CancelPromptIfOpen
  <2> HIDE DEF m
  <2> QED BY <1>1, <2>1, <2>2, <2>3, <2>4, SendsOne DEF ResolvesOnce
<1>5. CASE page # Auth
  BY <1>1, <1>3, <1>5, SendsOther
     DEF ClosePopup, CancelPromptIfOpen, ResolvesOnce, Leaves
<1> QED BY <1>4, <1>5

\* The two buttons of the page.
LEMMA ButtonsResolve ==
  ASSUME PanelInv, AuthIsShown, ClickSubmit \/ ClickCancel
  PROVE  ResolvesOnce
<1>1. BagOK
  BY DEF PanelInv, PanelTypeOK, BagOK
<1>2. Leaves /\ Prompted
  BY DEF ClickSubmit, ClickCancel, ClosePopupWithoutCancel, Leaves, On, Prompted
<1> DEFINE p == snapshot.prompt
<1>3. p.session \in Session /\ p.fields \in SUBSET Supported
  BY <1>2, Offered DEF PanelInv
<1>4. CASE ClickSubmit
  <2> DEFINE m == SubmitPrompt(p.session, p.fields)
  <2>1. m \in UiCommand
    BY <1>3, Kinds
  <2>2. m.op \in ResolutionOps /\ m.from = p.session
    BY DEF SubmitPrompt, ResolutionOps
  <2>3. Send(m)
    BY <1>4 DEF ClickSubmit
  <2> HIDE DEF m
  <2> QED BY <1>1, <1>2, <2>1, <2>2, <2>3, SendsOne DEF ResolvesOnce
<1>5. CASE ClickCancel
  <2> DEFINE m == CancelPrompt(p.session)
  <2>1. m \in UiCommand
    BY <1>3, Kinds
  <2>2. m.op \in ResolutionOps /\ m.from = p.session
    BY DEF CancelPrompt, ResolutionOps
  <2>3. Send(m)
    BY <1>5 DEF ClickCancel
  <2> HIDE DEF m
  <2> QED BY <1>1, <1>2, <2>1, <2>2, <2>3, SendsOne DEF ResolvesOnce
<1> QED BY <1>4, <1>5

\* What the other messages send is no resolution.
LEMMA OtherKinds ==
  /\ \A c \in Config :
       /\ SelectProfile(c).op \notin ResolutionOps
       /\ Delete(c).op \notin ResolutionOps
       /\ \A n \in Name : Rename(c, n).op \notin ResolutionOps
  /\ \A n \in Name : Import(n).op \notin ResolutionOps
  /\ DisconnectActiveOne.op \notin ResolutionOps
  /\ DismissFailure.op \notin ResolutionOps
  /\ RefreshProfiles.op \notin ResolutionOps
BY DEF SelectProfile, Delete, Rename, Import, DisconnectActiveOne,
       DismissFailure, RefreshProfiles, ResolutionOps

\* Every other message of the user leaves no prompt.
LEMMA OthersResolveNone ==
  ASSUME PanelInv,
         \/ ClickConnect \/ ClickDisconnect \/ ClickDismiss \/ ClickViewLog
         \/ ClickEnterCredentials \/ ClickImport \/ ClickManage \/ ClickBack
         \/ TypeName \/ ClickRename \/ ClickArmDelete \/ ClickDisarmDelete
         \/ ClickDelete \/ ImportChosen \/ WorkerReady \/ TypeField
  PROVE  ResolvesOnce
<1>1. BagOK
  BY DEF PanelInv, PanelTypeOK, BagOK
<1>2. ~Leaves
  BY DEF ClickConnect, ClickDisconnect, ClickDismiss, ClickViewLog,
     ClickEnterCredentials, ClickImport, ClickManage, ClickBack, TypeName,
     ClickRename, ClickArmDelete, ClickDisarmDelete, ClickDelete, ImportChosen,
     WorkerReady, TypeField, OnMenu, On, Leaves
<1>3. CASE \/ ClickViewLog \/ ClickEnterCredentials \/ ClickImport \/ ClickManage
           \/ ClickBack \/ TypeName \/ ClickArmDelete \/ ClickDisarmDelete
           \/ WorkerReady \/ TypeField
  BY <1>1, <1>2, <1>3, SendsOther
     DEF ClickViewLog, ClickEnterCredentials, ClickImport, ClickManage,
         ClickBack, TypeName, ClickArmDelete, ClickDisarmDelete, WorkerReady,
         TypeField, ResolvesOnce
<1>4. CASE ClickConnect \/ ClickDisconnect \/ ClickDismiss \/ ImportChosen
  BY <1>1, <1>2, <1>4, Kinds, OtherKinds, SendsOther
     DEF ClickConnect, ClickDisconnect, ClickDismiss, ImportChosen, ResolvesOnce
<1>5. CASE ClickRename
  <2>1. page.config \in Config
    BY <1>5, OnManage DEF ClickRename
  <2>2. page.new # page.label => page.new \in Name
    BY <1>5 DEF ClickRename, On, PanelInv, NewNameIsName
  <2> QED BY <1>1, <1>2, <1>5, <2>1, <2>2, Kinds, OtherKinds, SendsOther
          DEF ClickRename, ResolvesOnce
<1>6. CASE ClickDelete
  <2>1. page.config \in Config
    BY <1>6, OnManage DEF ClickDelete
  <2> QED BY <1>1, <1>2, <1>6, <2>1, Kinds, OtherKinds, SendsOther
          DEF ClickDelete, ResolvesOnce
<1> QED BY <1>3, <1>4, <1>5, <1>6

\* Every message resolves a prompt if it leaves one, and none otherwise.
LEMMA MessageResolves ==
  ASSUME PanelInv, AuthIsShown, Message
  PROVE  ResolvesOnce
<1>1. BagOK
  BY DEF PanelInv, PanelTypeOK, BagOK
<1>2. OpenPopup => ResolvesNone
  BY <1>1, Kinds, OtherKinds, SendsOther DEF OpenPopup
<1>3. CASE TogglePopup
  <2>1. CASE popup
    BY <1>3, <2>1, ClosingResolves DEF TogglePopup
  <2>2. CASE ~popup
    BY <1>2, <1>3, <2>2 DEF TogglePopup, ResolvesOnce, Leaves, On
  <2> QED BY <2>1, <2>2
<1>4. CASE Closed
  BY <1>4, ClosingResolves DEF Closed
<1>5. ASSUME NEW new \in SnapshotKind, SnapshotArrives(new)
      PROVE  ResolvesOnce
  <2>1. ResolvesNone
    BY <1>1, <1>2, <1>5, SendsOther DEF SnapshotArrives
  <2>2. page' = Auth => page'.name = "Auth"
    BY Pages
  <2>3. ~Leaves
    BY <1>5, <2>2 DEF SnapshotArrives, OpenPopup, Leaves, On
  <2> QED BY <2>1, <2>3 DEF ResolvesOnce
<1> QED BY <1>3, <1>4, <1>5, ButtonsResolve, OthersResolveNone
        DEF Message, Click

\* The worker takes a command, or nothing happens here.
LEMMA TakenResolvesNone ==
  ASSUME PanelInv, UNCHANGED Face,
         \/ UNCHANGED commands
         \/ \E m \in BagToSet(commands) : commands' = BagRemove(commands, m)
  PROVE  ResolvesOnce
<1>1. BagOK
  BY DEF PanelInv, PanelTypeOK, BagOK
<1>2. ~Leaves
  BY DEF Leaves, On, Face
<1>3. \A n : Copies(n, commands) \in Nat
  BY <1>1 DEF BagOK, IsABag, Copies, BagIn, BagToSet
<1>4. ResolvesNone
  BY <1>1, <1>3, Removed DEF ResolvesNone, BagOK
<1> QED BY <1>2, <1>4 DEF ResolvesOnce

\* No page of a prompt is there at first.
LEMMA AuthShownInit == PanelInit => AuthIsShown
BY DEF PanelInit, AuthIsShown, Prompted, Menu, Auth

-----------------------------------------------------------------------------
(* Commands under way *)

\* Every message of the user, and the portal's answer, sends at most one.
LEMMA MessageSends ==
  ASSUME Click \/ ClickConnect \/ ImportChosen
  PROVE  UNCHANGED commands \/ \E m : Send(m)
BY DEF Click, ClickConnect, ImportChosen, TogglePopup, Closed, ClosePopup,
       CancelPromptIfOpen, OpenPopup, ClickDisconnect, ClickDismiss,
       ClickViewLog, ClickEnterCredentials, TypeField, ClickSubmit, ClickCancel,
       ClickImport, ClickManage, TypeName, ClickRename, ClickArmDelete,
       ClickDisarmDelete, ClickDelete, ClickBack

\* What is under way stays so when another command is sent, and a command that
\* is sent is under way.
LEMMA SentIsUnderWay ==
  ASSUME NEW m
  PROVE  /\ Send(m) /\ ready => BagIn(m, commands')
         /\ \A n : Send(m) /\ BagIn(n, commands) => BagIn(n, commands')
<1>1. /\ BagIn(m, BagAdd(commands, m))
      /\ \A n : BagIn(n, commands) => BagIn(n, BagAdd(commands, m))
  BY DEF BagIn, BagAdd, BagToSet
<1> QED BY <1>1 DEF Send

\* Whatever opens the popup asks for the profiles.
LEMMA OpeningAsks ==
  ASSUME PanelInv, ready, ~popup, popup',
         Click \/ ClickConnect \/ ImportChosen \/ \E new : SnapshotArrives(new)
  PROVE  BagIn(RefreshProfiles, commands')
<1>1. Send(RefreshProfiles)
  <2>1. CASE \E new : SnapshotArrives(new)
    BY <2>1 DEF SnapshotArrives, OpenPopup, ToMenu
  <2>2. CASE TogglePopup
    BY <2>2 DEF TogglePopup, OpenPopup
  <2>3. CASE ClickConnect \/ ImportChosen
    BY <2>3 DEF ClickConnect, ImportChosen, ClosePopupWithoutCancel
  <2>4. CASE Click /\ ~TogglePopup
    BY <2>4
       DEF Click, Closed, ClosePopup, ClosePopupWithoutCancel, ToMenu, On,
           OnMenu, ClickDisconnect, ClickDismiss, ClickViewLog,
           ClickEnterCredentials, TypeField, ClickSubmit, ClickCancel,
           ClickImport, ClickManage, TypeName, ClickRename, ClickArmDelete,
           ClickDisarmDelete, ClickDelete, ClickBack
  <2> QED BY <2>1, <2>2, <2>3, <2>4
<1> QED BY <1>1, SentIsUnderWay
===============================================================================
