------------------------------ MODULE Profiles ------------------------------
(***************************************************************************)
(* The profiles in the menu: the worker's list, the commands that change   *)
(* it (import, rename_profile, delete_profile and refresh_profiles of      *)
(* crates/applet/src/dbus.rs) and the configuration service, which         *)
(* terminals change too.                                                   *)
(*                                                                         *)
(* The steps are on the worker's `todo', one call each, like those of      *)
(* Worker.  A profile is its configuration path.                           *)
(***************************************************************************)
EXTENDS Worker, ProfileNames

CONSTANTS
  FaultyConfigCalls,  \* the calls of this module that may fail
  TerminalActs        \* the names terminals give profiles, and Gone if they
                      \* remove them

\* The marks for a path without a profile are no names.
ASSUME ProfilesAssumption ==
  /\ FaultyConfigCalls \subseteq {"Fetch", "Name", "SetName", "Remove"}
  /\ TerminalActs \subseteq Name \cup {"Gone"}
  /\ None \notin {"Down", "Refused"}
  /\ Name \cap {"Unborn", "Gone"} = {}

VARIABLES
  stored,       \* stored[c]: the service's name for c, or Unborn, or Gone
  listed,       \* Worker.profiles: c's label, or None if it is not listed
  unavailable,  \* the text shown instead of the menu: Down when the service
                \* does not answer, Refused when a command failed; None
  configOf,     \* configOf[s]: the profile session s was started for, or None
  touched       \* history: a terminal has changed the profiles since they
                \* were last fetched

profileVars == <<stored, listed, unavailable, configOf, touched>>

Stored(c) == stored[c] \notin {"Unborn", "Gone"}

NothingListed == [c \in Config |-> None]

\* Machine::active_config.
ActiveConfig == IF active = None THEN None ELSE configOf[active]

-----------------------------------------------------------------------------
(* Steps *)

Fetch(attempt)      == [op |-> "Fetch", attempt |-> attempt]
ReadNames(cs)       == [op |-> "ReadNames", configs |-> cs]
ImportFile(n)       == [op |-> "Import", name |-> n]
RenameProfile(c, n) == [op |-> "Rename", config |-> c, name |-> n]
DeleteProfile(c)    == [op |-> "Delete", config |-> c]

ProfileOps == {"Fetch", "ReadNames", "Import", "Rename", "Delete"}

FailsToo(call) == call \in FaultyConfigCalls

\* What every step here leaves alone.
WorkerStill == UNCHANGED <<machineVars, openvpn3Vars, prompt, shown, intent>>

\* refresh_profiles: the service is started again by the first call after an
\* idle-out, so a first failure is retried and a second one is shown.
ExecFetch ==
  /\ Doing("Fetch")
  /\ \/ /\ unavailable' = None
        /\ listed' = NothingListed
        /\ touched' = FALSE
        /\ Returns(<<ReadNames({c \in Config : Stored(c)})>>, Rest)
     \/ /\ FailsToo("Fetch")
        /\ Head(todo).attempt = 1
        /\ Returns(<<Fetch(2)>>, Rest)
        /\ UNCHANGED <<unavailable, listed, touched>>
     \/ /\ FailsToo("Fetch")
        /\ Head(todo).attempt = 2
        /\ unavailable' = "Down"
        /\ listed' = NothingListed
        /\ Done
        /\ UNCHANGED touched
  /\ UNCHANGED <<stored, configOf>>
  /\ WorkerStill

\* One name after another, in the order of the service's list.
ExecReadNames ==
  /\ Doing("ReadNames")
  /\ LET left == Head(todo).configs IN
       \/ left = {} /\ Done /\ UNCHANGED listed
       \/ \E c \in left :
            /\ \/ /\ Stored(c)
                  /\ listed' = [listed EXCEPT ![c] = DisplayName[stored[c]]]
               \/ /\ ~Stored(c) \/ FailsToo("Name")
                  /\ listed' = [listed EXCEPT ![c] = Fallback]
            /\ Returns(<<ReadNames(left \ {c})>>, Rest)
  /\ UNCHANGED <<stored, unavailable, configOf, touched>>
  /\ WorkerStill

\* Mutant: the list is not read again.
SucceedsUnread ==
  /\ unavailable' = None
  /\ Done

\* A command that succeeded: the list is read again from the service.
Succeeds ==
  /\ unavailable' = None
  /\ Returns(<<Fetch(1)>>, Rest)

Refused ==
  /\ unavailable' = "Refused"
  /\ Done
  /\ UNCHANGED stored

\* import.  The service makes up the path.  The file may be unreadable.
ExecImport ==
  /\ Doing("Import")
  /\ \/ \E c \in Config :
          /\ stored[c] = "Unborn"
          /\ stored' = [stored EXCEPT ![c] = Head(todo).name]
          /\ Succeeds
     \/ Refused
  /\ UNCHANGED <<listed, configOf, touched>>
  /\ WorkerStill

\* rename_profile.
ExecRename ==
  /\ Doing("Rename")
  /\ LET c == Head(todo).config IN
       \/ /\ Stored(c)
          /\ stored' = [stored EXCEPT ![c] = Head(todo).name]
          /\ Succeeds
       \/ (~Stored(c) \/ FailsToo("SetName")) /\ Refused
  /\ UNCHANGED <<listed, configOf, touched>>
  /\ WorkerStill

\* Mutant: the guard is left to the panel.
ExecDeleteUnguarded ==
  /\ Doing("Delete")
  /\ LET c == Head(todo).config IN
       \/ /\ Stored(c)
          /\ stored' = [stored EXCEPT ![c] = "Gone"]
          /\ Succeeds
       \/ (~Stored(c) \/ FailsToo("Remove")) /\ Refused
  /\ UNCHANGED <<listed, configOf, touched>>
  /\ WorkerStill

\* delete_profile: refused while the profile is the displayed session's.
ExecDelete ==
  /\ Doing("Delete")
  /\ LET c == Head(todo).config IN
       \/ /\ ActiveConfig # c
          /\ Stored(c)
          /\ stored' = [stored EXCEPT ![c] = "Gone"]
          /\ Succeeds
       \/ (ActiveConfig = c \/ ~Stored(c) \/ FailsToo("Remove")) /\ Refused
  /\ UNCHANGED <<listed, configOf, touched>>
  /\ WorkerStill

ProfileWork ==
  ExecFetch \/ ExecReadNames \/ ExecImport \/ ExecRename \/ ExecDelete

\* NewTunnel, which needs the profile to be there.
ExecNewTunnelFor ==
  \/ /\ TunnelStarts
     /\ Stored(Head(todo).config)
     /\ configOf' = [configOf EXCEPT ![Head(todo').session] = Head(todo).config]
     /\ UNCHANGED <<stored, listed, unavailable, touched>>
  \/ /\ TunnelRefused
     /\ ~Stored(Head(todo).config) \/ Fails("NewTunnel")
     /\ UNCHANGED profileVars

-----------------------------------------------------------------------------
\* openvpn3 config-import, config-manage and config-remove in a terminal.
\* Nothing tells the applet.  A bound: one change between two fetches.
ConfigTerminal ==
  /\ ~touched
  /\ \E c \in Config, x \in TerminalActs :
       /\ stored[c] \notin {"Gone", x}
       /\ stored[c] = "Unborn" => x \in Name
       /\ stored' = [stored EXCEPT ![c] = x]
  /\ touched' = TRUE
  /\ UNCHANGED <<listed, unavailable, configOf, todo>>
  /\ WorkerStill

\* A session from a terminal was started for some profile.
ProfilesInit ==
  /\ stored \in [Config -> Name \cup {"Unborn"}]
  /\ listed = NothingListed
  /\ unavailable = None
  /\ configOf \in [Session -> Config \cup {None}]
  /\ \A s \in Session : (configOf[s] = None) <=> s \in Own
  /\ touched = FALSE

ProfilesTypeOK ==
  /\ stored \in [Config -> Name \cup {"Unborn", "Gone"}]
  /\ listed \in [Config -> Name \cup {Fallback, None}]
  /\ unavailable \in {None, "Down", "Refused"}
  /\ configOf \in [Session -> Config \cup {None}]
  /\ touched \in BOOLEAN
=============================================================================
