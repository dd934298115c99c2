---------------------------- MODULE ProfileNames ----------------------------
(***************************************************************************)
(* What profiles are called: crates/openvpn3-dbus/src/profile.rs.          *)
(***************************************************************************)
EXTENDS Objects

CONSTANTS
  Name,         \* what a profile can be called
  DisplayName   \* the label the menu gives a name: two names can have one

ASSUME ProfileNamesAssumption ==
  /\ DisplayName \in [Name -> Name]
  /\ None \notin Name

\* fallback_label: a profile whose name cannot be read is listed all the same.
Fallback == "Profile"
=============================================================================
