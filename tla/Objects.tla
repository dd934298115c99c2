------------------------------- MODULE Objects -------------------------------
(***************************************************************************)
(* The openvpn3 objects the applet and the service talk about.  They are   *)
(* D-Bus object paths and wire codes in the code, unanalysed values here.  *)
(***************************************************************************)
CONSTANTS
  Session,     \* session object paths; none is ever used twice
  Own,         \* those NewTunnel hands to the applet; the others belong to
               \* sessions started from a terminal
  Config,      \* configuration object paths
  Group,       \* credential requests, one per (type, group) pair
  Recognised,  \* the pairs ClientAttentionType and -Group can decode
  Supported,   \* the pairs route_attention has a prompt kind for
  None         \* Option::None

ASSUME ObjectsAssumption ==
  /\ None \notin Session
  /\ None \notin Config
  /\ Own \subseteq Session
  /\ Supported \subseteq Recognised
  /\ Recognised \subseteq Group
=============================================================================
