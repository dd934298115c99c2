------------------------------ MODULE Attention ------------------------------
(***************************************************************************)
(* Requests for input, and which of them the applet services:              *)
(* crates/openvpn3-dbus/src/attention.rs.  A request travels the bus as    *)
(* two unsigned 32-bit integers, a type and a group.                       *)
(***************************************************************************)
EXTENDS Naturals, Sequences

\* wire_enum!: the names the numbers decode to, in order from 0.
ClientAttentionType == <<"Unset", "Credentials", "Pkcs11", "AccessPerm">>
ClientAttentionGroup ==
  <<"Unset", "UserPassword", "HttpProxyCreds", "PkPassphrase",
    "ChallengeStatic", "ChallengeDynamic", "ChallengeAuthPending",
    "Pkcs11Sign", "Pkcs11Decrypt", "OpenUrl">>

\* The three shapes of prompt.
PromptKind == {"UserPassword", "PrivateKeyPassphrase", "Challenge"}

Unsupported == "Unsupported"

\* route_attention.  Only the reason differs among what is unsupported, and a
\* combination nobody thought of is.
RouteAttention(type, group) ==
  CASE type = "Credentials" /\ group = "UserPassword" -> "UserPassword"
    [] type = "Credentials" /\ group = "PkPassphrase" -> "PrivateKeyPassphrase"
    [] type = "Credentials" /\ group \in {"ChallengeStatic", "ChallengeDynamic"}
         -> "Challenge"
    [] OTHER -> Unsupported
=============================================================================
