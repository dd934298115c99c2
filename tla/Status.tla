------------------------------- MODULE Status -------------------------------
(***************************************************************************)
(* What openvpn3 reports about a session, and the icon state it means:     *)
(* crates/openvpn3-dbus/src/status.rs.                                     *)
(*                                                                         *)
(* A status travels the bus as two unsigned 32-bit integers and a text.    *)
(* The text is only ever displayed, so it is left out.  Everything else in *)
(* the applet depends on a status through transition() alone: the icon     *)
(* state it sets, or NoChange.  The other modules therefore carry the      *)
(* class of a status, a member of StatusClass, and never the pair.         *)
(***************************************************************************)
EXTENDS Integers

\* The five states of the panel icon.
ConnectionState ==
  {"Disconnected", "Connecting", "Connected", "AuthPending", "Failed"}

\* StateTransition: Set(state), or NoChange for a status not in the table.
NoChange == "NoChange"
StatusClass == ConnectionState \cup {NoChange}

\* wire_enum!: the names openvpn3's numbers decode to, in order from 0.
StatusMajor ==
  <<"Unset", "Config", "Connection", "Session", "Pkcs11", "Process">>
StatusMinor ==
  <<"Unset", "CfgError", "CfgOk", "CfgInlineMissing", "CfgRequireUser",
    "ConnInit", "ConnConnecting", "ConnConnected", "ConnDisconnecting",
    "ConnDisconnected", "ConnFailed", "ConnAuthFailed", "ConnReconnecting",
    "ConnPausing", "ConnPaused", "ConnResuming", "ConnDone",
    "SessNew", "SessBackendCompleted", "SessRemoved",
    "SessAuthUserpass", "SessAuthChallenge", "SessAuthUrl",
    "Pkcs11Sign", "Pkcs11Encrypt", "Pkcs11Decrypt", "Pkcs11Verify",
    "ProcStarted", "ProcStopped", "ProcKilled">>

\* Mutant: on the way down passes for down.
MapStatusEager(major, minor) ==
  IF major = "Connection"
  THEN CASE minor \in {"ConnDisconnected", "ConnDone", "ConnDisconnecting"}
              -> "Disconnected"
         [] minor = "ConnConnected" -> "Connected"
         [] minor \in {"ConnFailed", "ConnAuthFailed"} -> "Failed"
         [] OTHER -> "Connecting"
  ELSE NoChange

\* map_status: a pair outside the table changes nothing on display.
MapStatus(major, minor) ==
  CASE \/ major = "Connection" /\ minor \in {"ConnDisconnected", "ConnDone"}
       \/ major = "Session"    /\ minor = "SessRemoved"
         -> "Disconnected"
    [] \/ major = "Config"     /\ minor = "CfgOk"
       \/ major = "Connection" /\ minor \in
            {"ConnInit", "ConnConnecting", "ConnReconnecting",
             "ConnDisconnecting", "ConnPausing", "ConnPaused", "ConnResuming"}
         -> "Connecting"
    [] major = "Connection" /\ minor = "ConnConnected"
         -> "Connected"
    [] \/ major = "Config"  /\ minor = "CfgRequireUser"
       \/ major = "Session" /\ minor \in
            {"SessAuthUserpass", "SessAuthChallenge", "SessAuthUrl"}
         -> "AuthPending"
    [] \/ major = "Config"     /\ minor \in {"CfgError", "CfgInlineMissing"}
       \/ major = "Connection" /\ minor \in {"ConnFailed", "ConnAuthFailed"}
       \/ major = "Process"    /\ minor = "ProcKilled"
         -> "Failed"
    [] OTHER -> NoChange
=============================================================================
