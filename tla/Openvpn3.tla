------------------------------ MODULE Openvpn3 ------------------------------
(***************************************************************************)
(* The openvpn3 session service and the signals it sends, as far as the    *)
(* applet's worker can tell (crates/openvpn3-dbus/src/proxy.rs and the way *)
(* crates/applet/src/dbus.rs uses it).  The service is not part of the     *)
(* repository: this is the environment the worker is checked against, and  *)
(* it promises as little as possible.                                      *)
(*                                                                         *)
(* What it promises: a session path is never reused; a session that has    *)
(* reported the end of its connection can only go away; a session is       *)
(* connected only after somebody dialled it and once nothing is asked; a   *)
(* session that was told to disconnect goes away in the end.               *)
(*                                                                         *)
(* Every kind of signal has a forwarding task of its own (subscribe_session *)
(* spawns three per session, watch_session_manager one), and they all send *)
(* into one channel.  Order is kept within a task and not between tasks,   *)
(* so each task is a queue here and the worker receives from any of them.  *)
(* MaxQueue bounds a queue (the channel holds 256).  A signal sent before  *)
(* the subscription exists is gone, and when Lossy any signal may be.      *)
(*                                                                         *)
(* Log signals only fill the log buffer, which no decision of the worker   *)
(* reads; they are not modelled here, nor is a manager event other than a  *)
(* removal, which on_wire answers with nothing.                            *)
(***************************************************************************)
EXTENDS Objects, Status, Sequences, FiniteSets

CONSTANTS
  Reports,   \* the status classes the backends of this instance report
  Lossy,     \* whether a signal may be lost on a live subscription
  MaxQueue   \* signals one forwarding task can have waiting

ASSUME Openvpn3Assumption ==
  /\ Reports \subseteq StatusClass
  /\ Lossy \in BOOLEAN
  /\ MaxQueue \in Nat

VARIABLES
  real,        \* real[s]: the class of s's status, or Unborn, or Gone
  asks,        \* asks[s]: the requests in s's user-input queue
  dialled,     \* sessions somebody called Connect on
  told,        \* sessions somebody called Disconnect on
  forwarded,   \* sessions LogForward was called on
  subscribed,  \* sessions whose signals the applet's tasks forward
  watching,    \* whether SessionManagerEvent is forwarded
  statusQ,     \* statusQ[s]: StatusChange signals waiting
  attentionQ,  \* attentionQ[s]: AttentionRequired signals waiting
  removedQ     \* sessions whose removal was signalled

queueVars == <<statusQ, attentionQ, removedQ>>
serviceVars == <<real, asks, dialled, told, forwarded>>
openvpn3Vars == <<serviceVars, subscribed, watching, queueVars>>

Exists(s)  == real[s] \notin {"Unborn", "Gone"}
\* A session that may still hold a tunnel, or come to hold one.
Running(s) == Exists(s) /\ real[s] # "Disconnected"

-----------------------------------------------------------------------------
(* What the service does by itself *)

\* A StatusChange.  Disconnected is final for a session.
ReportStatus(s, x) ==
  /\ Running(s)
  /\ x # real[s]
  /\ x = "Connected" => s \in dialled /\ asks[s] = {}
  /\ real' = [real EXCEPT ![s] = x]
  /\ \/ /\ s \in subscribed
        /\ Len(statusQ[s]) < MaxQueue
        /\ statusQ' = [statusQ EXCEPT ![s] = Append(@, x)]
     \/ /\ s \notin subscribed \/ Lossy
        /\ UNCHANGED statusQ
  /\ UNCHANGED <<asks, dialled, told, forwarded, subscribed, watching,
                 attentionQ, removedQ>>

\* A challenge during the handshake: an AttentionRequired signal.
RequireAttention(s, g) ==
  /\ Running(s)
  /\ s \in dialled
  /\ g \notin asks[s]
  /\ asks' = [asks EXCEPT ![s] = @ \cup {g}]
  /\ \/ /\ s \in subscribed
        /\ Len(attentionQ[s]) < MaxQueue
        /\ attentionQ' = [attentionQ EXCEPT ![s] = Append(@, g)]
     \/ /\ s \notin subscribed \/ Lossy
        /\ UNCHANGED attentionQ
  /\ UNCHANGED <<real, dialled, told, forwarded, subscribed, watching,
                 statusQ, removedQ>>

\* The session object vanishes with all it holds: disconnected by the applet
\* or from a terminal, or its backend died.  What it signalled still waits.
RemoveSession(s) ==
  /\ Exists(s)
  /\ real' = [real EXCEPT ![s] = "Gone"]
  /\ asks' = [asks EXCEPT ![s] = {}]
  /\ \/ /\ watching
        /\ Len(removedQ) < MaxQueue
        /\ removedQ' = Append(removedQ, s)
     \/ /\ ~watching \/ Lossy
        /\ UNCHANGED removedQ
  /\ dialled' = dialled \ {s}
  /\ told' = told \ {s}
  /\ forwarded' = forwarded \ {s}
  /\ subscribed' = subscribed \ {s}
  /\ UNCHANGED <<watching, statusQ, attentionQ>>

\* openvpn3 session-start in a terminal.
StartFromTerminal(s) ==
  /\ s \notin Own
  /\ real[s] = "Unborn"
  /\ real' = [real EXCEPT ![s] = "Connecting"]
  /\ dialled' = dialled \cup {s}
  /\ UNCHANGED <<asks, told, forwarded, subscribed, watching, queueVars>>

Openvpn3Next ==
  \E s \in Session :
    \/ \E x \in Reports : ReportStatus(s, x)
    \/ \E g \in Group : RequireAttention(s, g)
    \/ RemoveSession(s)
    \/ StartFromTerminal(s)

-----------------------------------------------------------------------------
(* What the applet's calls do to it *)

\* NewTunnel: a new session whose process is starting, and the requests Ready
\* is going to find.  Its first statuses are outside the KTD3 table.
StartTunnel(s, requests) ==
  /\ s \in Own
  /\ real[s] = "Unborn"
  /\ real' = [real EXCEPT ![s] = NoChange]
  /\ asks' = [asks EXCEPT ![s] = requests]
  /\ UNCHANGED <<dialled, told, forwarded, subscribed, watching, queueVars>>

Dial(s) ==
  /\ dialled' = dialled \cup {s}
  /\ UNCHANGED <<real, asks, told, forwarded, subscribed, watching, queueVars>>

Stop(s) ==
  /\ told' = told \cup {s}
  /\ UNCHANGED <<real, asks, dialled, forwarded, subscribed, watching,
                 queueVars>>

ForwardLog(s) ==
  /\ forwarded' = forwarded \cup {s}
  /\ UNCHANGED <<real, asks, dialled, told, subscribed, watching, queueVars>>

\* UserInputProvide.  The answers may lead to another round of requests.
Answer(s, groups, more) ==
  /\ asks' = [asks EXCEPT ![s] = (@ \ groups) \cup more]
  /\ UNCHANGED <<real, dialled, told, forwarded, subscribed, watching,
                 queueVars>>

Subscribe(s) ==
  /\ subscribed' = subscribed \cup {s}
  /\ UNCHANGED <<serviceVars, watching, queueVars>>

Watch ==
  /\ watching' = TRUE
  /\ UNCHANGED <<serviceVars, subscribed, queueVars>>

-----------------------------------------------------------------------------
Openvpn3TypeOK ==
  /\ real \in [Session -> StatusClass \cup {"Unborn", "Gone"}]
  /\ asks \in [Session -> SUBSET Group]
  /\ dialled \subseteq Session
  /\ told \subseteq Session
  /\ forwarded \subseteq Session
  /\ subscribed \subseteq Session
  /\ watching \in BOOLEAN
  /\ statusQ \in [Session -> Seq(StatusClass)]
  /\ attentionQ \in [Session -> Seq(Group)]
  /\ removedQ \in Seq(Session)

\* The applet starts beside sessions that are already there.
Openvpn3Init ==
  /\ real \in [Session -> Reports \cup {"Unborn"}]
  /\ \A s \in Own : real[s] = "Unborn"
  /\ asks = [s \in Session |-> {}]
  /\ dialled = {s \in Session : real[s] # "Unborn"}
  /\ told = {}
  /\ forwarded = {}
  /\ subscribed = {}
  /\ watching = FALSE
  /\ statusQ = [s \in Session |-> <<>>]
  /\ attentionQ = [s \in Session |-> <<>>]
  /\ removedQ = <<>>
=============================================================================
