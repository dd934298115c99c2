----------------------------- MODULE SignalCodes -----------------------------
(***************************************************************************)
(* The three signals that decide anything, from the numbers on the bus to  *)
(* the Machine: StatusChange and SessionManagerEvent, decoded in their     *)
(* forwarding tasks, and AttentionRequired, decoded in on_wire             *)
(* (crates/applet/src/dbus.rs).                                            *)
(*                                                                         *)
(* The other modules take a status as its class and a request as an        *)
(* element of Group, Recognised and Supported.  Here they are the numbers: *)
(* unsigned, 32 bits wide, narrowed with `as u8' and `as u16' before they  *)
(* are looked up (an event type is 16 bits wide on the bus already).  The  *)
(* ...OnWire constants bound what openvpn3 sends.                          *)
(*                                                                         *)
(* `todo' is the batch the last signal led to, which nobody has executed   *)
(* yet.                                                                    *)
(***************************************************************************)
EXTENDS Machine, Attention

CONSTANTS MajorsOnWire, MinorsOnWire, TypesOnWire, GroupsOnWire, EventsOnWire

VARIABLE wire   \* the last signal, as it was on the bus

vars == <<machineVars, todo, wire>>

U8(n)  == n % 256
U16(n) == n % 65536

Nothing ==
  [signal |-> "None", session |-> None, codes |-> <<>>]
OnBus(name, s, codes) ==
  [signal |-> name, session |-> s, codes |-> codes]

\* Status::from_wire succeeds: try_from finds a variant for both numbers.
Decodes(major, minor) ==
  U8(major) + 1 \in DOMAIN StatusMajor /\ U16(minor) + 1 \in DOMAIN StatusMinor

\* Status::transition of the decoded pair.
Transition(major, minor) ==
  MapStatus(StatusMajor[U8(major) + 1], StatusMinor[U16(minor) + 1])

\* The decoded request, as a set: empty if either number has no variant.
Request(type, group) ==
  {<<U8(type), U8(group)>>} \cap
    ({n - 1 : n \in DOMAIN ClientAttentionType}
       \X {n - 1 : n \in DOMAIN ClientAttentionGroup})

Kind(request) ==
  RouteAttention(ClientAttentionType[request[1] + 1],
                 ClientAttentionGroup[request[2] + 1])

\* What the constants of Objects stand for.
ASSUME CodesAssumption ==
  /\ MajorsOnWire \subseteq Nat /\ MinorsOnWire \subseteq Nat
  /\ TypesOnWire \subseteq Nat /\ GroupsOnWire \subseteq Nat
  /\ EventsOnWire \subseteq Nat
  /\ Recognised = UNION {Request(t, g) : t \in TypesOnWire, g \in GroupsOnWire}
  /\ Supported = {r \in Recognised : Kind(r) # Unsupported}

-----------------------------------------------------------------------------
\* A StatusChange that does not decode is dropped in the forwarding task.
StatusChange(s, major, minor) ==
  /\ wire' = OnBus("StatusChange", s, <<major, minor>>)
  /\ \/ Decodes(major, minor) /\ StatusChanged(s, Transition(major, minor), <<>>)
     \/ ~Decodes(major, minor) /\ Ignored(<<>>)

\* Mutant: an unknown request is dropped like an unknown status.
AttentionRequiredSilent(s, type, group) ==
  /\ wire' = OnBus("AttentionRequired", s, <<type, group>>)
  /\ CredentialsRequired(s, Request(type, group), <<>>)

\* An AttentionRequired that does not decode is noted by the worker itself.
AttentionRequired(s, type, group) ==
  /\ wire' = OnBus("AttentionRequired", s, <<type, group>>)
  /\ \/ /\ Request(type, group) # {}
        /\ CredentialsRequired(s, Request(type, group), <<>>)
     \/ /\ Request(type, group) = {}
        /\ Returns(<<Note(s)>>, <<>>)
        /\ UNCHANGED machineVars

\* Mutant: every event type but "created" is an end.
IsDestroyedUnlessCreated(event) == event # 1

\* SessionEventType: 0 unset, 1 created, 2 destroyed; nothing else decodes.
IsDestroyed(event) == event = 2

SessionManagerEvent(s, event) ==
  /\ wire' = OnBus("SessionManagerEvent", s, <<event>>)
  /\ \/ IsDestroyed(event) /\ SessionRemoved(s, <<>>)
     \/ ~IsDestroyed(event) /\ Ignored(<<>>)

\* What else moves the session: it is created, and its prompt is answered.
Other(s) ==
  /\ wire' = Nothing
  /\ \/ {active, awaitingTeardown} = {None} /\ SessionCreated(s, <<>>)
     \/ promptOpen /\ PromptSubmitted(s, {}, <<>>)
     \/ promptOpen /\ PromptCancelled(s, <<>>)

Next ==
  \E s \in Session :
    \/ \E major \in MajorsOnWire, minor \in MinorsOnWire :
         StatusChange(s, major, minor)
    \/ \E type \in TypesOnWire, group \in GroupsOnWire :
         AttentionRequired(s, type, group)
    \/ \E event \in EventsOnWire : SessionManagerEvent(s, event)
    \/ Other(s)

Init ==
  /\ MachineInit
  /\ todo = <<>>
  /\ wire = Nothing

Spec == Init /\ [][Next]_vars

-----------------------------------------------------------------------------
(* Properties *)

TypeOK ==
  /\ MachineTypeOK
  /\ todo \in Seq(Command)
  /\ wire.signal \in {"None", "StatusChange", "AttentionRequired",
                      "SessionManagerEvent"}
  /\ wire.session \in Session \cup {None}

Received(name) == wire'.signal = name /\ wire' # wire
\* It is about the session on display.
OfDisplayed == active # None /\ wire'.session = active
Noted == \E i \in 1..Len(todo') : todo'[i].op = "Note"

\* The decision table KTD3 of the plan, in the numbers openvpn3 documents.
KTD3 ==
  [Disconnected |-> {<<2, 9>>, <<2, 16>>, <<3, 19>>},
   Connecting   |-> {<<1, 2>>, <<2, 5>>, <<2, 6>>, <<2, 12>>, <<2, 8>>,
                     <<2, 13>>, <<2, 14>>, <<2, 15>>},
   Connected    |-> {<<2, 7>>},
   AuthPending  |-> {<<1, 4>>, <<3, 20>>, <<3, 21>>, <<3, 22>>},
   Failed       |-> {<<1, 1>>, <<1, 3>>, <<2, 10>>, <<2, 11>>, <<5, 29>>}]

Known(pair) == pair[1] <= 5 /\ pair[2] <= 29

\* Every status of the displayed session moves the icon exactly where the
\* plan's table says, and a known status outside the table leaves the icon
\* alone and is recorded in the log: the decoding of the numbers, map_status
\* and apply_status together.
TableImplemented ==
  [][ Received("StatusChange") /\ OfDisplayed =>
        /\ \A x \in ConnectionState : wire'.codes \in KTD3[x] => state' = x
        /\ (\A x \in ConnectionState : wire'.codes \notin KTD3[x]) =>
             /\ state' = state
             /\ Known(wire'.codes) => Noted ]_vars

\* The routing table KTD8 of the plan: the requests that get a prompt.
KTD8 == {<<1, 1>>, <<1, 3>>, <<1, 4>>, <<1, 5>>}
KnownRequest(pair) == pair[1] <= 3 /\ pair[2] <= 9

\* A request that reaches the displayed session while no prompt is open is
\* never swallowed: one of KTD8's gets a prompt, any other known one fails the
\* attempt at once and ends the session, with a reason in the log, and an
\* unknown one is noted and changes nothing.
RequestNeverSwallowed ==
  [][ Received("AttentionRequired") /\ OfDisplayed /\ ~promptOpen =>
        IF wire'.codes \in KTD8
        THEN state' = "AuthPending" /\ todo' = <<OpenPrompt(active, {wire'.codes})>>
        ELSE IF KnownRequest(wire'.codes)
        THEN /\ state' = "Failed"
             /\ awaitingTeardown' = active
             /\ Noted
        ELSE Noted /\ UNCHANGED machineVars ]_vars

\* Only the event type 2 lets go of a session: taking another for it would
\* forget a running session, or end a teardown that has not ended.
OnlyDestroyedEnds ==
  [][ Received("SessionManagerEvent") /\ wire'.codes # <<2>> =>
        UNCHANGED machineVars ]_vars
=============================================================================
