-------------------------- MODULE SignalCodesProofs --------------------------
(***************************************************************************)
(* What a signal does to the display, from its numbers on the bus, for any *)
(* number of sessions and any codes that fit the widths they are narrowed  *)
(* to.  The two tables of the plan are compared with the code's once, code *)
(* by code; what remains is that the handlers do what the tables say.      *)
(***************************************************************************)
EXTENDS SignalCodes, TLAPS

\* The codes of openvpn3 fit the widths the worker narrows them to.  Nothing
\* in the worker checks it.
NarrowOnWire ==
  /\ \A n \in MajorsOnWire \cup TypesOnWire \cup GroupsOnWire : n < 256
  /\ \A n \in MinorsOnWire : n < 65536

-----------------------------------------------------------------------------
(* The tables *)

\* The names of the major codes.
LEMMA Majors ==
  /\ DOMAIN StatusMajor = 1..6
  /\ StatusMajor[0+1] = "Unset" /\ StatusMajor[1+1] = "Config"
  /\ StatusMajor[2+1] = "Connection" /\ StatusMajor[3+1] = "Session"
  /\ StatusMajor[4+1] = "Pkcs11" /\ StatusMajor[5+1] = "Process"
BY DEF StatusMajor

\* The names of the minor codes.
LEMMA Minors ==
  /\ DOMAIN StatusMinor = 1..30
  /\ StatusMinor[0+1] = "Unset" /\ StatusMinor[1+1] = "CfgError"
  /\ StatusMinor[2+1] = "CfgOk" /\ StatusMinor[3+1] = "CfgInlineMissing"
  /\ StatusMinor[4+1] = "CfgRequireUser" /\ StatusMinor[5+1] = "ConnInit"
  /\ StatusMinor[6+1] = "ConnConnecting" /\ StatusMinor[7+1] = "ConnConnected"
  /\ StatusMinor[8+1] = "ConnDisconnecting"
  /\ StatusMinor[9+1] = "ConnDisconnected" /\ StatusMinor[10+1] = "ConnFailed"
  /\ StatusMinor[11+1] = "ConnAuthFailed"
  /\ StatusMinor[12+1] = "ConnReconnecting"
  /\ StatusMinor[13+1] = "ConnPausing" /\ StatusMinor[14+1] = "ConnPaused"
  /\ StatusMinor[15+1] = "ConnResuming" /\ StatusMinor[16+1] = "ConnDone"
  /\ StatusMinor[17+1] = "SessNew"
  /\ StatusMinor[18+1] = "SessBackendCompleted"
  /\ StatusMinor[19+1] = "SessRemoved"
  /\ StatusMinor[20+1] = "SessAuthUserpass"
  /\ StatusMinor[21+1] = "SessAuthChallenge" /\ StatusMinor[22+1] = "SessAuthUrl"
  /\ StatusMinor[23+1] = "Pkcs11Sign" /\ StatusMinor[24+1] = "Pkcs11Encrypt"
  /\ StatusMinor[25+1] = "Pkcs11Decrypt" /\ StatusMinor[26+1] = "Pkcs11Verify"
  /\ StatusMinor[27+1] = "ProcStarted" /\ StatusMinor[28+1] = "ProcStopped"
  /\ StatusMinor[29+1] = "ProcKilled"
BY DEF StatusMinor

\* map_status is KTD3.
LEMMA TableIsKTD3 ==
  ASSUME NEW major \in 0..5, NEW minor \in 0..29
  PROVE  LET x == MapStatus(StatusMajor[major + 1], StatusMinor[minor + 1]) IN
           /\ x \in StatusClass
           /\ \A y \in ConnectionState : <<major, minor>> \in KTD3[y] <=> x = y
<1> DEFINE x == MapStatus(StatusMajor[major + 1], StatusMinor[minor + 1])
<1>1. major = 0 \/ major = 1 \/ major = 2 \/ major = 3 \/ major = 4 \/ major = 5
  OBVIOUS
<1>2. CASE major = 0
  BY <1>2, Majors, Minors
     DEF MapStatus, KTD3, StatusClass, ConnectionState, NoChange
<1>3. CASE major = 1
  BY <1>3, Majors, Minors
     DEF MapStatus, KTD3, StatusClass, ConnectionState, NoChange
<1>4. CASE major = 2
  BY <1>4, Majors, Minors
     DEF MapStatus, KTD3, StatusClass, ConnectionState, NoChange
<1>5. CASE major = 3
  BY <1>5, Majors, Minors
     DEF MapStatus, KTD3, StatusClass, ConnectionState, NoChange
<1>6. CASE major = 4
  BY <1>6, Majors, Minors
     DEF MapStatus, KTD3, StatusClass, ConnectionState, NoChange
<1>7. CASE major = 5
  BY <1>7, Majors, Minors
     DEF MapStatus, KTD3, StatusClass, ConnectionState, NoChange
<1> QED BY <1>1, <1>2, <1>3, <1>4, <1>5, <1>6, <1>7
\* A narrowed code is a natural number; one that fits is not changed.
LEMMA Narrowed ==
  ASSUME NEW n \in Nat
  PROVE  /\ U8(n) \in Nat /\ U16(n) \in Nat
         /\ n < 256 => U8(n) = n
         /\ n < 65536 => U16(n) = n
<1>1. n % 256 \in Nat /\ (n < 256 => n % 256 = n)
  OBVIOUS
<1>2. n % 65536 \in Nat /\ (n < 65536 => n % 65536 = n)
  OBVIOUS
<1> QED BY <1>1, <1>2 DEF U8, U16

\* A status that decodes has a class.
LEMMA TransitionIsClass ==
  ASSUME NEW major \in Nat, NEW minor \in Nat, Decodes(major, minor)
  PROVE  Transition(major, minor) \in StatusClass
<1>1. U8(major) \in 0..5 /\ U16(minor) \in 0..29
  BY Narrowed, Majors, Minors DEF Decodes
<1> QED BY <1>1, TableIsKTD3 DEF Transition

\* The codes of a status that fits decode exactly when they are known.
LEMMA KnownDecodes ==
  ASSUME NarrowOnWire, NEW major \in MajorsOnWire, NEW minor \in MinorsOnWire
  PROVE  /\ Decodes(major, minor) <=> Known(<<major, minor>>)
         /\ Decodes(major, minor) =>
              \A y \in ConnectionState :
                <<major, minor>> \in KTD3[y] <=> Transition(major, minor) = y
         /\ \A y \in ConnectionState :
              <<major, minor>> \in KTD3[y] => Known(<<major, minor>>)
<1>1. /\ major \in Nat /\ major < 256
      /\ minor \in Nat /\ minor < 65536
  BY CodesAssumption DEF NarrowOnWire
<1>2. U8(major) = major /\ U16(minor) = minor
  BY <1>1, Narrowed
<1>3. Decodes(major, minor) <=> major \in 0..5 /\ minor \in 0..29
  BY <1>1, <1>2, Majors, Minors DEF Decodes
<1>4. Known(<<major, minor>>) <=> major \in 0..5 /\ minor \in 0..29
  BY <1>1 DEF Known
<1>5. Decodes(major, minor) =>
        \A y \in ConnectionState :
          <<major, minor>> \in KTD3[y] <=> Transition(major, minor) = y
  BY <1>2, <1>3, TableIsKTD3 DEF Transition
<1>6. \A y \in ConnectionState :
        <<major, minor>> \in KTD3[y] => major \in 0..5 /\ minor \in 0..29
  BY <1>1 DEF KTD3, ConnectionState
<1> QED BY <1>3, <1>4, <1>5, <1>6

\* The names of the requests' codes.
LEMMA AttentionNames ==
  /\ DOMAIN ClientAttentionType = 1..4
  /\ DOMAIN ClientAttentionGroup = 1..10
  /\ ClientAttentionType[0+1] = "Unset"
  /\ ClientAttentionType[1+1] = "Credentials"
  /\ ClientAttentionType[2+1] = "Pkcs11"
  /\ ClientAttentionType[3+1] = "AccessPerm"
  /\ ClientAttentionGroup[0+1] = "Unset"
  /\ ClientAttentionGroup[1+1] = "UserPassword"
  /\ ClientAttentionGroup[2+1] = "HttpProxyCreds"
  /\ ClientAttentionGroup[3+1] = "PkPassphrase"
  /\ ClientAttentionGroup[4+1] = "ChallengeStatic"
  /\ ClientAttentionGroup[5+1] = "ChallengeDynamic"
  /\ ClientAttentionGroup[6+1] = "ChallengeAuthPending"
  /\ ClientAttentionGroup[7+1] = "Pkcs11Sign"
  /\ ClientAttentionGroup[8+1] = "Pkcs11Decrypt"
  /\ ClientAttentionGroup[9+1] = "OpenUrl"
BY DEF ClientAttentionType, ClientAttentionGroup

\* route_attention is KTD8.
LEMMA RoutingIsKTD8 ==
  ASSUME NEW type \in 0..3, NEW group \in 0..9
  PROVE  Kind(<<type, group>>) # Unsupported <=> <<type, group>> \in KTD8
BY AttentionNames DEF Kind, RouteAttention, Unsupported, KTD8

\* Which numbers have a variant.
LEMMA Variants ==
  /\ {n - 1 : n \in DOMAIN ClientAttentionType} = 0..3
  /\ {n - 1 : n \in DOMAIN ClientAttentionGroup} = 0..9
<1>1. {n - 1 : n \in 1..4} = 0..3
  <2>1. \A m \in 0..3 : m + 1 \in 1..4 /\ m = (m + 1) - 1
    OBVIOUS
  <2>2. \A n \in 1..4 : n - 1 \in 0..3
    OBVIOUS
  <2> QED BY <2>1, <2>2
<1>2. {n - 1 : n \in 1..10} = 0..9
  <2>1. \A m \in 0..9 : m + 1 \in 1..10 /\ m = (m + 1) - 1
    OBVIOUS
  <2>2. \A n \in 1..10 : n - 1 \in 0..9
    OBVIOUS
  <2> QED BY <2>1, <2>2
<1> QED BY <1>1, <1>2, AttentionNames

\* A request on the wire is a group or nothing.
LEMMA RequestIsGroup ==
  ASSUME NEW type \in TypesOnWire, NEW group \in GroupsOnWire
  PROVE  Request(type, group) \in SUBSET Group
<1>1. Request(type, group) \subseteq Recognised
  BY CodesAssumption
<1> QED BY <1>1, ObjectsAssumption

\* The codes of a request that fits decode exactly when they are known, and
\* get a prompt exactly when KTD8 says so.
LEMMA RequestIsKnown ==
  ASSUME NarrowOnWire, NEW type \in TypesOnWire, NEW group \in GroupsOnWire
  PROVE  /\ KnownRequest(<<type, group>>) => Request(type, group) = {<<type, group>>}
         /\ ~KnownRequest(<<type, group>>) => Request(type, group) = {}
         /\ KnownRequest(<<type, group>>) =>
              (<<type, group>> \in Supported <=> <<type, group>> \in KTD8)
         /\ <<type, group>> \in KTD8 => KnownRequest(<<type, group>>)
<1>1. /\ type \in Nat /\ type < 256
      /\ group \in Nat /\ group < 256
  BY CodesAssumption DEF NarrowOnWire
<1>2. U8(type) = type /\ U8(group) = group
  BY <1>1, Narrowed
<1>3. KnownRequest(<<type, group>>) <=> type \in 0..3 /\ group \in 0..9
  BY <1>1 DEF KnownRequest
<1>4. Request(type, group) = {<<type, group>>} \cap ((0..3) \X (0..9))
  BY <1>2, Variants DEF Request
<1>5. KnownRequest(<<type, group>>) => Request(type, group) = {<<type, group>>}
  BY <1>3, <1>4
<1>6. ~KnownRequest(<<type, group>>) => Request(type, group) = {}
  BY <1>3, <1>4
<1>7. KnownRequest(<<type, group>>) => <<type, group>> \in Recognised
  BY <1>5, CodesAssumption
<1>8. KnownRequest(<<type, group>>) =>
        (<<type, group>> \in Supported <=> <<type, group>> \in KTD8)
  BY <1>3, <1>7, RoutingIsKTD8, CodesAssumption
<1>9. <<type, group>> \in KTD8 => KnownRequest(<<type, group>>)
  BY <1>1 DEF KTD8, KnownRequest
<1> QED BY <1>5, <1>6, <1>8, <1>9

-----------------------------------------------------------------------------
(* The handlers *)

\* TableImplemented needs it: a session on display is not being torn down.
OneInHand == active = None \/ awaitingTeardown = None

Inv == TypeOK /\ OneInHand

\* Batches of commands are sequences of them.
LEMMA Batches ==
  /\ <<>> \in Seq(Command)
  /\ \A x \in Command : <<x>> \in Seq(Command)
  /\ \A x, y \in Command : <<x, y>> \in Seq(Command)
  /\ \A x, y, z \in Command : <<x, y, z>> \in Seq(Command)
  /\ \A cs \in Seq(Command) : Returns(cs, <<>>) => todo' = cs
  /\ ClosePrompt \in Command
  /\ \A c \in Config : NewTunnel(c) \in Command
  /\ \A s \in Session :
       /\ EnableLogForward(s) \in Command /\ Connect(s) \in Command
       /\ Disconnect(s) \in Command /\ CheckReady(s) \in Command
       /\ Note(s) \in Command
       /\ \A gs \in SUBSET Group :
            OpenPrompt(s, gs) \in Command /\ ProvideInput(s, gs) \in Command
<1>1. \A cs \in Seq(Command) : Returns(cs, <<>>) => todo' = cs
  BY DEF Returns
<1>2. /\ ClosePrompt \in Command
      /\ \A c \in Config : NewTunnel(c) \in Command
      /\ \A s \in Session :
           /\ EnableLogForward(s) \in Command /\ Connect(s) \in Command
           /\ Disconnect(s) \in Command /\ CheckReady(s) \in Command
           /\ Note(s) \in Command
           /\ \A gs \in SUBSET Group :
                OpenPrompt(s, gs) \in Command /\ ProvideInput(s, gs) \in Command
  BY DEF Command, EnableLogForward, Connect, Disconnect, CheckReady, Note,
         OpenPrompt, ProvideInput, ClosePrompt, NewTunnel
<1> QED BY <1>1, <1>2

\* What a handler leaves behind.
Sound == MachineTypeOK' /\ OneInHand' /\ todo' \in Seq(Command)

\* Nothing happens.
LEMMA IgnoredSound ==
  ASSUME Inv, Ignored(<<>>)
  PROVE  Sound
<1>1. todo' \in Seq(Command)
  BY Batches DEF Ignored
<1> QED BY <1>1
        DEF Inv, TypeOK, OneInHand, Sound, Ignored, machineVars, MachineTypeOK

\* finish_teardown.
LEMMA FinishTeardownSound ==
  ASSUME Inv, FinishTeardown(<<>>)
  PROVE  Sound
<1>1. todo' \in Seq(Command)
  BY Batches DEF Inv, TypeOK, MachineTypeOK, FinishTeardown
<1> QED BY <1>1
        DEF Inv, TypeOK, OneInHand, Sound, FinishTeardown, MachineTypeOK,
            StateOnceGone, ConnectionState

\* A status.
LEMMA StatusChangedSound ==
  ASSUME Inv, NEW s \in Session, NEW x \in StatusClass,
         StatusChanged(s, x, <<>>)
  PROVE  Sound
<1>1. CASE s = active /\ ApplyStatus(s, x, <<>>)
           /\ UNCHANGED <<active, pendingTarget, awaitingTeardown>>
  <2>1. todo' \in Seq(Command)
    BY <1>1, Batches DEF ApplyStatus
  <2>2. state' \in ConnectionState /\ promptOpen' \in BOOLEAN
    BY <1>1 DEF ApplyStatus, Inv, TypeOK, MachineTypeOK
  <2> QED BY <1>1, <2>1, <2>2
          DEF Inv, TypeOK, OneInHand, Sound, MachineTypeOK
<1> QED BY <1>1, IgnoredSound, FinishTeardownSound DEF StatusChanged

\* A request.
LEMMA CredentialsRequiredSound ==
  ASSUME Inv, NEW s \in Session, NEW gs \in SUBSET Group,
         CredentialsRequired(s, gs, <<>>)
  PROVE  Sound
<1>1. CASE Ignored(<<>>)
  BY <1>1, IgnoredSound
<1>2. CASE active = s /\ ~Ignored(<<>>)
  <2>1. todo' \in Seq(Command)
    BY <1>2, Batches DEF CredentialsRequired
  <2> QED BY <1>2, <2>1
          DEF Inv, TypeOK, OneInHand, Sound, CredentialsRequired,
              MachineTypeOK, ConnectionState
<1> QED BY <1>1, <1>2 DEF CredentialsRequired

\* A removal.
LEMMA SessionRemovedSound ==
  ASSUME Inv, NEW s \in Session, SessionRemoved(s, <<>>)
  PROVE  Sound
<1>1. CASE s = active /\ s # awaitingTeardown
  <2>1. todo' \in Seq(Command)
    BY <1>1, Batches DEF SessionRemoved
  <2> QED BY <1>1, <2>1
          DEF Inv, TypeOK, OneInHand, Sound, SessionRemoved, MachineTypeOK,
              StateOnceGone, ConnectionState
<1> QED BY <1>1, IgnoredSound, FinishTeardownSound DEF SessionRemoved

\* The creation of a session, and what becomes of its prompt.
LEMMA OtherSound ==
  ASSUME Inv, NEW s \in Session, Other(s)
  PROVE  Sound
<1>1. CASE {active, awaitingTeardown} = {None} /\ SessionCreated(s, <<>>)
  <2>1. todo' \in Seq(Command)
    BY <1>1, Batches DEF SessionCreated, StartUp
  <2> QED BY <1>1, <2>1
          DEF Inv, TypeOK, OneInHand, Sound, SessionCreated, MachineTypeOK,
              ConnectionState
<1>2. CASE PromptSubmitted(s, {}, <<>>)
  <2>1. todo' \in Seq(Command)
    BY <1>2, Batches, IgnoredSound DEF PromptSubmitted, Resume, Sound
  <2> QED BY <1>2, <2>1, IgnoredSound
          DEF Inv, TypeOK, OneInHand, Sound, PromptSubmitted, MachineTypeOK,
              ConnectionState
<1>3. CASE PromptCancelled(s, <<>>)
  <2>1. todo' \in Seq(Command)
    BY <1>3, Batches, IgnoredSound DEF PromptCancelled, Sound
  <2> QED BY <1>3, <2>1, IgnoredSound
          DEF Inv, TypeOK, OneInHand, Sound, PromptCancelled, MachineTypeOK,
              ConnectionState
<1> QED BY <1>1, <1>2, <1>3 DEF Other
-----------------------------------------------------------------------------
(* The theorems *)

\* Every step preserves the invariant.
LEMMA InvNext == Inv /\ [Next]_vars => Inv'
<1> SUFFICES ASSUME Inv, [Next]_vars PROVE Inv'
  OBVIOUS
<1> DEFINE WireOK == /\ wire'.signal \in {"None", "StatusChange",
                            "AttentionRequired", "SessionManagerEvent"}
                     /\ wire'.session \in Session \cup {None}
<1>1. ASSUME NEW s \in Session, NEW major \in MajorsOnWire,
             NEW minor \in MinorsOnWire, StatusChange(s, major, minor)
      PROVE  Sound /\ WireOK
  <2>1. major \in Nat /\ minor \in Nat
    BY CodesAssumption
  <2>2. WireOK
    BY <1>1 DEF StatusChange, OnBus
  <2> QED BY <1>1, <2>1, <2>2, TransitionIsClass, StatusChangedSound,
             IgnoredSound DEF StatusChange
<1>2. ASSUME NEW s \in Session, NEW type \in TypesOnWire,
             NEW group \in GroupsOnWire, AttentionRequired(s, type, group)
      PROVE  Sound /\ WireOK
  <2>1. WireOK
    BY <1>2 DEF AttentionRequired, OnBus
  <2>2. CASE CredentialsRequired(s, Request(type, group), <<>>)
    BY <2>1, <2>2, RequestIsGroup, CredentialsRequiredSound
  <2>3. CASE Returns(<<Note(s)>>, <<>>) /\ UNCHANGED machineVars
    <3>1. todo' \in Seq(Command)
      BY <2>3, Batches
    <3> QED BY <2>1, <2>3, <3>1
            DEF Sound, Inv, TypeOK, OneInHand, machineVars, MachineTypeOK
  <2> QED BY <1>2, <2>2, <2>3 DEF AttentionRequired
<1>3. ASSUME NEW s \in Session, NEW event \in EventsOnWire,
             SessionManagerEvent(s, event)
      PROVE  Sound /\ WireOK
  <2>1. WireOK
    BY <1>3 DEF SessionManagerEvent, OnBus
  <2> QED BY <1>3, <2>1, SessionRemovedSound, IgnoredSound
          DEF SessionManagerEvent
<1>4. ASSUME NEW s \in Session, Other(s)
      PROVE  Sound /\ WireOK
  <2>1. WireOK
    BY <1>4 DEF Other, Nothing
  <2> QED BY <1>4, <2>1, OtherSound
<1>5. CASE UNCHANGED vars
  BY <1>5 DEF vars, machineVars, Inv, TypeOK, OneInHand, MachineTypeOK
<1>6. Sound /\ WireOK => Inv'
  BY DEF Sound, Inv, TypeOK
<1> QED BY <1>1, <1>2, <1>3, <1>4, <1>5, <1>6 DEF Next

\* It holds at first.
LEMMA InvInit == Init => Inv
<1> SUFFICES ASSUME Init PROVE Inv
  OBVIOUS
<1>1. todo \in Seq(Command)
  BY Batches DEF Init
<1>2. wire.signal = "None" /\ wire.session = None
  BY DEF Init, Nothing
<1>3. MachineTypeOK /\ OneInHand
  BY DEF Init, MachineInit, MachineTypeOK, OneInHand, ConnectionState
<1> QED BY <1>1, <1>2, <1>3 DEF Inv, TypeOK

\* The inductive invariant: a session on display is not being torn down, which
\* is why a status or a request of it is never taken for one of a teardown.
THEOREM SignalInvariance == Spec => []Inv
<1> QED BY InvInit, InvNext, PTL DEF Spec

\* Type correctness: whatever numbers come, the Machine's variables and the
\* batch it returns hold values of their kinds.
THEOREM SignalTypes == Spec => []TypeOK
<1>1. Inv => TypeOK
  BY DEF Inv
<1> QED BY <1>1, SignalInvariance, PTL

\* A signal that is received is one of the three, and says what it is about.
LEMMA WhatIsReceived ==
  ASSUME [Next]_vars, NEW name, Received(name), name # "None"
  PROVE  \E s \in Session :
           /\ wire'.session = s
           /\ \/ /\ name = "StatusChange"
                 /\ \E major \in MajorsOnWire, minor \in MinorsOnWire :
                      /\ wire'.codes = <<major, minor>>
                      /\ StatusChange(s, major, minor)
              \/ /\ name = "AttentionRequired"
                 /\ \E type \in TypesOnWire, group \in GroupsOnWire :
                      /\ wire'.codes = <<type, group>>
                      /\ AttentionRequired(s, type, group)
              \/ /\ name = "SessionManagerEvent"
                 /\ \E event \in EventsOnWire :
                      /\ wire'.codes = <<event>>
                      /\ SessionManagerEvent(s, event)
<1>1. Next
  BY DEF Received, vars
<1>2. PICK s \in Session :
        \/ \E major \in MajorsOnWire, minor \in MinorsOnWire :
             StatusChange(s, major, minor)
        \/ \E type \in TypesOnWire, group \in GroupsOnWire :
             AttentionRequired(s, type, group)
        \/ \E event \in EventsOnWire : SessionManagerEvent(s, event)
        \/ Other(s)
  BY <1>1 DEF Next
<1> WITNESS s \in Session
<1>3. \A major \in MajorsOnWire, minor \in MinorsOnWire :
        StatusChange(s, major, minor) =>
          /\ wire'.signal = "StatusChange" /\ wire'.session = s
          /\ wire'.codes = <<major, minor>>
  BY DEF StatusChange, OnBus
<1>4. \A type \in TypesOnWire, group \in GroupsOnWire :
        AttentionRequired(s, type, group) =>
          /\ wire'.signal = "AttentionRequired" /\ wire'.session = s
          /\ wire'.codes = <<type, group>>
  BY DEF AttentionRequired, OnBus
<1>5. \A event \in EventsOnWire :
        SessionManagerEvent(s, event) =>
          /\ wire'.signal = "SessionManagerEvent" /\ wire'.session = s
          /\ wire'.codes = <<event>>
  BY DEF SessionManagerEvent, OnBus
<1>6. ~Other(s)
  BY DEF Other, Nothing, Received
<1> QED BY <1>2, <1>3, <1>4, <1>5, <1>6 DEF Received

\* A batch of one or two commands has a Note in it if it begins with one.
LEMMA NotedFirst ==
  ASSUME NEW s \in Session,
         Returns(<<Note(s)>>, <<>>) \/ Returns(<<Note(s), Disconnect(s)>>, <<>>)
  PROVE  Noted
<1>1. todo' = <<Note(s)>> \/ todo' = <<Note(s), Disconnect(s)>>
  BY Batches
<1>2. 1 \in 1..Len(todo') /\ todo'[1] = Note(s)
  BY <1>1
<1> QED BY <1>2 DEF Noted, Note

\* Every status of the displayed session moves the icon exactly where the
\* plan's table KTD3 says, and a known status outside the table leaves the
\* icon alone and is recorded in the log.
THEOREM TableIsImplemented == NarrowOnWire /\ Spec => TableImplemented
<1> SUFFICES ASSUME NarrowOnWire PROVE Spec => TableImplemented
  OBVIOUS
<1> DEFINE Step ==
      Received("StatusChange") /\ OfDisplayed =>
        /\ \A x \in ConnectionState : wire'.codes \in KTD3[x] => state' = x
        /\ (\A x \in ConnectionState : wire'.codes \notin KTD3[x]) =>
             /\ state' = state
             /\ Known(wire'.codes) => Noted
<1>1. ASSUME Inv, [Next]_vars
      PROVE  Step
  <2> SUFFICES ASSUME Received("StatusChange"), OfDisplayed
               PROVE  /\ \A x \in ConnectionState :
                           wire'.codes \in KTD3[x] => state' = x
                      /\ (\A x \in ConnectionState : wire'.codes \notin KTD3[x]) =>
                           /\ state' = state
                           /\ Known(wire'.codes) => Noted
    OBVIOUS
  <2>1. PICK s \in Session, major \in MajorsOnWire, minor \in MinorsOnWire :
          /\ wire'.session = s /\ wire'.codes = <<major, minor>>
          /\ StatusChange(s, major, minor)
    BY <1>1, WhatIsReceived
  <2>2. s = active /\ s # awaitingTeardown
    BY <1>1, <2>1, ObjectsAssumption DEF OfDisplayed, Inv, OneInHand
  <2>3. CASE ~Decodes(major, minor)
    <3>1. state' = state /\ ~Known(wire'.codes)
      BY <1>1, <2>1, <2>3, KnownDecodes DEF StatusChange, Ignored, machineVars
    <3>2. \A x \in ConnectionState : wire'.codes \notin KTD3[x]
      BY <1>1, <2>1, <2>3, KnownDecodes
    <3> QED BY <3>1, <3>2
  <2>4. CASE Decodes(major, minor)
    <3> DEFINE y == Transition(major, minor)
    <3>1. ApplyStatus(s, y, <<>>)
      BY <2>1, <2>2, <2>4 DEF StatusChange, StatusChanged
    <3>2. \A x \in ConnectionState : wire'.codes \in KTD3[x] <=> y = x
      BY <1>1, <2>1, <2>4, KnownDecodes
    <3>3. NoChange \notin ConnectionState
      BY DEF NoChange, ConnectionState
    <3> HIDE DEF y
    <3>4. CASE y \in ConnectionState
      BY <3>1, <3>2, <3>3, <3>4 DEF ApplyStatus
    <3>5. CASE y \notin ConnectionState
      <4>1. state' = state /\ Returns(<<Note(s)>>, <<>>)
        BY <3>1, <3>5 DEF ApplyStatus
      <4> QED BY <3>2, <3>5, <4>1, NotedFirst
    <3> QED BY <3>4, <3>5
  <2> QED BY <2>3, <2>4
<1> HIDE DEF Step
<1>2. Inv /\ [Next]_vars => [Step]_vars
  BY <1>1
<1>3. [Step]_vars
      => [ Received("StatusChange") /\ OfDisplayed =>
             /\ \A x \in ConnectionState : wire'.codes \in KTD3[x] => state' = x
             /\ (\A x \in ConnectionState : wire'.codes \notin KTD3[x]) =>
                  /\ state' = state
                  /\ Known(wire'.codes) => Noted ]_vars
  BY DEF Step
<1> QED BY <1>2, <1>3, SignalInvariance, PTL DEF Spec, TableImplemented

\* A request that reaches the displayed session while no prompt is open gets
\* a prompt if the plan's table KTD8 has it, and otherwise a reason in the
\* log; a known one without a prompt ends the session.
THEOREM RequestIsNeverSwallowed == NarrowOnWire /\ Spec => RequestNeverSwallowed
<1> SUFFICES ASSUME NarrowOnWire PROVE Spec => RequestNeverSwallowed
  OBVIOUS
<1> DEFINE Step ==
      Received("AttentionRequired") /\ OfDisplayed /\ ~promptOpen =>
        IF wire'.codes \in KTD8
        THEN state' = "AuthPending" /\ todo' = <<OpenPrompt(active, {wire'.codes})>>
        ELSE IF KnownRequest(wire'.codes)
        THEN /\ state' = "Failed"
             /\ awaitingTeardown' = active
             /\ Noted
        ELSE Noted /\ UNCHANGED machineVars
<1>1. ASSUME Inv, [Next]_vars
      PROVE  Step
  <2> SUFFICES ASSUME Received("AttentionRequired"), OfDisplayed, ~promptOpen
               PROVE  IF wire'.codes \in KTD8
                      THEN /\ state' = "AuthPending"
                           /\ todo' = <<OpenPrompt(active, {wire'.codes})>>
                      ELSE IF KnownRequest(wire'.codes)
                      THEN /\ state' = "Failed"
                           /\ awaitingTeardown' = active
                           /\ Noted
                      ELSE Noted /\ UNCHANGED machineVars
    OBVIOUS
  <2>1. PICK s \in Session, type \in TypesOnWire, group \in GroupsOnWire :
          /\ wire'.session = s /\ wire'.codes = <<type, group>>
          /\ AttentionRequired(s, type, group)
    BY <1>1, WhatIsReceived
  <2>2. s = active
    BY <2>1 DEF OfDisplayed
  <2> DEFINE r == <<type, group>>
  <2>3. /\ KnownRequest(r) => Request(type, group) = {r}
        /\ ~KnownRequest(r) => Request(type, group) = {}
        /\ KnownRequest(r) => (r \in Supported <=> r \in KTD8)
        /\ r \in KTD8 => KnownRequest(r)
    BY RequestIsKnown
  <2>4. wire'.codes = r
    BY <2>1
  <2> HIDE DEF r
  <2>5. CASE ~KnownRequest(r)
    <3>1. Returns(<<Note(s)>>, <<>>) /\ UNCHANGED machineVars
      BY <2>1, <2>3, <2>5 DEF AttentionRequired
    <3>2. Noted
      BY <3>1, NotedFirst
    <3> QED BY <2>3, <2>4, <2>5, <3>1, <3>2
  <2>6. CASE KnownRequest(r)
    <3>1. CredentialsRequired(s, {r}, <<>>)
      BY <2>1, <2>3, <2>6 DEF AttentionRequired
    <3>2. CASE r \in KTD8
      <4>1. state' = "AuthPending" /\ Returns(<<OpenPrompt(s, {r})>>, <<>>)
        BY <2>2, <2>3, <2>6, <3>1, <3>2 DEF CredentialsRequired
      <4>2. {r} \in SUBSET Group
        BY <2>3, <2>6, RequestIsGroup
      <4>3. OpenPrompt(s, {r}) \in Command
        BY <4>2, Batches
      <4>4. todo' = <<OpenPrompt(s, {r})>>
        BY <4>1, <4>3, Batches
      <4> QED BY <2>2, <2>4, <3>2, <4>1, <4>4
    <3>3. CASE r \notin KTD8
      <4>1. ~({r} \subseteq Supported)
        BY <2>3, <2>6, <3>3
      <4>2. /\ state' = "Failed" /\ awaitingTeardown' = s
            /\ Returns(<<Note(s), Disconnect(s)>>, <<>>)
        BY <2>2, <3>1, <4>1 DEF CredentialsRequired
      <4>3. Noted
        BY <4>2, NotedFirst
      <4> QED BY <2>2, <2>4, <2>6, <3>3, <4>2, <4>3
    <3> QED BY <3>2, <3>3
  <2> QED BY <2>5, <2>6
<1> HIDE DEF Step
<1>2. Inv /\ [Next]_vars => [Step]_vars
  BY <1>1
<1>3. [Step]_vars
      => [ Received("AttentionRequired") /\ OfDisplayed /\ ~promptOpen =>
             IF wire'.codes \in KTD8
             THEN state' = "AuthPending" /\ todo' = <<OpenPrompt(active, {wire'.codes})>>
             ELSE IF KnownRequest(wire'.codes)
             THEN /\ state' = "Failed"
                  /\ awaitingTeardown' = active
                  /\ Noted
             ELSE Noted /\ UNCHANGED machineVars ]_vars
  BY DEF Step
<1> QED BY <1>2, <1>3, SignalInvariance, PTL DEF Spec, RequestNeverSwallowed

\* An event that is not "destroyed" does nothing.
LEMMA OthersDoNothing ==
  ASSUME [Next]_vars, Received("SessionManagerEvent")
  PROVE  wire'.codes # <<2>> => UNCHANGED machineVars
<1>1. PICK s \in Session, event \in EventsOnWire :
        wire'.codes = <<event>> /\ SessionManagerEvent(s, event)
  BY WhatIsReceived
<1>2. wire'.codes = <<2>> \/ ~IsDestroyed(event)
  BY <1>1 DEF IsDestroyed
<1> QED BY <1>1, <1>2 DEF SessionManagerEvent, Ignored

\* No event type but "destroyed" lets go of a session or ends a teardown,
\* whatever numbers come: an event type is not narrowed.
THEOREM OnlyDestroyedLetsGo == Spec => OnlyDestroyedEnds
<1>1. [Next]_vars
      => [ Received("SessionManagerEvent") /\ wire'.codes # <<2>> =>
             UNCHANGED machineVars ]_vars
  BY OthersDoNothing
<1> QED BY <1>1, PTL DEF Spec, OnlyDestroyedEnds
=============================================================================
