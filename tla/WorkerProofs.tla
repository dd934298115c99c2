---------------------------- MODULE WorkerProofs ----------------------------
(***************************************************************************)
(* What holds of the worker for any number of sessions, profiles and       *)
(* requests, whatever calls fail and whatever signals are lost.            *)
(*                                                                         *)
(* IInv is the inductive invariant, and Keeps says what no step may do     *)
(* from a state in which it holds: let go of a session that goes on        *)
(* running.  Keeps needs EndsAreReal, since a removal or a final status    *)
(* may be read long after it was signalled.  NoOrphan follows from both.   *)
(* It is kept out of IInv because IInv and Keeps also hold of a worker     *)
(* that starts beside sessions of a process that died (RestartProofs),     *)
(* where NoOrphan does not.  Each handler of the Machine has a lemma that  *)
(* says which sessions it lets go of; each action of the worker has one    *)
(* that says it preserves IInv and keeps what it holds.                    *)
(***************************************************************************)
EXTENDS Worker, TLAPS

-----------------------------------------------------------------------------
(* The worker's steps and batches of them *)

\* An ended session never runs again.
Over(s) == real[s] \in {"Disconnected", "Gone"}

\* A final status that has been read and not yet handled is true, and it is
\* handled next.
ReadsAreReal ==
  \A i \in 1..Len(todo) :
    todo[i].op = "StatusRead" =>
      i = 1 /\ (todo[i].status = "Disconnected" => Over(todo[i].session))

\* The steps that neither start a tunnel nor hold a status.
QuietStep == {x \in Step : x.op \notin StartOps \cup {"StatusRead"}}

\* Every command but NewTunnel is one of them.
LEMMA QuietCommands ==
  /\ ClosePrompt \in QuietStep
  /\ \A s \in Session :
       /\ EnableLogForward(s) \in QuietStep
       /\ Connect(s) \in QuietStep
       /\ Disconnect(s) \in QuietStep
       /\ CheckReady(s) \in QuietStep
       /\ Note(s) \in QuietStep
       /\ \A gs \in SUBSET Group :
            /\ OpenPrompt(s, gs) \in QuietStep
            /\ ProvideInput(s, gs) \in QuietStep
BY DEF QuietStep, Step, Command, StartOps, EnableLogForward, Connect,
       Disconnect, OpenPrompt, ClosePrompt, ProvideInput, CheckReady, Note

\* NewTunnel is a step of the worker.
LEMMA NewTunnelIsStep ==
  \A c \in Config : NewTunnel(c) \in Step /\ NewTunnel(c).op # "StatusRead"
BY DEF Step, Command, NewTunnel

\* The batches the handlers return are short.
LEMMA ShortBatches ==
  /\ <<>> \in Seq(QuietStep)
  /\ \A x \in QuietStep : <<x>> \in Seq(QuietStep)
  /\ \A x, y \in QuietStep : <<x, y>> \in Seq(QuietStep)
  /\ \A x, y, z \in QuietStep : <<x, y, z>> \in Seq(QuietStep)
OBVIOUS

\* Every batch a handler returns, but the one that starts a tunnel, is made
\* of quiet steps.
LEMMA QuietBatches ==
  /\ <<>> \in Seq(QuietStep)
  /\ <<ClosePrompt>> \in Seq(QuietStep)
  /\ \A s \in Session :
       /\ <<Note(s)>> \in Seq(QuietStep)
       /\ <<Disconnect(s)>> \in Seq(QuietStep)
       /\ <<Connect(s)>> \in Seq(QuietStep)
       /\ <<Note(s), Disconnect(s)>> \in Seq(QuietStep)
       /\ <<ClosePrompt, Disconnect(s)>> \in Seq(QuietStep)
       /\ StartUp(s) \in Seq(QuietStep)
       /\ \A gs \in SUBSET Group :
            /\ <<OpenPrompt(s, gs)>> \in Seq(QuietStep)
            /\ Resume(s, gs) \in Seq(QuietStep)
BY QuietCommands, ShortBatches DEF StartUp, Resume

\* A handler that returns quiet steps leaves nothing that starts a tunnel.
LEMMA QuietBatch ==
  ASSUME NEW cs \in Seq(QuietStep), NEW rest \in Seq(QuietStep),
         Returns(cs, rest)
  PROVE  todo' \in Seq(Step) /\ StartsAlone' /\ ReadsAreReal'
<1>1. todo' \in Seq(QuietStep)
  BY DEF Returns
<1>2. QuietStep \subseteq Step
  BY DEF QuietStep
<1>3. todo' \in Seq(Step)
  BY <1>1, <1>2
<1>4. \A i \in 1..Len(todo') :
        todo'[i].op \notin StartOps /\ todo'[i].op # "StatusRead"
  BY <1>1 DEF QuietStep
<1> QED BY <1>3, <1>4 DEF StartsAlone, ReadsAreReal

\* A handler that returns NewTunnel with no session in hand leaves it alone
\* and first.
LEMMA TunnelBatch ==
  ASSUME NEW x \in Step, NEW rest \in Seq(QuietStep),
         Returns(<<x>>, rest), x.op # "StatusRead",
         active' = None, awaitingTeardown' = None
  PROVE  todo' \in Seq(Step) /\ StartsAlone' /\ ReadsAreReal'
<1>1. todo'[1] = x /\ \A i \in 1..Len(todo') : i # 1 => todo'[i] \in QuietStep
  BY DEF Returns
<1>2. QuietStep \subseteq Step
  BY DEF QuietStep
<1>3. todo' \in Seq(Step)
  BY <1>2 DEF Returns
<1> QED BY <1>1, <1>3 DEF StartsAlone, ReadsAreReal, QuietStep

\* What follows the next step starts no tunnel and holds no status.
LEMMA RestIsQuiet ==
  ASSUME todo \in Seq(Step), todo # <<>>, StartsAlone, ReadsAreReal
  PROVE  Rest \in Seq(QuietStep)
<1>1. \A i \in 1..Len(Rest) : Rest[i] = todo[i + 1] /\ i + 1 \in 1..Len(todo)
  BY DEF Rest
<1>2. \A i \in 1..Len(Rest) : Rest[i] \in QuietStep
  BY <1>1 DEF StartsAlone, ReadsAreReal, QuietStep
<1>3. Rest \in Seq(Step)
  BY DEF Rest
<1> QED BY <1>2, <1>3

-----------------------------------------------------------------------------
(* The Machine's handlers *)

\* What a handler may rely on, and what it leaves behind.
Before == MachineTypeOK /\ Exclusive
After  == /\ MachineTypeOK' /\ Exclusive'
          /\ todo' \in Seq(Step) /\ StartsAlone' /\ ReadsAreReal'

\* The sessions the Machine has in hand.
Hands == {active, awaitingTeardown} \ {None}

\* More quiet work keeps the Machine sound.
LEMMA MoreToDo ==
  ASSUME Before, NEW cs \in Seq(QuietStep), NEW rest \in Seq(QuietStep),
         Returns(cs, rest), UNCHANGED machineVars
  PROVE  After /\ Hands \subseteq Hands'
BY QuietBatch
   DEF Before, After, machineVars, MachineTypeOK, Exclusive, Hands

\* So does an event that is ignored.
LEMMA IgnoredLemma ==
  ASSUME Before, NEW rest \in Seq(QuietStep), Ignored(rest)
  PROVE  After /\ Hands \subseteq Hands'
BY QuietBatches, MoreToDo DEF Ignored

\* on_profile_selected lets go of no session: the one on display is torn down.
LEMMA ProfileSelectedLemma ==
  ASSUME Before, NEW c \in Config, NEW rest \in Seq(QuietStep),
         ProfileSelected(c, rest)
  PROVE  After /\ Hands \subseteq Hands'
<1> USE ObjectsAssumption
    DEF Before, After, MachineTypeOK, Exclusive, Hands, ProfileSelected,
        ConnectionState
<1>1. CASE awaitingTeardown # None
  BY <1>1, QuietBatches, QuietBatch
<1>2. CASE awaitingTeardown = None /\ active # None
  <2>1. active \in Session
    BY <1>2
  <2> QED BY <1>2, <2>1, QuietBatches, QuietBatch
<1>3. CASE awaitingTeardown = None /\ active = None
  BY <1>3, NewTunnelIsStep, TunnelBatch
<1> QED BY <1>1, <1>2, <1>3

\* finish_teardown lets go of the session torn down and of no other.
LEMMA FinishTeardownLemma ==
  ASSUME Before, NEW rest \in Seq(QuietStep), awaitingTeardown # None,
         FinishTeardown(rest)
  PROVE  After /\ Hands \subseteq Hands' \cup {awaitingTeardown}
<1> USE ObjectsAssumption
    DEF Before, After, MachineTypeOK, Exclusive, Hands, FinishTeardown,
        ConnectionState, StateOnceGone
<1>1. CASE pendingTarget # None
  BY <1>1, NewTunnelIsStep, TunnelBatch
<1>2. CASE pendingTarget = None
  BY <1>2, QuietBatches, QuietBatch
<1> QED BY <1>1, <1>2

\* on_disconnect_requested lets go of no session.
LEMMA DisconnectRequestedLemma ==
  ASSUME Before, NEW rest \in Seq(QuietStep), DisconnectRequested(rest)
  PROVE  After /\ Hands \subseteq Hands'
<1> USE ObjectsAssumption
    DEF Before, After, MachineTypeOK, Exclusive, Hands, DisconnectRequested
<1>1. CASE active # None
  <2>1. active \in Session
    BY <1>1
  <2> QED BY <1>1, <2>1, QuietBatches, QuietBatch
<1>2. CASE active = None
  BY <1>2, QuietBatches, QuietBatch
<1> QED BY <1>1, <1>2

\* on_session_created takes the new session in hand; it comes when no other is.
LEMMA SessionCreatedLemma ==
  ASSUME Before, NEW s \in Session, NEW rest \in Seq(QuietStep),
         active = None, awaitingTeardown = None, SessionCreated(s, rest)
  PROVE  After /\ Hands \subseteq Hands' /\ s \in Hands'
BY ObjectsAssumption, QuietBatches, QuietBatch
   DEF Before, After, MachineTypeOK, Exclusive, Hands, SessionCreated,
       ConnectionState

\* on_session_ready lets go of no session.
LEMMA SessionReadyLemma ==
  ASSUME Before, NEW s \in Session, NEW rest \in Seq(QuietStep),
         SessionReady(s, rest)
  PROVE  After /\ Hands \subseteq Hands'
<1>1. CASE active # s
  BY <1>1, IgnoredLemma DEF SessionReady
<1>2. CASE active = s
  BY <1>2, QuietBatches, QuietBatch, IgnoredLemma
     DEF Before, After, MachineTypeOK, Exclusive, Hands, SessionReady,
         ConnectionState
<1> QED BY <1>1, <1>2

\* apply_status displays one of the five states and starts nothing.
LEMMA ApplyStatusLemma ==
  ASSUME MachineTypeOK, NEW s \in Session, NEW x \in StatusClass,
         NEW rest \in Seq(QuietStep), ApplyStatus(s, x, rest)
  PROVE  /\ state' \in ConnectionState /\ promptOpen' \in BOOLEAN
         /\ todo' \in Seq(Step) /\ StartsAlone' /\ ReadsAreReal'
<1>1. CASE x \in ConnectionState
  <2>1. x # NoChange
    BY <1>1 DEF ConnectionState, NoChange
  <2>2. promptOpen' = (promptOpen /\ ~ClosesPrompt(x)) /\ state' = x
    BY <2>1 DEF ApplyStatus
  <2>3. promptOpen' \in BOOLEAN
    BY <2>2
  <2>4. \E cs \in Seq(QuietStep) : Returns(cs, rest)
    BY <2>1, QuietBatches DEF ApplyStatus
  <2> QED BY <1>1, <2>2, <2>3, <2>4, QuietBatch
<1>2. CASE x = NoChange
  <2>1. x \notin ConnectionState
    BY <1>2 DEF ConnectionState, NoChange
  <2>2. Returns(<<Note(s)>>, rest) /\ UNCHANGED <<state, promptOpen>>
    BY <2>1 DEF ApplyStatus
  <2> QED BY <2>2, QuietBatches, QuietBatch DEF MachineTypeOK
<1> QED BY <1>1, <1>2 DEF StatusClass

\* on_external_session adopts only when no session is in hand.
LEMMA ExternalSessionSeenLemma ==
  ASSUME Before, NEW s \in Session, NEW x \in StatusClass,
         NEW rest \in Seq(QuietStep), ExternalSessionSeen(s, x, rest)
  PROVE  After /\ Hands \subseteq Hands'
<1>1. CASE awaitingTeardown # None \/ active # None
  BY <1>1, IgnoredLemma DEF ExternalSessionSeen
<1>2. CASE awaitingTeardown = None /\ active = None
  BY <1>2, ApplyStatusLemma, ObjectsAssumption
     DEF Before, After, MachineTypeOK, Exclusive, Hands, ExternalSessionSeen
<1> QED BY <1>1, <1>2

\* Only a status that ends the connection takes a session out of hand, and
\* only that session.
LEMMA StatusChangedLemma ==
  ASSUME Before, NEW s \in Session, NEW x \in StatusClass,
         NEW rest \in Seq(QuietStep), StatusChanged(s, x, rest)
  PROVE  /\ After
         /\ Hands \subseteq Hands' \cup (IF x = "Disconnected" THEN {s} ELSE {})
<1>1. CASE s \notin {active, awaitingTeardown}
  BY <1>1, IgnoredLemma DEF StatusChanged
<1>2. CASE s = awaitingTeardown /\ x = "Disconnected"
  BY <1>2, FinishTeardownLemma, ObjectsAssumption DEF StatusChanged
<1>3. CASE s = awaitingTeardown /\ x # "Disconnected"
  BY <1>3, IgnoredLemma DEF StatusChanged
<1>4. CASE s = active /\ s # awaitingTeardown
  <2>1. ApplyStatus(s, x, rest)
        /\ UNCHANGED <<active, pendingTarget, awaitingTeardown>>
    BY <1>4 DEF StatusChanged
  <2> QED BY <2>1, ApplyStatusLemma
          DEF Before, After, MachineTypeOK, Exclusive, Hands
<1> QED BY <1>1, <1>2, <1>3, <1>4

\* on_session_removed lets go of the removed session only.
LEMMA SessionRemovedLemma ==
  ASSUME Before, NEW s \in Session, NEW rest \in Seq(QuietStep),
         SessionRemoved(s, rest)
  PROVE  After /\ Hands \subseteq Hands' \cup {s}
<1>1. CASE s = awaitingTeardown
  BY <1>1, FinishTeardownLemma, ObjectsAssumption DEF SessionRemoved
<1>2. CASE s = active /\ s # awaitingTeardown
  BY <1>2, QuietBatches, QuietBatch, ObjectsAssumption
     DEF Before, After, MachineTypeOK, Exclusive, Hands, SessionRemoved,
         ConnectionState, StateOnceGone
<1>3. CASE s \notin {active, awaitingTeardown}
  BY <1>3, IgnoredLemma DEF SessionRemoved
<1> QED BY <1>1, <1>2, <1>3

\* on_credentials_required lets go of no session: one it cannot answer is torn
\* down.
LEMMA CredentialsRequiredLemma ==
  ASSUME Before, NEW s \in Session, NEW requests \in SUBSET Group,
         NEW rest \in Seq(QuietStep), CredentialsRequired(s, requests, rest)
  PROVE  After /\ Hands \subseteq Hands'
<1>1. CASE active # s \/ promptOpen \/ requests = {}
  BY <1>1, IgnoredLemma DEF CredentialsRequired
<1>2. CASE /\ active = s /\ ~promptOpen /\ requests # {}
           /\ ~ (requests \subseteq Supported)
  BY <1>2, QuietBatches, QuietBatch, ObjectsAssumption
     DEF Before, After, MachineTypeOK, Exclusive, Hands, CredentialsRequired,
         ConnectionState
<1>3. CASE /\ active = s /\ ~promptOpen /\ requests # {}
           /\ requests \subseteq Supported
  BY <1>3, QuietBatches, QuietBatch, ObjectsAssumption
     DEF Before, After, MachineTypeOK, Exclusive, Hands, CredentialsRequired,
         ConnectionState
<1> QED BY <1>1, <1>2, <1>3

\* on_prompt_submitted lets go of no session.
LEMMA PromptSubmittedLemma ==
  ASSUME Before, NEW s \in Session, NEW answers \in SUBSET Group,
         NEW rest \in Seq(QuietStep), PromptSubmitted(s, answers, rest)
  PROVE  After /\ Hands \subseteq Hands'
<1>1. CASE active # s
  BY <1>1, IgnoredLemma DEF PromptSubmitted
<1>2. CASE active = s
  BY <1>2, QuietBatches, QuietBatch, IgnoredLemma
     DEF Before, After, MachineTypeOK, Exclusive, Hands, PromptSubmitted,
         ConnectionState
<1> QED BY <1>1, <1>2

\* on_prompt_cancelled lets go of no session: it is torn down.
LEMMA PromptCancelledLemma ==
  ASSUME Before, NEW s \in Session, NEW rest \in Seq(QuietStep),
         PromptCancelled(s, rest)
  PROVE  After /\ Hands \subseteq Hands'
<1>1. CASE active # s
  BY <1>1, IgnoredLemma DEF PromptCancelled
<1>2. CASE active = s
  BY <1>2, QuietBatches, QuietBatch, IgnoredLemma, ObjectsAssumption
     DEF Before, After, MachineTypeOK, Exclusive, Hands, PromptCancelled,
         ConnectionState
<1> QED BY <1>1, <1>2

\* on_failure_dismissed touches the state only.
LEMMA FailureDismissedLemma ==
  ASSUME Before, NEW rest \in Seq(QuietStep), FailureDismissed(rest)
  PROVE  After /\ Hands \subseteq Hands'
BY QuietBatches, QuietBatch
   DEF Before, After, MachineTypeOK, Exclusive, Hands, FailureDismissed,
       ConnectionState

-----------------------------------------------------------------------------
(* The service: its types, and what its signals mean *)

\* A waiting signal that a session is over tells the truth, however late it
\* is received.
EndsAreReal ==
  /\ \A s \in Session : \A i \in 1..Len(statusQ[s]) :
       statusQ[s][i] = "Disconnected" => Over(s)
  /\ \A i \in 1..Len(removedQ) : Over(removedQ[i])

BusOK == Openvpn3TypeOK /\ EndsAreReal

\* No session starts to run.
NothingStarts == \A s \in Session : Running(s)' => Running(s)

\* A session path is used once, and a session that has stopped running stays
\* so.
Ages ==
  \A s \in Session :
    real[s] # "Unborn" => real'[s] # "Unborn" /\ (Running(s)' => Running(s))

\* In particular no ended session comes back.
LEMMA OverStays ==
  ASSUME Ages
  PROVE  \A s \in Session : Over(s) => Over(s)'
BY DEF Ages, Over, Running, Exists

\* A queue whose ends are true stays so when a true signal joins it.
LEMMA AppendEnds ==
  ASSUME NEW q \in Seq(StatusClass), NEW x \in StatusClass, NEW P \in BOOLEAN,
         \A i \in 1..Len(q) : q[i] = "Disconnected" => P,
         x = "Disconnected" => P
  PROVE  \A i \in 1..Len(Append(q, x)) : Append(q, x)[i] = "Disconnected" => P
OBVIOUS

\* A status reported by the service: an end is reported only when it is one.
LEMMA ReportStatusLemma ==
  ASSUME BusOK, NEW s \in Session, NEW x \in Reports, ReportStatus(s, x)
  PROVE  BusOK' /\ NothingStarts /\ Ages
<1> USE DEF BusOK
<1>1. x \in StatusClass /\ x \notin {"Unborn", "Gone"}
  BY Openvpn3Assumption DEF StatusClass, ConnectionState, NoChange
<1>2. real' = [real EXCEPT ![s] = x]
  BY DEF ReportStatus
<1>3. statusQ' = statusQ \/ statusQ' = [statusQ EXCEPT ![s] = Append(@, x)]
  BY DEF ReportStatus
<1>4. Openvpn3TypeOK'
  <2>1. real' \in [Session -> StatusClass \cup {"Unborn", "Gone"}]
    BY <1>1, <1>2 DEF Openvpn3TypeOK
  <2>2. statusQ' \in [Session -> Seq(StatusClass)]
    <3>1. statusQ \in [Session -> Seq(StatusClass)]
      BY DEF Openvpn3TypeOK
    <3>2. Append(statusQ[s], x) \in Seq(StatusClass)
      BY <3>1, <1>1
    <3> QED BY <1>3, <3>1, <3>2
  <2>3. UNCHANGED <<asks, dialled, told, forwarded, subscribed, watching,
                    attentionQ, removedQ>>
    BY DEF ReportStatus
  <2> QED BY <2>1, <2>2, <2>3 DEF Openvpn3TypeOK
<1>5. NothingStarts
  BY <1>2 DEF NothingStarts, Running, Exists, ReportStatus, Openvpn3TypeOK
<1>6. Ages /\ \A t \in Session : Over(t) => Over(t)'
  <2>1. Ages
    BY <1>1, <1>2, <1>5 DEF Ages, NothingStarts, Openvpn3TypeOK
  <2> QED BY <2>1, OverStays
<1>7. x = "Disconnected" => Over(s)'
  BY <1>2 DEF Over, Openvpn3TypeOK
<1>8. \A t \in Session : \A i \in 1..Len(statusQ'[t]) :
        statusQ'[t][i] = "Disconnected" => Over(t)'
  <2> TAKE t \in Session
  <2>1. CASE statusQ'[t] = statusQ[t]
    BY <2>1, <1>6 DEF EndsAreReal
  <2>2. CASE t = s /\ statusQ'[t] = Append(statusQ[t], x)
    <3>1. statusQ[t] \in Seq(StatusClass)
      BY DEF Openvpn3TypeOK
    <3>2. \A i \in 1..Len(statusQ[t]) : statusQ[t][i] = "Disconnected" => Over(t)'
      BY <1>6 DEF EndsAreReal
    <3>3. Over(t)' \in BOOLEAN
      BY DEF Over
    <3> QED BY <2>2, <3>1, <3>2, <3>3, <1>1, <1>7
  <2> QED BY <1>3, <2>1, <2>2 DEF Openvpn3TypeOK
<1>9. (\A i \in 1..Len(removedQ) : Over(removedQ[i]))'
  <2>1. removedQ' = removedQ
    BY DEF ReportStatus
  <2>2. \A i \in 1..Len(removedQ) : removedQ[i] \in Session
    BY DEF Openvpn3TypeOK
  <2> QED BY <2>1, <2>2, <1>6 DEF EndsAreReal, Over
<1> QED BY <1>4, <1>5, <1>6, <1>8, <1>9 DEF EndsAreReal

\* The other steps of the service and the calls of the worker leave the status
\* queues alone: what they must respect is that nothing over comes back.
LEMMA BusFrame ==
  ASSUME BusOK, Openvpn3TypeOK', UNCHANGED statusQ,
         \A s \in Session : Over(s) => Over(s)',
         \A i \in 1..Len(removedQ') : real'[removedQ'[i]] \in {"Disconnected", "Gone"}
  PROVE  BusOK'
BY DEF BusOK, EndsAreReal, Over

\* A request by the service starts no session.
LEMMA RequireAttentionLemma ==
  ASSUME BusOK, NEW s \in Session, NEW g \in Group, RequireAttention(s, g)
  PROVE  BusOK' /\ NothingStarts /\ Ages
<1> USE DEF BusOK
<1>1. UNCHANGED <<real, dialled, told, forwarded, subscribed, watching,
                  statusQ, removedQ>>
  BY DEF RequireAttention
<1>2. asks' \in [Session -> SUBSET Group]
  BY DEF RequireAttention, Openvpn3TypeOK
<1>3. attentionQ' \in [Session -> Seq(Group)]
  <2>1. CASE UNCHANGED attentionQ
    BY <2>1 DEF Openvpn3TypeOK
  <2>2. CASE attentionQ' = [attentionQ EXCEPT ![s] = Append(@, g)]
    BY <2>2 DEF Openvpn3TypeOK
  <2> QED BY <2>1, <2>2 DEF RequireAttention
<1>4. Openvpn3TypeOK'
  BY <1>1, <1>2, <1>3 DEF Openvpn3TypeOK
<1> QED BY <1>1, <1>4, BusFrame
        DEF EndsAreReal, Over, Ages, NothingStarts, Running, Exists

\* A removal is signalled of a session that is gone.
LEMMA RemoveSessionLemma ==
  ASSUME BusOK, NEW s \in Session, RemoveSession(s)
  PROVE  BusOK' /\ NothingStarts /\ Ages
<1> USE DEF BusOK
<1>1. real' = [real EXCEPT ![s] = "Gone"] /\ UNCHANGED <<watching, statusQ, attentionQ>>
  BY DEF RemoveSession
<1>2. /\ asks' \in [Session -> SUBSET Group]
      /\ dialled' \subseteq Session
      /\ told' \subseteq Session
      /\ forwarded' \subseteq Session
      /\ subscribed' \subseteq Session
  BY DEF RemoveSession, Openvpn3TypeOK
<1>3. removedQ' \in Seq(Session)
  <2>1. removedQ \in Seq(Session)
    BY DEF Openvpn3TypeOK
  <2>2. removedQ' = removedQ \/ removedQ' = Append(removedQ, s)
    BY DEF RemoveSession
  <2> QED BY <2>1, <2>2
<1>4. real' \in [Session -> StatusClass \cup {"Unborn", "Gone"}]
  BY <1>1 DEF Openvpn3TypeOK
<1>5. Openvpn3TypeOK'
  BY <1>1, <1>2, <1>3, <1>4 DEF Openvpn3TypeOK
<1>6. \A t \in Session : Over(t) => Over(t)'
  BY <1>1 DEF Over, Openvpn3TypeOK
<1>7. \A i \in 1..Len(removedQ') : real'[removedQ'[i]] \in {"Disconnected", "Gone"}
  <2>1. removedQ \in Seq(Session)
    BY DEF Openvpn3TypeOK
  <2>2. real'[s] = "Gone"
    BY <1>1 DEF Openvpn3TypeOK
  <2>3. \A i \in 1..Len(removedQ) : real'[removedQ[i]] \in {"Disconnected", "Gone"}
    BY <2>1, <1>6 DEF EndsAreReal, Over
  <2>4. removedQ' = removedQ \/ removedQ' = Append(removedQ, s)
    BY DEF RemoveSession
  <2> QED BY <2>1, <2>2, <2>3, <2>4
<1>8. NothingStarts
  BY <1>1 DEF NothingStarts, Running, Exists, Openvpn3TypeOK
<1>9. Ages
  BY <1>1, <1>8 DEF Ages, NothingStarts, Openvpn3TypeOK
<1> QED BY <1>1, <1>5, <1>6, <1>7, <1>8, <1>9, BusFrame

\* A session from a terminal is none of the applet's own.
LEMMA StartFromTerminalLemma ==
  ASSUME BusOK, NEW s \in Session, StartFromTerminal(s)
  PROVE  BusOK' /\ Ages /\ \A t \in Own : Running(t)' => Running(t)
<1> USE DEF BusOK
<1>1. /\ real[s] = "Unborn"
      /\ real' = [real EXCEPT ![s] = "Connecting"]
      /\ dialled' = dialled \cup {s}
      /\ UNCHANGED <<asks, told, forwarded, subscribed, watching, statusQ,
                     attentionQ, removedQ>>
  BY DEF StartFromTerminal, queueVars
<1>2. Openvpn3TypeOK'
  BY <1>1 DEF Openvpn3TypeOK, StatusClass, ConnectionState
<1>3. \A t \in Session : Over(t) => Over(t)'
  BY <1>1 DEF Over, Openvpn3TypeOK
<1>4. \A i \in 1..Len(removedQ') : real'[removedQ'[i]] \in {"Disconnected", "Gone"}
  BY <1>1, <1>3 DEF EndsAreReal, Openvpn3TypeOK, Over
<1>5. \A t \in Own : Running(t)' => Running(t)
  BY <1>1, ObjectsAssumption
     DEF StartFromTerminal, Running, Exists, Openvpn3TypeOK
<1>6. Ages
  BY <1>1 DEF Ages, Running, Exists, Openvpn3TypeOK
<1> QED BY <1>1, <1>2, <1>3, <1>4, <1>5, <1>6, BusFrame

\* The tunnel being started is the only session that starts to run.
LEMMA StartTunnelLemma ==
  ASSUME BusOK, NEW s \in Session, NEW requests \in SUBSET Group,
         StartTunnel(s, requests)
  PROVE  BusOK' /\ Ages /\ \A t \in Session : Running(t)' => Running(t) \/ t = s
<1> USE DEF BusOK
<1>1. /\ real[s] = "Unborn"
      /\ real' = [real EXCEPT ![s] = NoChange]
      /\ asks' = [asks EXCEPT ![s] = requests]
      /\ UNCHANGED <<dialled, told, forwarded, subscribed, watching, statusQ,
                     attentionQ, removedQ>>
  BY DEF StartTunnel, queueVars
<1>2. Openvpn3TypeOK'
  BY <1>1 DEF Openvpn3TypeOK, StatusClass
<1>3. \A t \in Session : Over(t) => Over(t)'
  BY <1>1 DEF Over, Openvpn3TypeOK
<1>4. \A i \in 1..Len(removedQ') : real'[removedQ'[i]] \in {"Disconnected", "Gone"}
  BY <1>1, <1>3 DEF EndsAreReal, Openvpn3TypeOK, Over
<1>5. \A t \in Session : Running(t)' => Running(t) \/ t = s
  BY <1>1 DEF Running, Exists, Openvpn3TypeOK
<1>6. Ages
  BY <1>1, <1>5 DEF Ages, Openvpn3TypeOK, NoChange
<1> QED BY <1>1, <1>2, <1>3, <1>4, <1>5, <1>6, BusFrame

\* The calls that only leave a mark on a session.
Marks(s, gs, more) ==
  \/ Dial(s) \/ Stop(s) \/ ForwardLog(s) \/ Answer(s, gs, more)
  \/ Subscribe(s) \/ Watch

\* Calls that only mark a session, or the bus, start nothing.
LEMMA MarksLemma ==
  ASSUME BusOK, NEW s \in Session, NEW gs \in SUBSET Group,
         NEW more \in SUBSET Group, Marks(s, gs, more)
  PROVE  BusOK' /\ UNCHANGED real
<1> USE DEF BusOK
<1>1. UNCHANGED <<real, statusQ, attentionQ, removedQ>>
  BY DEF Marks, Dial, Stop, ForwardLog, Answer, Subscribe, Watch, queueVars,
         serviceVars
<1>2. /\ dialled' \subseteq Session
      /\ told' \subseteq Session
      /\ forwarded' \subseteq Session
      /\ subscribed' \subseteq Session
      /\ watching' \in BOOLEAN
      /\ asks' \in [Session -> SUBSET Group]
  BY DEF Marks, Dial, Stop, ForwardLog, Answer, Subscribe, Watch, serviceVars,
         Openvpn3TypeOK
<1>3. Openvpn3TypeOK'
  BY <1>1, <1>2 DEF Openvpn3TypeOK
<1> QED BY <1>1, <1>3, BusFrame DEF EndsAreReal, Over

-----------------------------------------------------------------------------
(* The inductive invariant *)

IInv == TypeOK /\ OneChain /\ EndsAreReal /\ ReadsAreReal

\* The sessions the worker knows of.
Held == Hands \cup Newborn

\* What every step respects: a session it lets go of does not go on running,
\* and one of the applet's own that starts to run is held.
Keeps ==
  /\ Ages
  /\ \A s \in Own : Running(s)' => Running(s) \/ s \in Held'
  /\ \A s \in Held : Running(s)' => s \in Held'

\* The step that creates a session is the only one with a newborn.
LEMMA NoNewborn ==
  ASSUME todo = <<>> \/ Head(todo).op # "Created"
  PROVE  Newborn = {}
BY DEF Newborn, Doing

\* A step in which no session starts to run keeps what it holds if it lets go
\* only of sessions that do not run.
LEMMA HoldOn ==
  ASSUME Newborn = {}, UNCHANGED real,
         \A s \in Hands : Running(s) => s \in Hands'
  PROVE  Keeps
<1>1. \A s : Running(s)' = Running(s)
  BY DEF Running, Exists
<1>2. Ages
  BY <1>1 DEF Ages
<1> QED BY <1>1, <1>2 DEF Keeps, Held

\* What the fields of the next step are.
LEMMA HeadTypes ==
  ASSUME todo \in Seq(Step), todo # <<>>
  PROVE  /\ Head(todo).op \in {"EnableLogForward", "Connect", "Disconnect",
              "CheckReady", "Note", "OpenPrompt", "ProvideInput",
              "SubscribeTo", "Created", "AdoptAs", "StatusRead", "AskQueue"}
              => Head(todo).session \in Session
         /\ Head(todo).op \in {"AdoptAs", "StatusRead"} =>
              Head(todo).status \in StatusClass
         /\ Head(todo).op \in {"OpenPrompt", "ProvideInput"} =>
              Head(todo).groups \in SUBSET Group
         /\ Head(todo).op \in {"Select", "NewTunnel"} =>
              Head(todo).config \in Config
         /\ Head(todo).op = "PublishIfNot" =>
              Head(todo).state \in ConnectionState
<1>1. Head(todo) \in Step
  OBVIOUS
<1> QED BY <1>1 DEF Step, Command

PanelOK ==
  /\ prompt \in Prompt
  /\ shown \in [state : ConnectionState, active : Session \cup {None},
                prompt : Prompt]
  /\ intent \in Config \cup {None}

\* The invariant, by what the steps rely on and what they leave behind.
LEMMA Parts ==
  /\ IInv => /\ Before /\ todo \in Seq(Step) /\ StartsAlone
             /\ BusOK /\ PanelOK /\ ReadsAreReal
  /\ After /\ BusOK' /\ PanelOK' => IInv'
BY DEF IInv, TypeOK, OneChain, Before, After, BusOK, PanelOK

\* The service is as sound as before if it did not move.
LEMMA BusStill ==
  ASSUME BusOK, UNCHANGED openvpn3Vars
  PROVE  BusOK' /\ UNCHANGED real
BY DEF BusOK, Openvpn3TypeOK, EndsAreReal, Over, openvpn3Vars, serviceVars,
       queueVars

\* A step that hands an event to the Machine and calls nobody.
LEMMA Handled ==
  ASSUME IInv, Newborn = {}, UNCHANGED real, BusOK', PanelOK', After,
         \A s \in Hands : Running(s) => s \in Hands'
  PROVE  IInv' /\ Keeps
BY HoldOn, Parts

\* The worker's step is done and the Machine has not moved.
LEMMA StepDone ==
  ASSUME IInv, todo # <<>>, Done, UNCHANGED machineVars
  PROVE  After /\ Hands \subseteq Hands'
<1>1. Rest \in Seq(QuietStep)
  BY RestIsQuiet, Parts
<1>2. Ignored(Rest)
  BY <1>1 DEF Ignored, Returns, Done
<1> QED BY <1>1, <1>2, Parts, IgnoredLemma

\* A step that makes a call which starts no session, and is done.
LEMMA Called ==
  ASSUME IInv, todo # <<>>, Newborn = {}, Done, UNCHANGED machineVars,
         UNCHANGED real, BusOK', PanelOK'
  PROVE  IInv' /\ Keeps
BY StepDone, Handled

\* So is what the panel shows.
LEMMA PanelStill ==
  ASSUME PanelOK, UNCHANGED <<prompt, shown, intent>>
  PROVE  PanelOK'
BY DEF PanelOK

-----------------------------------------------------------------------------
(* Inputs *)

\* The batches an input or a tick leads to are made of quiet steps.
LEMMA QuietInputs ==
  /\ <<Publish>> \in Seq(QuietStep)
  /\ Reconcile \o <<Publish>> \in Seq(QuietStep)
  /\ Reconcile \o <<DisconnectActive, Publish>> \in Seq(QuietStep)
  /\ \A c \in Config : Reconcile \o <<Select(c), Publish>> \in Seq(QuietStep)
  /\ \A x \in ConnectionState :
       Reconcile \o <<PublishIfNot(x)>> \in Seq(QuietStep)
<1>1. /\ Publish \in QuietStep
      /\ ReconcileTeardown \in QuietStep
      /\ ReconcileStatus \in QuietStep
      /\ DisconnectActive \in QuietStep
      /\ \A c \in Config : Select(c) \in QuietStep
      /\ \A x \in ConnectionState : PublishIfNot(x) \in QuietStep
  BY DEF QuietStep, Step, StartOps, Publish, ReconcileTeardown,
         ReconcileStatus, DisconnectActive, Select, PublishIfNot
<1>2. Reconcile \in Seq(QuietStep)
  BY <1>1, ShortBatches DEF Reconcile
<1> QED BY <1>1, <1>2, ShortBatches

\* An input that only queues quiet steps preserves the invariant.
LEMMA ReceivesLemma ==
  ASSUME IInv, NEW steps \in Seq(QuietStep), Receives(steps)
  PROVE  IInv' /\ Keeps
<1>1. Newborn = {}
  BY NoNewborn DEF Receives, Idle
<1>2. /\ Returns(steps, <<>>)
      /\ UNCHANGED <<machineVars, openvpn3Vars, prompt, shown, intent>>
  BY DEF Receives, Returns
<1>3. After /\ Hands \subseteq Hands'
  BY <1>2, Parts, MoreToDo, QuietBatches
<1> QED BY <1>1, <1>2, <1>3, Parts, BusStill, PanelStill, Handled

\* A command of the panel preserves the invariant.
LEMMA UiLemma ==
  ASSUME IInv, Ui
  PROVE  IInv' /\ Keeps
<1>1. ASSUME NEW c \in Config, UiSelectProfile(c) PROVE IInv' /\ Keeps
  BY <1>1, QuietInputs, ReceivesLemma DEF UiSelectProfile
<1>2. CASE UiDisconnect
  BY <1>2, QuietInputs, ReceivesLemma DEF UiDisconnect
<1>3. CASE UiRefresh
  BY <1>3, QuietInputs, ReceivesLemma DEF UiRefresh
<1>4. CASE UiDismissFailure
  BY <1>4, Parts, NoNewborn, QuietInputs, FailureDismissedLemma, BusStill,
     PanelStill, Handled DEF UiDismissFailure, Idle
<1>5. ASSUME NEW answers \in SUBSET Supported, UiSubmitPrompt(answers)
      PROVE  IInv' /\ Keeps
  <2>1. Newborn = {} /\ BusOK' /\ UNCHANGED real /\ PanelOK'
    BY <1>5, Parts, NoNewborn, BusStill, PanelStill DEF UiSubmitPrompt, Idle
  <2>2. CASE prompt = None /\ Ignored(<<Publish>>)
    BY <2>1, <2>2, Parts, QuietInputs, IgnoredLemma, Handled
  <2>3. CASE /\ prompt # None
             /\ PromptSubmitted(prompt.session, answers, <<Publish>>)
    <3>1. prompt.session \in Session /\ answers \in SUBSET Group
      BY <2>3, Parts, ObjectsAssumption DEF PanelOK, Prompt
    <3> QED BY <2>1, <2>3, <3>1, Parts, QuietInputs, PromptSubmittedLemma, Handled
  <2> QED BY <1>5, <2>2, <2>3 DEF UiSubmitPrompt
<1>6. CASE UiCancelPrompt
  <2>1. Newborn = {} /\ BusOK' /\ UNCHANGED real /\ PanelOK'
    BY <1>6, Parts, NoNewborn, BusStill, PanelStill DEF UiCancelPrompt, Idle
  <2>2. CASE prompt = None /\ Ignored(<<Publish>>)
    BY <2>1, <2>2, Parts, QuietInputs, IgnoredLemma, Handled
  <2>3. CASE prompt # None /\ PromptCancelled(prompt.session, <<Publish>>)
    <3>1. prompt.session \in Session
      BY <2>3, Parts DEF PanelOK, Prompt
    <3> QED BY <2>1, <2>3, <3>1, Parts, QuietInputs, PromptCancelledLemma, Handled
  <2> QED BY <1>6, <2>2, <2>3 DEF UiCancelPrompt
<1>7. CASE UiManageProfiles
  BY <1>7, QuietInputs, ReceivesLemma DEF UiManageProfiles
<1> QED BY <1>1, <1>2, <1>3, <1>4, <1>5, <1>6, <1>7 DEF Ui

\* A settle tick preserves the invariant.
LEMMA SettleLemma ==
  ASSUME IInv, Settle
  PROVE  IInv' /\ Keeps
BY QuietInputs, ReceivesLemma DEF Settle, IInv, TypeOK, MachineTypeOK

\* A status is handled when it is read: if it is the end of a session that
\* session is over, and letting go of it orphans nothing.
LEMMA ReceiveStatusLemma ==
  ASSUME IInv, NEW s \in Session, ReceiveStatus(s)
  PROVE  IInv' /\ Keeps
<1> DEFINE x == Head(statusQ[s])
<1>1. statusQ \in [Session -> Seq(StatusClass)] /\ statusQ[s] # <<>>
  BY Parts DEF BusOK, Openvpn3TypeOK, ReceiveStatus
<1>2. statusQ[s] \in Seq(StatusClass)
  BY <1>1
<1>3. x \in StatusClass /\ Tail(statusQ[s]) \in Seq(StatusClass)
  BY <1>1, <1>2
<1>4. x = "Disconnected" => Over(s)
  <2>1. 1 \in 1..Len(statusQ[s]) /\ x = statusQ[s][1]
    BY <1>1, <1>2
  <2> QED BY <2>1, Parts DEF BusOK, EndsAreReal
<1>5. UNCHANGED real /\ BusOK'
  <2>1. /\ statusQ' = [statusQ EXCEPT ![s] = Tail(@)]
        /\ UNCHANGED <<real, asks, dialled, told, forwarded, subscribed,
                       watching, attentionQ, removedQ>>
    BY DEF ReceiveStatus, serviceVars
  <2>2. Openvpn3TypeOK'
    <3>1. statusQ' \in [Session -> Seq(StatusClass)]
      BY <2>1, <1>1, <1>3
    <3> QED BY <2>1, <3>1, Parts DEF BusOK, Openvpn3TypeOK
  <2>3. \A t \in Session : \A i \in 1..Len(statusQ'[t]) :
          statusQ'[t][i] = "Disconnected" => Over(t)
    <3> TAKE t \in Session
    <3>1. CASE t # s
      <4>1. statusQ'[t] = statusQ[t]
        BY <3>1, <2>1, <1>1
      <4> QED BY <4>1, Parts DEF BusOK, EndsAreReal
    <3>2. CASE t = s
      <4>1. statusQ'[s] = Tail(statusQ[s])
        BY <2>1, <1>1
      <4>2. \A i \in 1..Len(Tail(statusQ[s])) :
              /\ Tail(statusQ[s])[i] = statusQ[s][i + 1]
              /\ i + 1 \in 1..Len(statusQ[s])
        BY <1>1, <1>2
      <4> QED BY <3>2, <4>1, <4>2, Parts DEF BusOK, EndsAreReal
    <3> QED BY <3>1, <3>2
  <2> QED BY <2>1, <2>2, <2>3, Parts DEF BusOK, EndsAreReal, Over
<1>6. StatusChanged(s, x, <<Publish>>)
  BY DEF ReceiveStatus
<1>7. After /\ Hands \subseteq Hands' \cup (IF x = "Disconnected" THEN {s} ELSE {})
  BY <1>3, <1>6, Parts, QuietInputs, StatusChangedLemma
<1>8. Newborn = {} /\ PanelOK'
  BY Parts, NoNewborn, PanelStill DEF ReceiveStatus, Idle
<1>9. \A t \in Hands : Running(t) => t \in Hands'
  BY <1>4, <1>7 DEF Over, Running, Exists
<1> QED BY <1>5, <1>7, <1>8, <1>9, Handled

\* So does a request that is signalled.
LEMMA ReceiveAttentionLemma ==
  ASSUME IInv, NEW s \in Session, ReceiveAttention(s)
  PROVE  IInv' /\ Keeps
<1>1. /\ attentionQ' = [attentionQ EXCEPT ![s] = Tail(@)]
      /\ attentionQ[s] # <<>>
      /\ UNCHANGED <<real, asks, dialled, told, forwarded, subscribed,
                     watching, statusQ, removedQ>>
  BY DEF ReceiveAttention, serviceVars
<1>2. attentionQ \in [Session -> Seq(Group)] /\ attentionQ[s] \in Seq(Group)
  BY Parts DEF BusOK, Openvpn3TypeOK
<1>3. {Head(attentionQ[s])} \cap Recognised \in SUBSET Group
  BY ObjectsAssumption
<1>4. attentionQ' \in [Session -> Seq(Group)]
  BY <1>1, <1>2
<1>5. Openvpn3TypeOK'
  BY <1>1, <1>4, Parts DEF BusOK, Openvpn3TypeOK
<1>6. BusOK'
  BY <1>1, <1>5, Parts, BusFrame DEF BusOK, EndsAreReal, Over
<1>7. Newborn = {} /\ PanelOK'
  BY Parts, NoNewborn, PanelStill DEF ReceiveAttention, Idle
<1>8. CredentialsRequired(s, {Head(attentionQ[s])} \cap Recognised, <<Publish>>)
  BY DEF ReceiveAttention
<1> QED BY <1>1, <1>3, <1>6, <1>7, <1>8, Parts, QuietInputs,
           CredentialsRequiredLemma, Handled

\* So does a removal: it is of a session that is gone.
LEMMA ReceiveRemovedLemma ==
  ASSUME IInv, ReceiveRemoved
  PROVE  IInv' /\ Keeps
<1> DEFINE s == Head(removedQ)
<1>1. /\ removedQ' = Tail(removedQ)
      /\ removedQ # <<>>
      /\ UNCHANGED <<real, asks, dialled, told, forwarded, subscribed,
                     watching, statusQ, attentionQ>>
  BY DEF ReceiveRemoved, serviceVars
<1>2. removedQ \in Seq(Session)
  BY Parts DEF BusOK, Openvpn3TypeOK
<1>3. s \in Session /\ removedQ' \in Seq(Session)
  BY <1>1, <1>2
<1>4. Over(s)
  <2>1. 1 \in 1..Len(removedQ) /\ s = removedQ[1]
    BY <1>1, <1>2
  <2> QED BY <2>1, Parts DEF BusOK, EndsAreReal
<1>5. Openvpn3TypeOK'
  BY <1>1, <1>3, Parts DEF BusOK, Openvpn3TypeOK
<1>6. \A i \in 1..Len(removedQ') : Over(removedQ'[i])
  <2>1. \A i \in 1..Len(removedQ') :
          removedQ'[i] = removedQ[i + 1] /\ i + 1 \in 1..Len(removedQ)
    BY <1>1, <1>2
  <2> QED BY <2>1, Parts DEF BusOK, EndsAreReal
<1>7. BusOK'
  BY <1>1, <1>5, <1>6, Parts, BusFrame DEF BusOK, EndsAreReal, Over
<1>8. Newborn = {} /\ PanelOK'
  BY Parts, NoNewborn, PanelStill DEF ReceiveRemoved, Idle
<1>9. SessionRemoved(s, <<Publish>>)
  BY DEF ReceiveRemoved
<1>10. After /\ Hands \subseteq Hands' \cup {s}
  BY <1>3, <1>9, Parts, QuietInputs, SessionRemovedLemma
<1>11. \A t \in Hands : Running(t) => t \in Hands'
  BY <1>4, <1>10 DEF Over, Running, Exists
<1> QED BY <1>1, <1>7, <1>8, <1>10, <1>11, Handled

-----------------------------------------------------------------------------
(* Steps of the worker *)

\* Steps that change only what the panel is offered or shown.
LEMMA SimpleWorkLemma ==
  ASSUME IInv,
         ExecClosePrompt \/ ExecNote \/ ExecOpenPrompt \/ ExecPublish
           \/ ExecPublishIfNot
  PROVE  IInv' /\ Keeps
<1>1. /\ todo # <<>> /\ Newborn = {} /\ Done
      /\ UNCHANGED machineVars /\ UNCHANGED openvpn3Vars
  BY NoNewborn DEF ExecClosePrompt, ExecNote, ExecOpenPrompt, ExecPublish,
     ExecPublishIfNot, Doing
<1>2. prompt' \in Prompt
  <2>1. CASE ExecOpenPrompt
    <3>1. Head(todo).session \in Session /\ Head(todo).groups \in SUBSET Group
      BY <2>1, HeadTypes, Parts DEF ExecOpenPrompt, Doing
    <3>2. \E fields \in SUBSET Group :
            prompt' = [session |-> Head(todo).session, fields |-> fields]
      BY <2>1, <3>1 DEF ExecOpenPrompt, Drained
    <3> QED BY <3>1, <3>2 DEF Prompt
  <2>2. CASE ~ExecOpenPrompt
    BY <2>2, Parts DEF ExecClosePrompt, ExecNote, ExecPublish,
       ExecPublishIfNot, PanelOK, Prompt
  <2> QED BY <2>1, <2>2
<1>3. Snapshot \in [state : ConnectionState, active : Session \cup {None},
                    prompt : Prompt]
  BY Parts DEF Before, MachineTypeOK, PanelOK, Snapshot
<1>4. PanelOK'
  BY <1>2, <1>3, Parts DEF ExecClosePrompt, ExecNote, ExecOpenPrompt,
     ExecPublish, ExecPublishIfNot, PanelOK
<1> QED BY <1>1, <1>4, Parts, BusStill, Called

\* Calls on a session, or none if there is nothing to call.
LEMMA CallLemma ==
  ASSUME IInv,
         ExecEnableLogForward \/ ExecConnect \/ ExecDisconnect
           \/ ExecProvideInput \/ SubscribeSession \/ WatchSessionManager
  PROVE  IInv' /\ Keeps
<1>1. /\ todo # <<>> /\ Newborn = {} /\ Done
      /\ UNCHANGED machineVars /\ UNCHANGED <<prompt, shown, intent>>
  BY NoNewborn DEF ExecEnableLogForward, ExecConnect, ExecDisconnect,
     ExecProvideInput, SubscribeSession, WatchSessionManager, Doing
<1>2. BusOK' /\ UNCHANGED real
  <2>1. CASE UNCHANGED openvpn3Vars
    BY <2>1, Parts, BusStill
  <2>2. CASE WatchSessionManager /\ Watch
    <3>1. UNCHANGED <<real, asks, dialled, told, forwarded, subscribed,
                      statusQ, attentionQ, removedQ>> /\ watching' = TRUE
      BY <2>2 DEF Watch, serviceVars, queueVars
    <3>2. Openvpn3TypeOK'
      BY <3>1, Parts DEF BusOK, Openvpn3TypeOK
    <3> QED BY <3>1, <3>2, Parts, BusFrame DEF BusOK, EndsAreReal, Over
  <2>3. CASE ~WatchSessionManager /\ ~UNCHANGED openvpn3Vars
    <3>1. Head(todo).session \in Session
      BY <2>3, HeadTypes, Parts
         DEF ExecEnableLogForward, ExecConnect, ExecDisconnect,
             ExecProvideInput, SubscribeSession, Doing
    <3>2. PICK gs \in SUBSET Group, more \in SUBSET Group :
            Marks(Head(todo).session, gs, more)
      <4>1. CASE ExecProvideInput
        <5>1. Head(todo).groups \in SUBSET Group
          BY <4>1, HeadTypes, Parts DEF ExecProvideInput, Doing
        <5>2. \E gs \in Accepted(Head(todo).groups), more \in NextRound(Head(todo).session) :
                Answer(Head(todo).session, gs, more)
          BY <4>1, <2>3 DEF ExecProvideInput
        <5> QED BY <5>1, <5>2 DEF Marks, Accepted, NextRound
      <4>2. CASE ~ExecProvideInput
        <5>1. Marks(Head(todo).session, {}, {})
          BY <4>2, <2>3 DEF ExecEnableLogForward, ExecConnect,
             ExecDisconnect, SubscribeSession, Marks
        <5> QED BY <5>1
      <4> QED BY <4>1, <4>2
    <3> QED BY <3>1, <3>2, Parts, MarksLemma
  <2> QED BY <2>1, <2>2, <2>3 DEF WatchSessionManager
<1> QED BY <1>1, <1>2, Parts, PanelStill, Called

\* The steps below hand an event to the Machine; this is what they share.
LEMMA Doable ==
  ASSUME IInv, todo # <<>>, Head(todo).op # "Created",
         UNCHANGED <<openvpn3Vars, prompt, shown>>,
         intent' \in Config \cup {None}
  PROVE  /\ Rest \in Seq(QuietStep)
         /\ Newborn = {} /\ UNCHANGED real /\ BusOK' /\ PanelOK'
BY Parts, RestIsQuiet, NoNewborn, BusStill DEF PanelOK

\* Adopting a session at startup preserves the invariant.
LEMMA AdoptExistingLemma ==
  ASSUME IInv, AdoptExisting
  PROVE  IInv' /\ Keeps
<1>1. /\ Rest \in Seq(QuietStep)
      /\ Newborn = {} /\ UNCHANGED real /\ BusOK' /\ PanelOK'
  BY Doable, Parts DEF AdoptExisting, Doing, PanelOK
<1>2. CASE Done /\ UNCHANGED machineVars
  BY <1>1, <1>2, Parts, Called DEF AdoptExisting, Doing
<1>3. ASSUME NEW s \in Session, Exists(s), Returns(<<AdoptAs(s, real[s])>>, Rest)
      PROVE  IInv' /\ Keeps
  <2>1. real[s] \in StatusClass
    BY <1>3, Parts DEF BusOK, Openvpn3TypeOK, Exists
  <2>2. AdoptAs(s, real[s]) \in QuietStep
    BY <2>1 DEF AdoptAs, QuietStep, Step, StartOps
  <2>3. After /\ Hands \subseteq Hands'
    BY <1>1, <1>3, <2>2, Parts, ShortBatches, MoreToDo DEF AdoptExisting
  <2> QED BY <1>1, <2>3, Handled
<1> QED BY <1>2, <1>3 DEF AdoptExisting

\* The session is taken in hand, whatever has become of it.
LEMMA AdoptStatusReadLemma ==
  ASSUME IInv, AdoptStatusRead
  PROVE  IInv' /\ Keeps
<1> DEFINE s == Head(todo).session
<1>1. /\ Rest \in Seq(QuietStep)
      /\ Newborn = {} /\ UNCHANGED real /\ BusOK' /\ PanelOK'
  BY Doable, Parts DEF AdoptStatusRead, Doing, PanelOK
<1>2. s \in Session /\ Head(todo).status \in StatusClass
  BY HeadTypes, Parts DEF AdoptStatusRead, Doing
<1>3. SubscribeTo(s) \in QuietStep
  BY <1>2 DEF SubscribeTo, QuietStep, Step, StartOps
<1>4. <<SubscribeTo(s)>> \o Rest \in Seq(QuietStep)
  BY <1>1, <1>3, ShortBatches
<1>5. ExternalSessionSeen(s, Head(todo).status, <<SubscribeTo(s)>> \o Rest)
  BY DEF AdoptStatusRead
<1> QED BY <1>1, <1>2, <1>4, <1>5, Parts, ExternalSessionSeenLemma, Handled

\* A tunnel is started when the Machine has no session in hand, so when none
\* of the applet's sessions runs; the new one is the newborn.
LEMMA ExecNewTunnelLemma ==
  ASSUME IInv, ExecNewTunnel
  PROVE  IInv' /\ Keeps
<1>1. /\ todo # <<>> /\ Head(todo).op = "NewTunnel" /\ Newborn = {}
      /\ UNCHANGED <<machineVars, prompt, shown, intent>>
  BY NoNewborn DEF ExecNewTunnel, TunnelStarts, TunnelRefused, Doing
<1>2. active = None /\ awaitingTeardown = None
  <2>1. 1 \in 1..Len(todo) /\ Head(todo) = todo[1]
    BY <1>1, Parts
  <2> QED BY <1>1, <2>1, Parts DEF StartsAlone, StartOps
<1>3. Rest \in Seq(QuietStep) /\ PanelOK'
  BY <1>1, Parts, RestIsQuiet, PanelStill
<1>4. CASE UNCHANGED openvpn3Vars /\ Done
  BY <1>1, <1>3, <1>4, Parts, BusStill, Called
<1>5. ASSUME NEW s \in Session, NEW requests \in SUBSET Group,
             StartTunnel(s, requests), Returns(<<Created(s)>>, Rest)
      PROVE  IInv' /\ Keeps
  <2>1. Created(s) \in Step
    BY DEF Created, Step
  <2>2. todo' \in Seq(Step) /\ StartsAlone' /\ ReadsAreReal'
    BY <1>1, <1>2, <1>3, <1>5, <2>1, TunnelBatch DEF machineVars, Created
  <2>3. After
    BY <1>1, <2>2, Parts
       DEF After, Before, machineVars, MachineTypeOK, Exclusive
  <2>4. BusOK' /\ Ages /\ \A t \in Session : Running(t)' => Running(t) \/ t = s
    BY <1>5, Parts, StartTunnelLemma
  <2>5. Newborn' = {s}
    <3>1. todo' # <<>> /\ Head(todo') = Created(s)
      BY <1>3, <1>5 DEF Returns
    <3> QED BY <3>1 DEF Newborn, Doing, Created
  <2>6. Held = {} /\ s \in Held'
    BY <1>1, <1>2, <2>5 DEF Held, Hands
  <2>7. Keeps
    BY <2>4, <2>6, ObjectsAssumption DEF Keeps
  <2> QED BY <1>3, <2>3, <2>4, <2>7, Parts
<1> QED BY <1>4, <1>5 DEF ExecNewTunnel, TunnelStarts, TunnelRefused

\* A new session goes from newborn to displayed.
LEMMA TunnelCreatedLemma ==
  ASSUME IInv, TunnelCreated
  PROVE  IInv' /\ Keeps
<1> DEFINE s == Head(todo).session
<1>1. /\ todo # <<>> /\ Head(todo).op = "Created"
      /\ UNCHANGED <<prompt, shown, intent>>
      /\ Subscribe(s) /\ SessionCreated(s, Rest)
  BY DEF TunnelCreated, Doing
<1>2. s \in Session
  BY <1>1, HeadTypes, Parts
<1>3. active = None /\ awaitingTeardown = None
  <2>1. 1 \in 1..Len(todo) /\ Head(todo) = todo[1]
    BY <1>1, Parts
  <2> QED BY <1>1, <2>1, Parts DEF StartsAlone, StartOps
<1>4. After /\ s \in Hands'
  BY <1>1, <1>2, <1>3, Parts, RestIsQuiet, SessionCreatedLemma
<1>5. BusOK' /\ UNCHANGED real
  <2>1. Marks(s, {}, {})
    BY <1>1 DEF Marks
  <2> QED BY <1>2, <2>1, Parts, MarksLemma
<1>6. Held = {s}
  BY <1>1, <1>3 DEF Held, Hands, Newborn, Doing
<1>7. Keeps
  BY <1>4, <1>5, <1>6 DEF Keeps, Ages, Held, Running, Exists
<1> QED BY <1>1, <1>4, <1>5, <1>7, Parts, PanelStill

\* The answer to Ready preserves the invariant.
LEMMA ExecCheckReadyLemma ==
  ASSUME IInv, ExecCheckReady
  PROVE  IInv' /\ Keeps
<1> DEFINE s == Head(todo).session
<1>1. /\ Rest \in Seq(QuietStep)
      /\ Newborn = {} /\ UNCHANGED real /\ BusOK' /\ PanelOK'
  BY Doable, Parts DEF ExecCheckReady, Doing, PanelOK
<1>2. s \in Session
  BY HeadTypes, Parts DEF ExecCheckReady, Doing
<1>3. CASE SessionReady(s, Rest)
  BY <1>1, <1>2, <1>3, Parts, SessionReadyLemma, Handled
<1>4. CASE Returns(<<AskQueue(s)>>, Rest) /\ UNCHANGED machineVars
  <2>1. AskQueue(s) \in QuietStep
    BY <1>2 DEF AskQueue, QuietStep, Step, StartOps
  <2>2. After /\ Hands \subseteq Hands'
    BY <1>1, <1>4, <2>1, Parts, ShortBatches, MoreToDo
  <2> QED BY <1>1, <2>2, Handled
<1>5. CASE Ignored(Rest)
  BY <1>1, <1>5, Parts, IgnoredLemma, Handled
<1> QED BY <1>3, <1>4, <1>5 DEF ExecCheckReady

\* So does what the queue says.
LEMMA ExecAskQueueLemma ==
  ASSUME IInv, ExecAskQueue
  PROVE  IInv' /\ Keeps
<1> DEFINE s == Head(todo).session
           requests == asks[s] \cap Recognised
<1>1. /\ Rest \in Seq(QuietStep)
      /\ Newborn = {} /\ UNCHANGED real /\ BusOK' /\ PanelOK'
  BY Doable, Parts DEF ExecAskQueue, Doing, PanelOK
<1>2. s \in Session /\ requests \in SUBSET Group
  BY HeadTypes, Parts, ObjectsAssumption DEF ExecAskQueue, Doing
<1>3. CASE CredentialsRequired(s, requests, Rest)
  BY <1>1, <1>2, <1>3, Parts, CredentialsRequiredLemma, Handled
<1>4. CASE Ignored(Rest)
  BY <1>1, <1>4, Parts, IgnoredLemma, Handled
<1> QED BY <1>3, <1>4 DEF ExecAskQueue

\* The teardown is over only when the session is no longer listed.
LEMMA ExecReconcileTeardownLemma ==
  ASSUME IInv, ExecReconcileTeardown
  PROVE  IInv' /\ Keeps
<1>1. /\ Rest \in Seq(QuietStep)
      /\ Newborn = {} /\ UNCHANGED real /\ BusOK' /\ PanelOK'
  BY Doable, Parts DEF ExecReconcileTeardown, Doing, PanelOK
<1>2. CASE /\ awaitingTeardown # None /\ ~Exists(awaitingTeardown)
           /\ SessionRemoved(awaitingTeardown, Rest)
  <2>1. awaitingTeardown \in Session
    BY <1>2, Parts DEF Before, MachineTypeOK
  <2>2. After /\ Hands \subseteq Hands' \cup {awaitingTeardown}
    BY <1>1, <1>2, <2>1, Parts, SessionRemovedLemma
  <2> QED BY <1>1, <1>2, <2>2, Handled DEF Running
<1>3. CASE Ignored(Rest)
  BY <1>1, <1>3, Parts, IgnoredLemma, Handled
<1> QED BY <1>2, <1>3 DEF ExecReconcileTeardown

\* The status read is the session's own: if it is the end, it is true.
LEMMA ExecReconcileStatusLemma ==
  ASSUME IInv, ExecReconcileStatus
  PROVE  IInv' /\ Keeps
<1>1. /\ Rest \in Seq(QuietStep)
      /\ Newborn = {} /\ UNCHANGED real /\ BusOK' /\ PanelOK'
  BY Doable, Parts DEF ExecReconcileStatus, Doing, PanelOK
<1>2. CASE /\ active # None /\ Exists(active)
           /\ Returns(<<StatusRead(active, real[active])>>, Rest)
  <2> DEFINE x == StatusRead(active, real[active])
  <2>1. active \in Session /\ real[active] \in StatusClass
    BY <1>2, Parts DEF Before, MachineTypeOK, BusOK, Openvpn3TypeOK, Exists
  <2>2. x \in Step /\ x.op \notin StartOps
        /\ (x.status = "Disconnected" => Over(x.session))
    BY <2>1 DEF StatusRead, Step, StartOps, Over
  <2>3. todo' = <<x>> \o Rest
    BY <1>2 DEF Returns
  <2>4. todo'[1] = x /\ \A i \in 1..Len(todo') : i # 1 => todo'[i] \in QuietStep
    BY <1>1, <2>3
  <2>5. todo' \in Seq(Step)
    BY <1>1, <2>2, <2>3 DEF QuietStep
  <2>6. StartsAlone'
    BY <2>2, <2>4 DEF StartsAlone, QuietStep
  <2>7. ReadsAreReal'
    BY <1>1, <2>2, <2>4 DEF ReadsAreReal, QuietStep, Over
  <2>8. After /\ Hands \subseteq Hands'
    BY <2>5, <2>6, <2>7, Parts
       DEF ExecReconcileStatus, After, Before, machineVars, MachineTypeOK,
           Exclusive, Hands
  <2> QED BY <1>1, <2>8, Handled
<1>3. CASE Done
  BY <1>1, <1>3, Parts, Called DEF ExecReconcileStatus, Doing
<1> QED BY <1>2, <1>3 DEF ExecReconcileStatus

\* Letting go of a session whose final status was read orphans nothing.
LEMMA HandleStatusReadLemma ==
  ASSUME IInv, HandleStatusRead
  PROVE  IInv' /\ Keeps
<1> DEFINE s == Head(todo).session
           x == Head(todo).status
<1>1. /\ Rest \in Seq(QuietStep)
      /\ Newborn = {} /\ UNCHANGED real /\ BusOK' /\ PanelOK'
  BY Doable, Parts DEF HandleStatusRead, Doing, PanelOK
<1>2. s \in Session /\ x \in StatusClass
  BY HeadTypes, Parts DEF HandleStatusRead, Doing
<1>3. x = "Disconnected" => Over(s)
  <2>1. /\ 1 \in 1..Len(todo) /\ Head(todo) = todo[1]
        /\ Head(todo).op = "StatusRead"
    BY Parts DEF HandleStatusRead, Doing
  <2> QED BY <2>1, Parts DEF ReadsAreReal
<1>4. StatusChanged(s, x, Rest)
  BY DEF HandleStatusRead
<1>5. After /\ Hands \subseteq Hands' \cup (IF x = "Disconnected" THEN {s} ELSE {})
  BY <1>1, <1>2, <1>4, Parts, StatusChangedLemma
<1>6. \A t \in Hands : Running(t) => t \in Hands'
  BY <1>3, <1>5 DEF Over, Running, Exists
<1> QED BY <1>1, <1>5, <1>6, Handled

\* A selection preserves the invariant.
LEMMA ExecSelectLemma ==
  ASSUME IInv, ExecSelect
  PROVE  IInv' /\ Keeps
<1>1. Head(todo).config \in Config
  BY HeadTypes, Parts DEF ExecSelect, Doing
<1>2. /\ Rest \in Seq(QuietStep)
      /\ Newborn = {} /\ UNCHANGED real /\ BusOK' /\ PanelOK'
  BY <1>1, Doable DEF ExecSelect, Doing
<1> QED BY <1>1, <1>2, Parts, ProfileSelectedLemma, Handled DEF ExecSelect

\* A disconnect preserves the invariant.
LEMMA ExecDisconnectActiveLemma ==
  ASSUME IInv, ExecDisconnectActive
  PROVE  IInv' /\ Keeps
<1>1. /\ Rest \in Seq(QuietStep)
      /\ Newborn = {} /\ UNCHANGED real /\ BusOK' /\ PanelOK'
  BY Doable DEF ExecDisconnectActive, Doing
<1> QED BY <1>1, Parts, DisconnectRequestedLemma, Handled
        DEF ExecDisconnectActive

\* Every step of the worker preserves the invariant.
LEMMA WorkLemma ==
  ASSUME IInv, Work
  PROVE  IInv' /\ Keeps
BY SimpleWorkLemma, CallLemma, AdoptExistingLemma, AdoptStatusReadLemma,
   ExecNewTunnelLemma, TunnelCreatedLemma, ExecCheckReadyLemma,
   ExecAskQueueLemma, ExecReconcileTeardownLemma, ExecReconcileStatusLemma,
   HandleStatusReadLemma, ExecSelectLemma, ExecDisconnectActiveLemma
   DEF Work, Call

-----------------------------------------------------------------------------
(* Steps of the service *)

\* The service does not disturb the invariant.
LEMMA ServiceLemma ==
  ASSUME IInv, Service
  PROVE  IInv' /\ Keeps
<1>1. UNCHANGED <<machineVars, todo, prompt, shown, intent>> /\ Openvpn3Next
  BY DEF Service
<1>2. BusOK' /\ Ages /\ \A t \in Own : Running(t)' => Running(t)
  <2>1. PICK s \in Session :
          \/ \E x \in Reports : ReportStatus(s, x)
          \/ \E g \in Group : RequireAttention(s, g)
          \/ RemoveSession(s)
          \/ StartFromTerminal(s)
    BY <1>1 DEF Openvpn3Next
  <2> QED BY <2>1, Parts, ObjectsAssumption, ReportStatusLemma,
             RequireAttentionLemma, RemoveSessionLemma,
             StartFromTerminalLemma DEF NothingStarts
<1>3. ReadsAreReal'
  <2>1. \A i \in 1..Len(todo) :
          todo[i].op = "StatusRead" => todo[i].session \in Session
    <3>1. \A i \in 1..Len(todo) : todo[i] \in Step
      BY Parts
    <3> QED BY <3>1 DEF Step, Command
  <2> QED BY <1>1, <1>2, <2>1, Parts, OverStays DEF ReadsAreReal
<1>4. After /\ PanelOK'
  BY <1>1, <1>3, Parts, PanelStill
     DEF After, Before, machineVars, MachineTypeOK, Exclusive, StartsAlone
<1>5. Held' = Held
  BY <1>1 DEF Held, Hands, Newborn, Doing, machineVars
<1>6. Keeps
  BY <1>2, <1>5 DEF Keeps
<1> QED BY <1>2, <1>4, <1>6, Parts

-----------------------------------------------------------------------------
(* The theorems *)

\* The invariant holds when the worker starts.
LEMMA InitLemma == Init => IInv
<1> SUFFICES ASSUME Init PROVE IInv
  OBVIOUS
<1>1. MachineTypeOK /\ Exclusive /\ PanelOK
  BY DEF Init, MachineInit, MachineTypeOK, Exclusive, PanelOK, Prompt,
         ConnectionState
<1>2. todo \in Seq(QuietStep)
  <2>1. Adopt \in QuietStep /\ WatchManager \in QuietStep /\ Publish \in QuietStep
    BY DEF Adopt, WatchManager, Publish, QuietStep, Step, StartOps
  <2> QED BY <2>1, ShortBatches DEF Init
<1>3. todo \in Seq(Step) /\ StartsAlone /\ ReadsAreReal
  BY <1>2 DEF QuietStep, StartsAlone, ReadsAreReal
<1>4. Openvpn3TypeOK
  <2>1. real \in [Session -> StatusClass \cup {"Unborn", "Gone"}]
    BY Openvpn3Assumption DEF Init, Openvpn3Init
  <2>2. /\ asks \in [Session -> SUBSET Group]
        /\ dialled \subseteq Session
        /\ told \subseteq Session
        /\ forwarded \subseteq Session
        /\ subscribed \subseteq Session
        /\ watching \in BOOLEAN
    BY DEF Init, Openvpn3Init
  <2>3. /\ statusQ \in [Session -> Seq(StatusClass)]
        /\ attentionQ \in [Session -> Seq(Group)]
    <3>1. <<>> \in Seq(StatusClass) /\ <<>> \in Seq(Group)
      OBVIOUS
    <3> QED BY <3>1 DEF Init, Openvpn3Init
  <2>4. removedQ \in Seq(Session)
    BY DEF Init, Openvpn3Init
  <2> QED BY <2>1, <2>2, <2>3, <2>4 DEF Openvpn3TypeOK
<1>5. EndsAreReal
  BY DEF Init, Openvpn3Init, EndsAreReal
<1> QED BY <1>1, <1>3, <1>4, <1>5
        DEF IInv, TypeOK, OneChain, PanelOK

\* Every step preserves the invariant, and keeps what it holds.
LEMMA NextLemma == IInv /\ [Next]_vars => IInv' /\ Keeps
<1> SUFFICES ASSUME IInv, [Next]_vars PROVE IInv' /\ Keeps
  OBVIOUS
<1>1. CASE Next
  BY <1>1, UiLemma, SettleLemma, ReceiveStatusLemma, ReceiveAttentionLemma,
     ReceiveRemovedLemma, WorkLemma, ServiceLemma DEF Next, Signal
<1>2. CASE UNCHANGED vars
  <2>1. UNCHANGED <<machineVars, todo, openvpn3Vars, prompt, shown, intent>>
    BY <1>2 DEF vars
  <2>2. BusOK' /\ UNCHANGED real /\ PanelOK'
    BY <2>1, Parts, BusStill, PanelStill
  <2>3. After
    BY <2>1, <2>2, Parts
       DEF After, Before, machineVars, MachineTypeOK, Exclusive, StartsAlone,
           ReadsAreReal, Over
  <2>4. Held' = Held
    BY <2>1 DEF Held, Hands, Newborn, Doing, machineVars
  <2>5. Keeps
    BY <2>2, <2>4 DEF Keeps, Ages, Running, Exists
  <2> QED BY <2>2, <2>3, <2>5, Parts
<1> QED BY <1>1, <1>2

\* The inductive invariant holds in every state the worker reaches.
THEOREM Invariance == Spec => []IInv
<1> QED BY InitLemma, NextLemma, PTL DEF Spec

\* Type correctness: the Machine, the work in hand, the service, the prompt
\* and the snapshot hold values of their kinds.
THEOREM TypeCorrect == Spec => []TypeOK
<1>1. IInv => TypeOK
  BY DEF IInv
<1> QED BY <1>1, Invariance, PTL

\* KTD5: the Machine has one chain of transitions in hand, and starts a tunnel
\* only when no session is displayed or being torn down.
THEOREM OneChainAlways == Spec => []OneChain
<1>1. IInv => OneChain
  BY DEF IInv
<1> QED BY <1>1, Invariance, PTL

\* The worker has at most one session in hand.
LEMMA OneHand ==
  ASSUME IInv, NEW s \in Held, NEW t \in Held
  PROVE  s = t
<1>1. CASE Doing("Created")
  <2>1. 1 \in 1..Len(todo) /\ todo[1].op \in StartOps
    BY <1>1, Parts DEF Doing, StartOps
  <2>2. active = None /\ awaitingTeardown = None
    BY <2>1, Parts DEF StartsAlone
  <2> QED BY <1>1, <2>2 DEF Held, Hands, Newborn
<1>2. CASE ~Doing("Created")
  <2>1. active = None \/ awaitingTeardown = None
    BY Parts DEF Before, Exclusive
  <2> QED BY <1>2, <2>1 DEF Held, Hands, Newborn
<1> QED BY <1>1, <1>2

\* NoOrphan says that the applet's own sessions that run are held.
LEMMA OwnAreHeld ==
  NoOrphan <=> \A s \in Own : Running(s) => s \in Held
BY ObjectsAssumption DEF NoOrphan, Held, Hands

\* A worker that starts beside none of its own sessions orphans none.
LEMMA NoneAtFirst == Init => NoOrphan
BY DEF Init, Openvpn3Init, NoOrphan, Running, Exists

\* A step that keeps what it holds orphans none.
LEMMA NoneLost == NoOrphan /\ Keeps => NoOrphan'
<1> SUFFICES ASSUME NoOrphan, Keeps, NEW s \in Own, Running(s)'
             PROVE  s \in {active', awaitingTeardown'} \cup Newborn'
  BY DEF NoOrphan
<1>1. s \in Held'
  BY OwnAreHeld DEF Keeps
<1> QED BY <1>1 DEF Held, Hands

\* A session the applet started is never forgotten while it may run: it is
\* displayed, being torn down or just being created.
THEOREM NothingIsOrphaned == Spec => []NoOrphan
<1> QED BY NoneAtFirst, NoneLost, NextLemma, Invariance, PTL DEF Spec

\* AE1: of the sessions the applet started at most one runs at any time, however
\* fast the user switches.
THEOREM OneLiveSession == Spec => []AtMostOneLive
<1>1. IInv /\ NoOrphan => AtMostOneLive
  BY OneHand, OwnAreHeld DEF AtMostOneLive
<1> QED BY <1>1, Invariance, NothingIsOrphaned, PTL

-----------------------------------------------------------------------------
(* The profile chosen last *)

\* A profile that waits for a teardown is the one chosen last.
TargetIsWanted == pendingTarget # None => pendingTarget = intent

\* TunnelIsWanted needs it: finish_teardown starts the profile that waits.
Wanted == TargetIsWanted /\ TunnelIsWanted

\* A step that drops the waiting profile or keeps it, and starts no other.
StartsOnlyTarget ==
  /\ pendingTarget' \in {pendingTarget, None}
  /\ Doing("NewTunnel")' =>
       pendingTarget # None /\ Head(todo').config = pendingTarget

\* Such a step preserves it while the user's choice stands.
LEMMA ChoiceStands ==
  ASSUME Wanted, StartsOnlyTarget, intent' = intent
  PROVE  Wanted'
BY DEF Wanted, TargetIsWanted, TunnelIsWanted, StartsOnlyTarget, Doing

\* A batch of quiet steps starts nothing.
LEMMA QuietStart ==
  ASSUME NEW cs \in Seq(QuietStep), NEW rest \in Seq(QuietStep),
         Returns(cs, rest)
  PROVE  ~Doing("NewTunnel")'
<1>1. todo' \in Seq(QuietStep)
  BY DEF Returns
<1>2. todo' # <<>> => Head(todo') \in QuietStep
  BY <1>1
<1> QED BY <1>2 DEF Doing, QuietStep, StartOps

\* Nor does what is left of the worker's steps.
LEMMA QuietRest ==
  ASSUME IInv, todo # <<>>
  PROVE  Rest \in Seq(QuietStep) /\ (Done => ~Doing("NewTunnel")')
<1>1. Rest \in Seq(QuietStep)
  BY RestIsQuiet, Parts
<1>2. Done => Returns(<<>>, Rest)
  BY <1>1 DEF Done, Returns
<1> QED BY <1>1, <1>2, QuietBatches, QuietStart

\* finish_teardown starts the profile that waits, and no other.
LEMMA FinishTeardownStarts ==
  ASSUME NEW rest \in Seq(QuietStep), FinishTeardown(rest)
  PROVE  StartsOnlyTarget
<1>1. CASE pendingTarget # None
  <2>1. Returns(<<NewTunnel(pendingTarget)>>, rest)
    BY <1>1 DEF FinishTeardown
  <2>2. Head(todo') = NewTunnel(pendingTarget)
    BY <2>1 DEF Returns
  <2> QED BY <1>1, <2>2 DEF FinishTeardown, StartsOnlyTarget, NewTunnel
<1>2. CASE pendingTarget = None
  BY <1>2, QuietBatches, QuietStart DEF FinishTeardown, StartsOnlyTarget
<1> QED BY <1>1, <1>2

\* apply_status starts nothing.
LEMMA ApplyStatusStarts ==
  ASSUME NEW s \in Session, NEW x \in StatusClass,
         NEW rest \in Seq(QuietStep), ApplyStatus(s, x, rest)
  PROVE  ~Doing("NewTunnel")'
<1>1. \E cs \in Seq(QuietStep) : Returns(cs, rest)
  BY QuietBatches DEF ApplyStatus
<1> QED BY <1>1, QuietStart

\* An event that is ignored starts nothing.
LEMMA IgnoredStarts ==
  ASSUME NEW rest \in Seq(QuietStep), Ignored(rest)
  PROVE  StartsOnlyTarget
BY QuietBatches, QuietStart DEF StartsOnlyTarget, Ignored, machineVars

\* No event but the user's choices makes the Machine start another profile.
LEMMA HandlersStart ==
  ASSUME NEW s \in Session, NEW rest \in Seq(QuietStep)
  PROVE  /\ \/ SessionCreated(s, rest)
            \/ SessionReady(s, rest)
            \/ SessionRemoved(s, rest)
            \/ PromptCancelled(s, rest)
            => StartsOnlyTarget
         /\ \A x \in StatusClass :
              ExternalSessionSeen(s, x, rest) \/ StatusChanged(s, x, rest)
                => StartsOnlyTarget
         /\ \A gs \in SUBSET Group :
              CredentialsRequired(s, gs, rest) \/ PromptSubmitted(s, gs, rest)
                => StartsOnlyTarget
<1> USE IgnoredStarts DEF StartsOnlyTarget
<1>1. SessionCreated(s, rest) => StartsOnlyTarget
  BY QuietBatches, QuietStart DEF SessionCreated
<1>2. SessionReady(s, rest) => StartsOnlyTarget
  BY QuietBatches, QuietStart DEF SessionReady
<1>3. SessionRemoved(s, rest) => StartsOnlyTarget
  BY QuietBatches, QuietStart, FinishTeardownStarts DEF SessionRemoved
<1>4. PromptCancelled(s, rest) => StartsOnlyTarget
  BY QuietBatches, QuietStart DEF PromptCancelled
<1>5. ASSUME NEW x \in StatusClass
      PROVE  ExternalSessionSeen(s, x, rest) => StartsOnlyTarget
  BY ApplyStatusStarts DEF ExternalSessionSeen
<1>6. ASSUME NEW x \in StatusClass
      PROVE  StatusChanged(s, x, rest) => StartsOnlyTarget
  BY ApplyStatusStarts, FinishTeardownStarts DEF StatusChanged
<1>7. ASSUME NEW gs \in SUBSET Group
      PROVE  CredentialsRequired(s, gs, rest) => StartsOnlyTarget
  BY QuietBatches, QuietStart DEF CredentialsRequired
<1>8. ASSUME NEW gs \in SUBSET Group
      PROVE  PromptSubmitted(s, gs, rest) => StartsOnlyTarget
  BY QuietBatches, QuietStart DEF PromptSubmitted
<1> QED BY <1>1, <1>2, <1>3, <1>4, <1>5, <1>6, <1>7, <1>8

\* More quiet work, with the Machine as it was, starts nothing.
LEMMA MoreToDoStarts ==
  ASSUME NEW cs \in Seq(QuietStep), NEW rest \in Seq(QuietStep),
         Returns(cs, rest), UNCHANGED machineVars
  PROVE  StartsOnlyTarget
BY QuietStart DEF StartsOnlyTarget, machineVars

\* A command of the panel starts nothing yet: a choice is made later.
LEMMA UiStarts ==
  ASSUME IInv, Ui
  PROVE  StartsOnlyTarget
<1>1. ASSUME NEW steps \in Seq(QuietStep), Receives(steps)
      PROVE  StartsOnlyTarget
  <2>1. Returns(steps, <<>>) /\ UNCHANGED machineVars
    BY <1>1 DEF Receives, Returns
  <2> QED BY <2>1, QuietBatches, MoreToDoStarts
<1>2. ASSUME NEW c \in Config, UiSelectProfile(c) PROVE StartsOnlyTarget
  BY <1>1, <1>2, QuietInputs DEF UiSelectProfile
<1>3. CASE UiDisconnect \/ UiRefresh \/ UiManageProfiles
  BY <1>1, <1>3, QuietInputs DEF UiDisconnect, UiRefresh, UiManageProfiles
<1>4. CASE UiDismissFailure
  BY <1>4, QuietInputs, QuietBatches, QuietStart
     DEF UiDismissFailure, FailureDismissed, StartsOnlyTarget
<1>5. ASSUME NEW answers \in SUBSET Supported, UiSubmitPrompt(answers)
      PROVE  StartsOnlyTarget
  <2>1. CASE prompt = None
    BY <1>5, <2>1, QuietInputs, IgnoredStarts DEF UiSubmitPrompt
  <2>2. CASE prompt # None
    <3>1. prompt.session \in Session /\ answers \in SUBSET Group
      BY <2>2, Parts, ObjectsAssumption DEF PanelOK, Prompt
    <3> QED BY <1>5, <2>2, <3>1, QuietInputs, HandlersStart DEF UiSubmitPrompt
  <2> QED BY <2>1, <2>2
<1>6. CASE UiCancelPrompt
  <2>1. CASE prompt = None
    BY <1>6, <2>1, QuietInputs, IgnoredStarts DEF UiCancelPrompt
  <2>2. CASE prompt # None
    <3>1. prompt.session \in Session
      BY <2>2, Parts DEF PanelOK, Prompt
    <3> QED BY <1>6, <2>2, <3>1, QuietInputs, HandlersStart DEF UiCancelPrompt
  <2> QED BY <2>1, <2>2
<1> QED BY <1>2, <1>3, <1>4, <1>5, <1>6 DEF Ui

\* A signal can end a teardown, and start the profile that waits for it.
LEMMA SignalStarts ==
  ASSUME IInv, Signal
  PROVE  StartsOnlyTarget
<1>1. ASSUME NEW s \in Session, ReceiveStatus(s) PROVE StartsOnlyTarget
  <2>1. /\ statusQ[s] \in Seq(StatusClass) /\ statusQ[s] # <<>>
        /\ StatusChanged(s, Head(statusQ[s]), <<Publish>>)
    BY <1>1, Parts DEF BusOK, Openvpn3TypeOK, ReceiveStatus
  <2>2. Head(statusQ[s]) \in StatusClass
    BY <2>1
  <2> QED BY <2>1, <2>2, QuietInputs, HandlersStart
<1>2. ASSUME NEW s \in Session, ReceiveAttention(s) PROVE StartsOnlyTarget
  <2>1. {Head(attentionQ[s])} \cap Recognised \in SUBSET Group
    BY ObjectsAssumption
  <2> QED BY <1>2, <2>1, QuietInputs, HandlersStart DEF ReceiveAttention
<1>3. CASE ReceiveRemoved
  <2>1. removedQ \in Seq(Session) /\ removedQ # <<>>
    BY <1>3, Parts DEF BusOK, Openvpn3TypeOK, ReceiveRemoved
  <2>2. Head(removedQ) \in Session
    BY <2>1
  <2> QED BY <1>3, <2>2, QuietInputs, HandlersStart DEF ReceiveRemoved
<1> QED BY <1>1, <1>2, <1>3 DEF Signal

\* Nor does a tick start anything.
LEMMA SettleStarts ==
  ASSUME IInv, Settle
  PROVE  StartsOnlyTarget
<1> DEFINE steps == Reconcile \o <<PublishIfNot(state)>>
<1>1. steps \in Seq(QuietStep)
  BY QuietInputs, Parts DEF Before, MachineTypeOK
<1>2. Returns(steps, <<>>) /\ UNCHANGED machineVars
  BY <1>1 DEF Settle, Receives, Returns
<1> QED BY <1>1, <1>2, QuietBatches, MoreToDoStarts

\* Of the worker's steps the two that carry out a choice are left out here.
LEMMA WorkStarts ==
  ASSUME IInv, Work, ~ExecSelect, ~ExecDisconnectActive
  PROVE  StartsOnlyTarget
<1>1. todo # <<>>
  BY DEF Work, Call, AdoptExisting, AdoptStatusRead, SubscribeSession,
     WatchSessionManager, TunnelCreated, ExecEnableLogForward, ExecConnect,
     ExecDisconnect, ExecOpenPrompt, ExecClosePrompt, ExecProvideInput,
     ExecNote, ExecCheckReady, ExecAskQueue, ExecReconcileTeardown,
     ExecReconcileStatus, HandleStatusRead, ExecNewTunnel, TunnelStarts,
     TunnelRefused, ExecPublish, ExecPublishIfNot, Doing
<1>2. Rest \in Seq(QuietStep) /\ (Done => ~Doing("NewTunnel")')
  BY <1>1, QuietRest
<1>3. Done /\ UNCHANGED machineVars => StartsOnlyTarget
  BY <1>2 DEF StartsOnlyTarget, machineVars
<1>4. ASSUME NEW x, Returns(<<x>>, Rest), UNCHANGED machineVars,
             x.op # "NewTunnel"
      PROVE  StartsOnlyTarget
  <2>1. Head(todo') = x
    BY <1>2, <1>4 DEF Returns
  <2> QED BY <1>4, <2>1 DEF StartsOnlyTarget, Doing, machineVars
<1>5. CASE \/ SubscribeSession \/ WatchSessionManager
           \/ ExecEnableLogForward \/ ExecConnect \/ ExecDisconnect
           \/ ExecOpenPrompt \/ ExecClosePrompt \/ ExecProvideInput
           \/ ExecNote \/ ExecPublish \/ ExecPublishIfNot
  BY <1>3, <1>5
     DEF SubscribeSession, WatchSessionManager, ExecEnableLogForward,
         ExecConnect, ExecDisconnect, ExecOpenPrompt, ExecClosePrompt,
         ExecProvideInput, ExecNote, ExecPublish, ExecPublishIfNot
<1>6. CASE AdoptExisting
  BY <1>3, <1>4, <1>6 DEF AdoptExisting, AdoptAs
<1>7. CASE AdoptStatusRead
  <2> DEFINE s == Head(todo).session
  <2>1. s \in Session /\ Head(todo).status \in StatusClass
    BY <1>1, <1>7, HeadTypes, Parts DEF AdoptStatusRead, Doing
  <2>2. <<SubscribeTo(s)>> \o Rest \in Seq(QuietStep)
    <3>1. SubscribeTo(s) \in QuietStep
      BY <2>1 DEF SubscribeTo, QuietStep, Step, StartOps
    <3> QED BY <1>2, <3>1
  <2> QED BY <1>7, <2>1, <2>2, HandlersStart DEF AdoptStatusRead
<1>8. CASE TunnelCreated
  <2>1. Head(todo).session \in Session
    BY <1>1, <1>8, HeadTypes, Parts DEF TunnelCreated, Doing
  <2> QED BY <1>2, <1>8, <2>1, HandlersStart DEF TunnelCreated
<1>9. CASE ExecNewTunnel
  BY <1>3, <1>4, <1>9 DEF ExecNewTunnel, TunnelStarts, TunnelRefused, Created
<1>10. CASE ExecCheckReady
  <2>1. Head(todo).session \in Session
    BY <1>1, <1>10, HeadTypes, Parts DEF ExecCheckReady, Doing
  <2> QED BY <1>2, <1>4, <1>10, <2>1, HandlersStart, IgnoredStarts
          DEF ExecCheckReady, AskQueue
<1>11. CASE ExecAskQueue
  <2>1. Head(todo).session \in Session
    BY <1>1, <1>11, HeadTypes, Parts DEF ExecAskQueue, Doing
  <2>2. asks[Head(todo).session] \cap Recognised \in SUBSET Group
    BY ObjectsAssumption
  <2> QED BY <1>2, <1>11, <2>1, <2>2, HandlersStart, IgnoredStarts
          DEF ExecAskQueue
<1>12. CASE ExecReconcileTeardown
  <2>1. awaitingTeardown \in Session \cup {None}
    BY Parts DEF Before, MachineTypeOK
  <2> QED BY <1>2, <1>12, <2>1, HandlersStart, IgnoredStarts
          DEF ExecReconcileTeardown
<1>13. CASE ExecReconcileStatus
  BY <1>3, <1>4, <1>13 DEF ExecReconcileStatus, StatusRead
<1>14. CASE HandleStatusRead
  <2>1. Head(todo).session \in Session /\ Head(todo).status \in StatusClass
    BY <1>1, <1>14, HeadTypes, Parts DEF HandleStatusRead, Doing
  <2> QED BY <1>2, <1>14, <2>1, HandlersStart DEF HandleStatusRead
<1> QED BY <1>5, <1>6, <1>7, <1>8, <1>9, <1>10, <1>11, <1>12, <1>13, <1>14
        DEF Work, Call

\* A choice replaces the profile that waits, or starts the chosen one.
LEMMA SelectWanted ==
  ASSUME IInv, Wanted, ExecSelect
  PROVE  Wanted'
<1> DEFINE c == Head(todo).config
<1>1. Rest \in Seq(QuietStep) /\ ProfileSelected(c, Rest) /\ intent' = c
  BY RestIsQuiet, Parts DEF ExecSelect, Doing
<1>2. pendingTarget' \in {c, None}
  BY <1>1, Parts DEF ProfileSelected, Before, Exclusive
<1>3. Doing("NewTunnel")' => Head(todo').config = c
  <2>1. CASE Returns(<<NewTunnel(c)>>, Rest)
    <3>1. Head(todo') = NewTunnel(c)
      BY <1>1, <2>1 DEF Returns
    <3> QED BY <3>1 DEF NewTunnel
  <2>2. CASE \E cs \in Seq(QuietStep) : Returns(cs, Rest)
    BY <1>1, <2>2, QuietStart
  <2>3. active # None => active \in Session
    BY Parts DEF Before, MachineTypeOK
  <2> QED BY <1>1, <2>1, <2>2, <2>3, QuietBatches DEF ProfileSelected
<1> QED BY <1>1, <1>2, <1>3 DEF Wanted, TargetIsWanted, TunnelIsWanted, Doing

\* A disconnect drops it.
LEMMA DisconnectWanted ==
  ASSUME IInv, Wanted, ExecDisconnectActive
  PROVE  Wanted'
<1>1. Rest \in Seq(QuietStep) /\ DisconnectRequested(Rest)
  BY RestIsQuiet, Parts DEF ExecDisconnectActive, Doing
<1>2. active # None => active \in Session
  BY Parts DEF Before, MachineTypeOK
<1>3. ~Doing("NewTunnel")'
  BY <1>1, <1>2, QuietBatches, QuietStart DEF DisconnectRequested
<1> QED BY <1>1, <1>3
        DEF DisconnectRequested, Wanted, TargetIsWanted, TunnelIsWanted

\* Every step of the worker preserves it, and so does the service.
LEMMA WantedNext == IInv /\ Wanted /\ [Next]_vars => Wanted'
<1> SUFFICES ASSUME IInv, Wanted, [Next]_vars PROVE Wanted'
  OBVIOUS
<1>1. CASE Ui
  <2>1. intent' = intent
    BY <1>1 DEF Ui, UiSelectProfile, UiDisconnect, UiRefresh, UiManageProfiles,
       UiDismissFailure, UiSubmitPrompt, UiCancelPrompt, Receives
  <2> QED BY <1>1, <2>1, UiStarts, ChoiceStands
<1>2. CASE Signal
  <2>1. intent' = intent
    BY <1>2 DEF Signal, ReceiveStatus, ReceiveAttention, ReceiveRemoved
  <2> QED BY <1>2, <2>1, SignalStarts, ChoiceStands
<1>3. CASE Settle
  BY <1>3, SettleStarts, ChoiceStands DEF Settle, Receives
<1>4. CASE Work /\ ~ExecSelect /\ ~ExecDisconnectActive
  <2>1. intent' = intent
    BY <1>4 DEF Work, Call, AdoptExisting, AdoptStatusRead, SubscribeSession,
       WatchSessionManager, TunnelCreated, ExecEnableLogForward, ExecConnect,
       ExecDisconnect, ExecOpenPrompt, ExecClosePrompt, ExecProvideInput,
       ExecNote, ExecCheckReady, ExecAskQueue, ExecReconcileTeardown,
       ExecReconcileStatus, HandleStatusRead, ExecNewTunnel, TunnelStarts,
       TunnelRefused, ExecPublish, ExecPublishIfNot
  <2> QED BY <1>4, <2>1, WorkStarts, ChoiceStands
<1>5. CASE Service \/ UNCHANGED vars
  BY <1>5 DEF Service, vars, machineVars, Wanted, TargetIsWanted,
     TunnelIsWanted, Doing
<1> QED BY <1>1, <1>2, <1>3, <1>4, <1>5, SelectWanted, DisconnectWanted
        DEF Next

\* At first nothing is chosen and nothing waits.
LEMMA WantedInit == Init => Wanted
BY DEF Init, MachineInit, Wanted, TargetIsWanted, TunnelIsWanted, Doing, Adopt

\* The tunnel the applet starts is for the profile the user chose last, however
\* selections, disconnects and teardowns interleave.
THEOREM TunnelWanted == Spec => []TunnelIsWanted
<1>1. Wanted => TunnelIsWanted
  BY DEF Wanted
<1> QED BY <1>1, WantedInit, WantedNext, Invariance, PTL DEF Spec

-----------------------------------------------------------------------------
(* The log of a session *)

\* The next step is on the way to forwarding s's log.
LogIsNext(s) ==
  (Doing("Created") \/ Doing("EnableLogForward")) /\ Head(todo).session = s

\* ForwardBeforeConnect needs it: a session that is there has its log
\* forwarded, or that is the very next thing to be done.  It says nothing when
\* the call itself may be refused.
LogComesFirst ==
  ~Fails("LogForward") =>
    /\ \A s \in Own : Exists(s) => s \in forwarded \/ LogIsNext(s)
    /\ dialled \cap Own \subseteq forwarded

\* A step that leaves the sessions and their logs alone, with no such call to
\* be made next, preserves it.
LEMMA LogKept ==
  ASSUME LogComesFirst, UNCHANGED <<real, dialled, forwarded>>,
         todo = <<>> \/ Head(todo).op \notin {"Created", "EnableLogForward"}
  PROVE  LogComesFirst'
BY DEF LogComesFirst, LogIsNext, Doing, Exists

\* A new session is followed until its log is forwarded.
LEMMA LogOfNew ==
  ASSUME IInv, LogComesFirst, ExecNewTunnel \/ TunnelCreated
  PROVE  LogComesFirst'
<1>1. todo # <<>>
  BY DEF ExecNewTunnel, TunnelStarts, TunnelRefused, TunnelCreated, Doing
<1>2. Rest \in Seq(QuietStep)
  BY <1>1, RestIsQuiet, Parts
<1>3. CASE ExecNewTunnel /\ UNCHANGED openvpn3Vars
  BY <1>3, LogKept DEF ExecNewTunnel, TunnelStarts, TunnelRefused, Doing,
     openvpn3Vars, serviceVars
<1>4. ASSUME NEW t \in Session, NEW requests \in SUBSET Group,
             Doing("NewTunnel"), StartTunnel(t, requests),
             Returns(<<Created(t)>>, Rest)
      PROVE  LogComesFirst'
  <2>1. /\ real' = [real EXCEPT ![t] = NoChange]
        /\ UNCHANGED <<dialled, forwarded>>
    BY <1>4 DEF StartTunnel
  <2>2. LogIsNext(t)'
    <3>1. todo' # <<>> /\ Head(todo') = Created(t)
      BY <1>2, <1>4 DEF Returns
    <3> QED BY <3>1 DEF LogIsNext, Doing, Created
  <2>3. \A s \in Own : Exists(s)' => Exists(s) \/ s = t
    BY <2>1, Parts, ObjectsAssumption DEF Exists, BusOK, Openvpn3TypeOK
  <2> QED BY <1>4, <2>1, <2>2, <2>3 DEF LogComesFirst, LogIsNext, Doing
<1>5. CASE TunnelCreated
  <2> PICK t : t = Head(todo).session
    OBVIOUS
  <2>1. /\ Doing("Created") /\ UNCHANGED <<real, dialled, forwarded>>
        /\ Returns(StartUp(t), Rest)
    BY <1>5 DEF TunnelCreated, SessionCreated, Subscribe, serviceVars
  <2>2. LogIsNext(t)'
    <3>1. todo' # <<>> /\ Head(todo') = EnableLogForward(t)
      BY <1>2, <2>1 DEF Returns, StartUp
    <3> QED BY <3>1 DEF LogIsNext, Doing, EnableLogForward
  <2> QED BY <2>1, <2>2 DEF LogComesFirst, LogIsNext, Exists
<1> QED BY <1>3, <1>4, <1>5 DEF ExecNewTunnel, TunnelStarts, TunnelRefused

\* The log is forwarded if the session is still there, and by then it may be
\* dialled.
LEMMA LogThenDial ==
  ASSUME LogComesFirst, ExecEnableLogForward \/ ExecConnect
  PROVE  LogComesFirst'
<1>1. CASE ExecEnableLogForward
  BY <1>1 DEF ExecEnableLogForward, ForwardLog, openvpn3Vars, serviceVars,
     LogComesFirst, LogIsNext, Doing, Exists
<1>2. CASE ExecConnect
  <2>1. CASE UNCHANGED openvpn3Vars
    BY <1>2, <2>1, LogKept DEF ExecConnect, Doing, openvpn3Vars, serviceVars
  <2>2. CASE Exists(Head(todo).session) /\ Dial(Head(todo).session)
    BY <1>2, <2>2 DEF ExecConnect, Dial, LogComesFirst, LogIsNext, Doing, Exists
  <2> QED BY <1>2, <2>1, <2>2 DEF ExecConnect
<1> QED BY <1>1, <1>2

\* A session that goes takes its log along, and no session of the applet's own
\* comes from elsewhere.
LEMMA LogAndService ==
  ASSUME IInv, LogComesFirst, Service
  PROVE  LogComesFirst'
<1>1. PICK s \in Session :
        \/ \E x \in Reports : ReportStatus(s, x)
        \/ \E g \in Group : RequireAttention(s, g)
        \/ RemoveSession(s)
        \/ StartFromTerminal(s)
  BY DEF Service, Openvpn3Next
<1>2. todo' = todo /\ real \in [Session -> StatusClass \cup {"Unborn", "Gone"}]
  BY Parts DEF Service, BusOK, Openvpn3TypeOK
<1>3. \A t : LogIsNext(t)' = LogIsNext(t)
  BY <1>2 DEF LogIsNext, Doing
<1>4. ASSUME NEW x \in Reports, ReportStatus(s, x)
      PROVE  LogComesFirst'
  <2>1. \A t \in Own : Exists(t)' => Exists(t)
    BY <1>2, <1>4, ObjectsAssumption DEF ReportStatus, Running, Exists
  <2> QED BY <1>3, <1>4, <2>1 DEF ReportStatus, LogComesFirst
<1>5. ASSUME NEW g \in Group, RequireAttention(s, g)
      PROVE  LogComesFirst'
  BY <1>3, <1>5 DEF RequireAttention, LogComesFirst, Exists
<1>6. CASE RemoveSession(s)
  <2>1. \A t \in Own : Exists(t)' => Exists(t) /\ t # s
    BY <1>2, <1>6, ObjectsAssumption DEF RemoveSession, Exists
  <2> QED BY <1>3, <1>6, <2>1 DEF RemoveSession, LogComesFirst
<1>7. CASE StartFromTerminal(s)
  <2>1. \A t \in Own : Exists(t)' => Exists(t)
    BY <1>2, <1>7, ObjectsAssumption DEF StartFromTerminal, Exists
  <2> QED BY <1>3, <1>7, <2>1 DEF StartFromTerminal, LogComesFirst
<1> QED BY <1>1, <1>4, <1>5, <1>6, <1>7

\* Every step preserves it.
LEMMA LogNext == IInv /\ LogComesFirst /\ [Next]_vars => LogComesFirst'
<1> SUFFICES ASSUME IInv, LogComesFirst, [Next]_vars PROVE LogComesFirst'
  OBVIOUS
<1>1. CASE Ui \/ Signal \/ Settle
  <2>1. todo = <<>> /\ UNCHANGED <<real, dialled, forwarded>>
    BY <1>1 DEF Ui, UiSelectProfile, UiDisconnect, UiRefresh, UiDismissFailure,
       UiManageProfiles, UiSubmitPrompt, UiCancelPrompt, Receives, Signal,
       ReceiveStatus, ReceiveAttention, ReceiveRemoved, Settle, Idle,
       openvpn3Vars, serviceVars
  <2> QED BY <2>1, LogKept
<1>2. CASE \/ AdoptExisting \/ AdoptStatusRead \/ SubscribeSession
           \/ WatchSessionManager \/ ExecDisconnect \/ ExecOpenPrompt
           \/ ExecClosePrompt \/ ExecProvideInput \/ ExecNote \/ ExecCheckReady
           \/ ExecAskQueue \/ ExecReconcileTeardown \/ ExecReconcileStatus
           \/ HandleStatusRead \/ ExecSelect \/ ExecDisconnectActive
           \/ ExecPublish \/ ExecPublishIfNot
  <2>1. /\ UNCHANGED <<real, dialled, forwarded>>
        /\ Head(todo).op \notin {"Created", "EnableLogForward"}
    BY <1>2 DEF AdoptExisting, AdoptStatusRead, SubscribeSession,
       WatchSessionManager, ExecDisconnect, ExecOpenPrompt, ExecClosePrompt,
       ExecProvideInput, ExecNote, ExecCheckReady, ExecAskQueue,
       ExecReconcileTeardown, ExecReconcileStatus, HandleStatusRead,
       ExecSelect, ExecDisconnectActive, ExecPublish, ExecPublishIfNot,
       Subscribe, Watch, Stop, Answer, openvpn3Vars, serviceVars, Doing
  <2> QED BY <2>1, LogKept
<1>3. CASE UNCHANGED vars
  BY <1>3 DEF vars, openvpn3Vars, serviceVars, LogComesFirst, LogIsNext, Doing,
     Exists
<1> QED BY <1>1, <1>2, <1>3, LogOfNew, LogThenDial, LogAndService
        DEF Next, Work, Call

\* At first none of the applet's sessions is there.
LEMMA LogInit == Init => LogComesFirst
BY ObjectsAssumption DEF Init, Openvpn3Init, LogComesFirst, Exists

\* KTD4: unless the call itself is refused, a session the applet started has
\* its log forwarded before it is dialled.
THEOREM LogBeforeConnect == Spec => []ForwardBeforeConnect
<1>1. LogComesFirst => ForwardBeforeConnect
  BY DEF LogComesFirst, ForwardBeforeConnect, Fails
<1> QED BY <1>1, LogInit, LogNext, Invariance, PTL DEF Spec
=============================================================================
