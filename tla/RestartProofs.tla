---------------------------- MODULE RestartProofs ----------------------------
(***************************************************************************)
(* What survives the death of the applet, at whatever step it dies and     *)
(* however often, for any number of sessions.                              *)
(*                                                                         *)
(* The worker's own invariant holds across restarts, and what Keeps says   *)
(* of its steps holds of them here: only a crash lets go of a session, and *)
(* the sessions there are then stand to be adopted.  That the sessions not *)
(* passed over are one at most follows from there, except while no process *)
(* has looked at them yet, when it follows from what held before the crash.*)
(***************************************************************************)
EXTENDS DisplayProofs, Restart

-----------------------------------------------------------------------------
(* The worker's invariant across restarts *)

\* A process that is down knows nothing.
DownIsEmpty == ~up => MachineInit /\ todo = <<>>

RInv == IInv /\ FreshAdopts /\ DownIsEmpty

\* The session that has been found and is about to be taken in hand.
Finds == IF Doing("AdoptAs") THEN {Head(todo).session} ELSE {}

\* A worker that knows nothing and has nothing to do has nothing in hand.
LEMMA EmptyHands ==
  ASSUME MachineInit, ~Doing("Created"), ~Doing("AdoptAs")
  PROVE  Held = {} /\ Finds = {}
BY DEF MachineInit, Held, Hands, Newborn, Finds

\* Before the sessions are looked at it knows nothing.
LEMMA BeforeAdoption ==
  ASSUME IInv, FreshAdopts, Doing("Adopt") \/ Doing("AdoptAs")
  PROVE  MachineInit /\ Held = {}
<1>1. todo # <<>> /\ 1 \in 1..Len(todo) /\ Head(todo) = todo[1]
  BY Parts DEF Doing
<1>2. MachineInit
  BY <1>1, Parts
     DEF FreshAdopts, AdoptOps, Doing, MachineInit, Before, MachineTypeOK
<1> QED BY <1>2 DEF MachineInit, Held, Hands, Newborn, Doing

\* A crash leaves a worker that knows nothing.
LEMMA CrashLemma ==
  ASSUME RInv, Crash
  PROVE  /\ RInv' /\ Held' = {} /\ Finds' = {}
         /\ UNCHANGED <<real, missed>>
<1>1. MachineInit' /\ todo' = <<>> /\ UNCHANGED <<real, missed>>
  BY DEF Crash, MachineInit, serviceVars
<1>2. After
  <2>1. todo' \in Seq(Step) /\ StartsAlone' /\ ReadsAreReal'
    BY <1>1, ShortBatches, QuietBatch DEF StartsAlone, ReadsAreReal
  <2> QED BY <1>1, <2>1
          DEF After, MachineInit, MachineTypeOK, Exclusive, ConnectionState
<1>3. BusOK'
  <2>1. UNCHANGED <<real, asks, dialled, told, forwarded>>
    BY DEF Crash, serviceVars
  <2>2. /\ <<>> \in Seq(StatusClass) /\ <<>> \in Seq(Group)
        /\ <<>> \in Seq(Session)
    OBVIOUS
  <2>3. /\ statusQ' \in [Session -> Seq(StatusClass)]
        /\ attentionQ' \in [Session -> Seq(Group)]
        /\ removedQ' \in Seq(Session)
        /\ subscribed' \subseteq Session /\ watching' \in BOOLEAN
    BY <2>2 DEF Crash
  <2>4. Openvpn3TypeOK'
    BY <2>1, <2>3, Parts DEF RInv, BusOK, Openvpn3TypeOK
  <2>5. EndsAreReal'
    BY DEF Crash, EndsAreReal
  <2> QED BY <2>4, <2>5 DEF BusOK
<1>4. PanelOK'
  BY DEF Crash, PanelOK, Prompt, ConnectionState
<1>5. FreshAdopts' /\ DownIsEmpty'
  BY <1>1 DEF FreshAdopts, DownIsEmpty
<1>6. Held' = {} /\ Finds' = {}
  BY <1>1 DEF MachineInit, Held, Hands, Newborn, Finds, Doing
<1> QED BY <1>1, <1>2, <1>3, <1>4, <1>5, <1>6, Parts DEF RInv

\* So does the start of the next process.
LEMMA LaunchLemma ==
  ASSUME RInv, Launch
  PROVE  /\ RInv' /\ Held' = {} /\ Finds' = {}
         /\ up' /\ Doing("Adopt")'
         /\ UNCHANGED <<real, missed, found>>
<1>1. /\ MachineInit' /\ todo' = <<Adopt, WatchManager, Publish>> /\ up'
      /\ UNCHANGED openvpn3Vars /\ PanelOK'
  BY Parts DEF Launch, RInv, DownIsEmpty, MachineInit, machineVars, PanelOK
<1>2. todo' \in Seq(QuietStep)
  <2>1. Adopt \in QuietStep /\ WatchManager \in QuietStep /\ Publish \in QuietStep
    BY DEF Adopt, WatchManager, Publish, QuietStep, Step, StartOps
  <2> QED BY <1>1, <2>1, ShortBatches
<1>3. todo' \in Seq(Step) /\ StartsAlone' /\ ReadsAreReal'
  BY <1>2 DEF QuietStep, StartsAlone, ReadsAreReal
<1>4. After
  BY <1>1, <1>3
     DEF After, MachineInit, MachineTypeOK, Exclusive, ConnectionState
<1>5. BusOK' /\ UNCHANGED real
  BY <1>1, Parts, BusStill DEF RInv
<1>6. Head(todo') = Adopt /\ todo' # <<>>
  BY <1>1
<1>7. Doing("Adopt")' /\ ~Doing("AdoptAs")' /\ ~Doing("Created")'
  BY <1>6 DEF Doing, Adopt
<1>8. FreshAdopts'
  BY <1>1
     DEF FreshAdopts, AdoptOps, MachineInit, Adopt, WatchManager, Publish
<1>9. Held' = {} /\ Finds' = {}
  BY <1>1, <1>7 DEF MachineInit, Held, Hands, Newborn, Finds
<1> QED BY <1>1, <1>4, <1>5, <1>7, <1>8, <1>9, Parts
        DEF RInv, DownIsEmpty, Launch, historyVars

\* A step of a running process that has looked for sessions, a step of the
\* service, or none.
WorkerStep ==
  /\ UNCHANGED <<up, crashes, historyVars>>
  /\ \/ up /\ (Ui \/ Signal \/ Settle \/ Work) /\ ~Doing("Adopt")
     \/ Service
     \/ UNCHANGED vars

\* The search for sessions.
Search == up /\ Adopts /\ UNCHANGED <<up, crashes>>

\* Those, the crash and the start of the next process are all the steps.
LEMMA RestartSteps ==
  ASSUME [RestartNext]_restartVars
  PROVE  WorkerStep \/ Search \/ Crash \/ Launch
BY DEF RestartNext, Process, WorkerStep, Search, restartVars

\* The worker's steps keep its invariant, and what it holds.
LEMMA WorkerStepLemma ==
  ASSUME RInv, WorkerStep \/ Search
  PROVE  RInv' /\ Keeps
<1>1. [Next]_vars
  BY DEF WorkerStep, Search, Adopts, Next, Work, Call
<1>2. IInv' /\ Keeps /\ FreshAdopts'
  BY <1>1, NextLemma, FreshNext DEF RInv
<1>3. DownIsEmpty'
  BY DEF RInv, DownIsEmpty, WorkerStep, Search, Service, vars, MachineInit,
         machineVars
<1> QED BY <1>2, <1>3 DEF RInv

\* Every step preserves the invariant.
LEMMA RestartNextLemma == RInv /\ [RestartNext]_restartVars => RInv'
BY RestartSteps, WorkerStepLemma, CrashLemma, LaunchLemma

\* It holds when the first process starts.
LEMMA RestartInitLemma == RestartInit => RInv
BY InitLemma, FreshInit DEF RestartInit, RInv, DownIsEmpty

\* The search finds one session, if it finds any, and its status is looked at
\* next.
LEMMA SearchFinds ==
  ASSUME RInv, Search
  PROVE  /\ MachineInit' /\ ~Doing("Adopt")' /\ ~Doing("Created")'
         /\ UNCHANGED openvpn3Vars
         /\ found' \subseteq Finds' /\ Finds' \subseteq found'
         /\ \A s \in found' : s \in Session /\ Exists(s)
         /\ missed' = {s \in Session : Exists(s)} \ found'
<1> USE DEF RInv
<1>1. /\ AdoptExisting /\ Doing("Adopt") /\ UNCHANGED <<machineVars, openvpn3Vars>>
      /\ found' = {s \in Session : AdoptAs(s, real[s]) \in Range(todo')}
      /\ missed' = {s \in Session : Exists(s)} \ found'
  BY DEF Search, Adopts, AdoptExisting
<1>2. MachineInit'
  BY <1>1, BeforeAdoption DEF MachineInit, machineVars
<1>3. todo # <<>> /\ todo \in Seq(Step)
  BY <1>1, Parts DEF Doing
<1>4. Rest \in Seq(Unadopting)
  BY <1>3, RestAdoptsNone
<1>5. ASSUME NEW s \in Session, Exists(s), Returns(<<AdoptAs(s, real[s])>>, Rest)
      PROVE  /\ Head(todo').op = "AdoptAs" /\ Head(todo').session = s
             /\ todo' # <<>> /\ found' = {s}
  <2>1. /\ todo' # <<>> /\ Head(todo') = AdoptAs(s, real[s])
        /\ todo'[1] = AdoptAs(s, real[s])
        /\ \A i \in 1..Len(todo') : i # 1 => todo'[i] \in Unadopting
    BY <1>1, <1>5, FoundFirst
  <2>2. todo' \in Seq(Step)
    BY WorkerStepLemma DEF IInv, TypeOK
  <2>3. DOMAIN todo' = 1..Len(todo') /\ 1 \in DOMAIN todo'
    BY <2>1, <2>2
  <2>4. \A t \in Session, i \in DOMAIN todo' :
          todo'[i] = AdoptAs(t, real[t]) => t = s
    <3> TAKE t \in Session, i \in DOMAIN todo'
    <3>1. i # 1 => todo'[i].op \notin AdoptOps
      BY <2>1, <2>3 DEF Unadopting
    <3> QED BY <2>1, <3>1 DEF AdoptAs, AdoptOps
  <2>5. AdoptAs(s, real[s]) \in Range(todo')
    BY <2>1, <2>3 DEF Range
  <2>6. found' = {s}
    BY <1>1, <2>4, <2>5 DEF Range
  <2> QED BY <2>1, <2>6 DEF AdoptAs
<1>6. CASE todo' = Rest
  <2>1. \A i \in 1..Len(todo') : todo'[i].op \notin AdoptOps
    BY <1>4, <1>6 DEF Unadopting
  <2>2. DOMAIN todo' = 1..Len(todo')
    BY <1>4, <1>6
  <2>3. found' = {}
    BY <1>1, <2>1, <2>2 DEF Range, AdoptAs, AdoptOps
  <2>4. todo' # <<>> => Head(todo') = todo'[1] /\ 1 \in 1..Len(todo')
    BY <1>4, <1>6
  <2>5. ~Doing("Adopt")' /\ ~Doing("AdoptAs")'
    BY <2>1, <2>4 DEF Doing, AdoptOps
  <2>6. ~Doing("Created")'
    <3>1. Rest \in Seq(QuietStep)
      BY <1>3, Parts, RestIsQuiet
    <3>2. todo' # <<>> => Head(todo') \in QuietStep
      BY <1>6, <3>1
    <3> QED BY <3>2 DEF Doing, QuietStep, StartOps
  <2> QED BY <1>1, <1>2, <2>3, <2>5, <2>6 DEF Finds
<1>7. CASE todo' # Rest
  <2>1. PICK s \in Session : Exists(s) /\ Returns(<<AdoptAs(s, real[s])>>, Rest)
    BY <1>1, <1>7 DEF AdoptExisting, Done
  <2> QED BY <1>1, <1>2, <1>5, <2>1 DEF Finds, Doing
<1> QED BY <1>6, <1>7

\* What is about to be taken in hand is, and nothing else is to be.
LEMMA FindsTaken ==
  ASSUME RInv, WorkerStep
  PROVE  \A s \in Finds : s \in Held' \cup Finds'
<1> USE DEF RInv
<1> SUFFICES ASSUME Doing("AdoptAs")
             PROVE  Head(todo).session \in Held' \cup Finds'
  BY DEF Finds
<1>1. CASE Service \/ UNCHANGED vars
  BY <1>1 DEF Service, vars, Finds, Doing
<1>2. CASE Ui \/ Signal \/ Settle \/ Work
  <2>1. ~Idle
    BY DEF Idle, Doing
  <2>2. Work
    BY <1>2, <2>1
       DEF Ui, Signal, Settle, Receives, UiSelectProfile, UiDisconnect,
           UiRefresh, UiDismissFailure, UiManageProfiles, UiSubmitPrompt,
           UiCancelPrompt, ReceiveStatus, ReceiveAttention, ReceiveRemoved
  <2>3. AdoptStatusRead
    BY <2>2
       DEF Work, Call, AdoptExisting, SubscribeSession,
           WatchSessionManager, TunnelCreated, ExecEnableLogForward,
           ExecConnect, ExecDisconnect, ExecOpenPrompt, ExecClosePrompt,
           ExecProvideInput, ExecNote, ExecCheckReady, ExecAskQueue,
           ExecReconcileTeardown, ExecReconcileStatus, HandleStatusRead,
           ExecNewTunnel, TunnelStarts, TunnelRefused, ExecSelect,
           ExecDisconnectActive, ExecPublish, ExecPublishIfNot, Doing
  <2>4. active = None /\ awaitingTeardown = None
    BY BeforeAdoption DEF MachineInit
  <2>5. active' = Head(todo).session
    BY <2>3, <2>4 DEF AdoptStatusRead, ExternalSessionSeen
  <2>6. Head(todo).session \in Session
    BY HeadTypes, Parts DEF Doing
  <2> QED BY <2>5, <2>6, ObjectsAssumption DEF Held, Hands
<1> QED BY <1>1, <1>2 DEF WorkerStep

-----------------------------------------------------------------------------
(* No session is lost *)

\* NoneIsLost, by what is in hand.
LEMMA NotLost ==
  NoneIsLost <=> \A s \in Own \ missed :
                   Running(s) => s \in Held \cup ToBeAdopted
BY ObjectsAssumption DEF NoneIsLost, Held, Hands

\* Every step preserves it.
LEMMA NoneIsLostNext ==
  RInv /\ NoneIsLost /\ [RestartNext]_restartVars => NoneIsLost'
<1> SUFFICES ASSUME RInv, NoneIsLost, [RestartNext]_restartVars,
                    NEW s \in Own, s \notin missed', Running(s)'
             PROVE  s \in {active', awaitingTeardown'} \cup Newborn' \cup ToBeAdopted'
  BY DEF NoneIsLost
<1>1. s \in Session
  BY ObjectsAssumption
<1>2. CASE WorkerStep
  <2>1. Keeps
    BY <1>2, WorkerStepLemma
  <2>2. CASE Running(s)
    <3>1. s \in Held \cup ToBeAdopted
      BY <1>2, <2>2, NotLost DEF WorkerStep, historyVars
    <3>2. CASE ~up \/ Doing("Adopt")
      BY <1>1, <1>2, <3>2
         DEF WorkerStep, Service, vars, ToBeAdopted, Doing
    <3>3. CASE up /\ ~Doing("Adopt")
      <4>1. s \in Held \cup Finds
        BY <3>1, <3>3 DEF ToBeAdopted, Finds
      <4>2. s \in Held' \cup Finds'
        BY <1>2, <2>1, <4>1, FindsTaken DEF Keeps
      <4>3. Finds' \subseteq ToBeAdopted'
        <5>1. Doing("AdoptAs")' => ~Doing("Adopt")'
          BY DEF Doing
        <5> QED BY <1>2, <3>3, <5>1 DEF Finds, ToBeAdopted, WorkerStep
      <4> QED BY <4>2, <4>3 DEF Held, Hands
    <3> QED BY <3>2, <3>3
  <2>3. CASE ~Running(s)
    BY <2>1, <2>3 DEF Keeps, Held, Hands
  <2> QED BY <2>2, <2>3
<1>3. CASE Search
  <2>1. Exists(s)
    BY <1>3, SearchFinds
       DEF Running, Exists, openvpn3Vars, serviceVars
  <2>2. s \in Finds'
    BY <1>1, <1>3, <2>1, SearchFinds
  <2> QED BY <1>3, <2>2, SearchFinds DEF Finds, ToBeAdopted, Search
<1>4. CASE Crash
  BY <1>1, <1>4 DEF Crash, ToBeAdopted
<1>5. CASE Launch
  BY <1>1, <1>5, LaunchLemma DEF ToBeAdopted
<1> QED BY <1>2, <1>3, <1>4, <1>5, RestartSteps

\* The first process starts beside none of the applet's sessions.
LEMMA NoneIsLostInit == RestartInit => NoneIsLost
BY DEF RestartInit, Init, Openvpn3Init, NoneIsLost, Running, Exists

\* The worker's invariant holds at every step of every process.
THEOREM RestartInvariance == RestartSpec => []RInv
<1> QED BY RestartInitLemma, RestartNextLemma, PTL DEF RestartSpec

\* A session of the applet's own is not lost with the process that started it,
\* at whatever step that died: the next one has it in hand, unless another
\* session was listed before it.
THEOREM NoneLostByCrash == RestartSpec => []NoneIsLost
<1> QED BY NoneIsLostInit, NoneIsLostNext, RestartInvariance, PTL
        DEF RestartSpec

-----------------------------------------------------------------------------
(* One session at a time *)

\* Once the sessions have been looked at, one is in hand or about to be.
LEMMA OneKnown ==
  ASSUME RInv, up, ~Doing("Adopt"), NoneIsLost
  PROVE  OneLiveAcrossRestarts
<1> SUFFICES ASSUME NEW s \in Own \ missed, NEW t \in Own \ missed,
                    Running(s), Running(t)
             PROVE  s = t
  BY DEF OneLiveAcrossRestarts
<1>1. s \in Held \cup Finds /\ t \in Held \cup Finds
  BY NotLost DEF ToBeAdopted, Finds
<1>2. CASE Doing("AdoptAs")
  BY <1>1, <1>2, BeforeAdoption DEF RInv, Finds
<1>3. CASE ~Doing("AdoptAs")
  BY <1>1, <1>3, OneHand DEF RInv, Finds
<1> QED BY <1>2, <1>3

\* While no process has looked at them none of the applet's starts.
LEMMA NoneStarts ==
  ASSUME RInv, [RestartNext]_restartVars, ~up' \/ Doing("Adopt")'
  PROVE  missed' = missed /\ \A s \in Own : Running(s)' => Running(s)
<1>1. CASE WorkerStep
  <2>1. Keeps /\ RInv'
    BY <1>1, WorkerStepLemma
  <2>2. Held' = {}
    <3>1. CASE ~up'
      BY <2>1, <3>1
         DEF RInv, DownIsEmpty, MachineInit, Held, Hands, Newborn, Doing
    <3>2. CASE Doing("Adopt")'
      <4>1. (todo # <<>> /\ 1 \in 1..Len(todo) /\ Head(todo) = todo[1])'
        BY <2>1, <3>2 DEF RInv, IInv, TypeOK, Doing
      <4> QED BY <2>1, <3>2, <4>1
              DEF RInv, FreshAdopts, AdoptOps, Held, Hands, Newborn, Doing
    <3> QED BY <3>1, <3>2
  <2> QED BY <1>1, <2>1, <2>2 DEF Keeps, WorkerStep, historyVars
<1>2. CASE Search
  BY <1>2, SearchFinds DEF Search
<1>3. CASE Crash \/ Launch
  BY <1>3, CrashLemma, LaunchLemma DEF Running, Exists
<1> QED BY <1>1, <1>2, <1>3, RestartSteps

\* AE1 across restarts: of the sessions not passed over, one runs at a time.
THEOREM OneLiveEvenSo == RestartSpec => []OneLiveAcrossRestarts
<1>1. RestartInit => OneLiveAcrossRestarts
  BY DEF RestartInit, Init, Openvpn3Init, OneLiveAcrossRestarts, Running, Exists
<1>2. RInv /\ up /\ ~Doing("Adopt") /\ NoneIsLost => OneLiveAcrossRestarts
  BY OneKnown
<1>3. /\ RInv /\ OneLiveAcrossRestarts /\ [RestartNext]_restartVars
      /\ ~up' \/ Doing("Adopt")'
      => OneLiveAcrossRestarts'
  BY NoneStarts DEF OneLiveAcrossRestarts
<1> QED BY <1>1, <1>2, <1>3, RestartInvariance, NoneLostByCrash, PTL
        DEF RestartSpec

-----------------------------------------------------------------------------
(* What was found *)

\* FoundStopsFirst and GoneIsSignalled need it: a session that was found is in
\* hand or about to be until it has stopped, and the one about to be was found.
FoundInHand ==
  /\ \A s \in found : s \in Session /\ real[s] # "Unborn"
                      /\ (Running(s) => s \in Held \cup Finds)
  /\ Finds \subseteq found

\* Every step preserves it.
LEMMA FoundNext ==
  RInv /\ FoundInHand /\ [RestartNext]_restartVars => FoundInHand'
<1> SUFFICES ASSUME RInv, FoundInHand, [RestartNext]_restartVars
             PROVE  FoundInHand'
  OBVIOUS
<1>1. CASE WorkerStep
  <2>1. Keeps /\ found' = found
    BY <1>1, WorkerStepLemma DEF WorkerStep, historyVars
  <2>2. ASSUME NEW s \in found
        PROVE  /\ s \in Session /\ real'[s] # "Unborn"
               /\ Running(s)' => s \in Held' \cup Finds'
    <3>1. s \in Session /\ real'[s] # "Unborn" /\ (Running(s)' => Running(s))
      BY <2>1 DEF FoundInHand, Keeps, Ages
    <3>2. Running(s) => s \in Held \cup Finds
      BY DEF FoundInHand
    <3> QED BY <1>1, <2>1, <3>1, <3>2, FindsTaken DEF Keeps
  <2>3. Finds' \subseteq Finds
    <3>1. CASE todo' \in Seq(Unadopting)
      <4>1. todo' # <<>> => Head(todo') \in Unadopting
        BY <3>1
      <4> QED BY <4>1 DEF Finds, Doing, Unadopting, AdoptOps
    <3>2. CASE Service \/ UNCHANGED vars
      BY <3>2 DEF Service, vars, Finds, Doing
    <3> QED BY <1>1, <3>1, <3>2, AdoptsNoMore DEF WorkerStep, RInv, FindsOne
  <2> QED BY <2>1, <2>2, <2>3 DEF FoundInHand
<1>2. CASE Search
  BY <1>2, SearchFinds
     DEF FoundInHand, Exists, openvpn3Vars, serviceVars
<1>3. CASE Crash
  BY <1>3, CrashLemma DEF FoundInHand, Crash
<1>4. CASE Launch
  <2>1. Held = {} /\ Finds = {}
    BY <1>4
       DEF RInv, DownIsEmpty, Launch, MachineInit, Held, Hands, Newborn,
           Finds, Doing
  <2> QED BY <1>4, <2>1, LaunchLemma DEF FoundInHand, Running, Exists
<1> QED BY <1>1, <1>2, <1>3, <1>4, RestartSteps

\* The first process has found nothing yet.
LEMMA FoundInit == RestartInit => FoundInHand
BY DEF RestartInit, Init, FoundInHand, Finds, Doing, Adopt

\* What was found is in hand until it has stopped.
LEMMA FoundAlways == RestartSpec => []FoundInHand
BY FoundInit, FoundNext, RestartInvariance, PTL DEF RestartSpec

\* R6: a session that was found running, from a terminal or from the applet's
\* last process, is gone before the tunnel the user chose instead is started.
THEOREM FoundIsStopped == RestartSpec => []FoundStopsFirst
<1>1. RInv /\ FoundInHand => FoundStopsFirst
  <2> SUFFICES ASSUME RInv, FoundInHand, Doing("NewTunnel"), NEW s \in found
               PROVE  ~Running(s)
    BY DEF FoundStopsFirst
  <2>1. 1 \in 1..Len(todo) /\ Head(todo) = todo[1]
    BY Parts DEF RInv, Doing
  <2>2. active = None /\ awaitingTeardown = None
    BY <2>1, Parts DEF RInv, StartsAlone, StartOps, Doing
  <2>3. Held = {} /\ Finds = {}
    BY <2>2 DEF Held, Hands, Newborn, Finds, Doing
  <2> QED BY <2>3 DEF FoundInHand
<1> QED BY <1>1, RestartInvariance, FoundAlways, PTL
-----------------------------------------------------------------------------
(* What goes away by itself *)

\* The steps that come before the subscription to removals.
EarlyOps == {"Adopt", "AdoptAs", "SubscribeTo", "ClosePrompt", "Note"}

\* GoneIsSignalled needs these two.  Until the worker listens to removals it
\* displays only what it has found; and what is displayed, or just created,
\* has not gone unsignalled.
Listens ==
  up /\ ~watching =>
    /\ active \in found \cup {None}
    /\ \E k \in 1..Len(todo) :
         /\ todo[k].op = "WatchManager"
         /\ \A j \in 1..k - 1 : todo[j].op \in EarlyOps

Signalled ==
  \A s \in Own :
    s \in {active} \cup Newborn /\ ~Exists(s) => s \in found \cup Range(removedQ)

\* What a batch of early steps is put in front of.
Early == {x \in Step : x.op \in EarlyOps}

\* What it displays it has displayed, created or found, or it is there.
LEMMA WorkShows ==
  ASSUME RInv, Work, ~Doing("Adopt"),
         NEW s \in Session, s \in {active'} \cup Newborn'
  PROVE  s \in {active} \cup Newborn \cup Finds \/ Exists(s)'
<1> USE DEF RInv
<1>1. todo # <<>> /\ todo \in Seq(Step) /\ s # None
  BY WorkTurns, Parts, ObjectsAssumption
<1>2. CASE TunnelStarts
  <2>1. PICK t \in Session, requests \in SUBSET Group :
          StartTunnel(t, requests) /\ Returns(<<Created(t)>>, Rest)
    BY <1>2 DEF TunnelStarts
  <2>2. Rest \in Seq(Step)
    BY <1>1 DEF Rest
  <2>3. todo' # <<>> /\ Head(todo') = Created(t)
    BY <2>1, <2>2 DEF Returns
  <2>4. Newborn' = {t} /\ active' = active
    BY <1>2, <2>3 DEF Newborn, Doing, Created, TunnelStarts, machineVars
  <2>5. Exists(t)'
    BY <2>1, Parts
       DEF StartTunnel, Exists, NoChange, BusOK, Openvpn3TypeOK
  <2> QED BY <2>4, <2>5
<1>3. CASE Turn(Rest)
  <2>1. s = active'
    BY <1>3 DEF Turn, Newborn
  <2>2. CASE Head(todo).op = "AdoptAs"
    <3>1. AdoptStatusRead
      BY <2>2
         DEF Work, Call, AdoptExisting, SubscribeSession,
             WatchSessionManager, TunnelCreated, ExecEnableLogForward,
             ExecConnect, ExecDisconnect, ExecOpenPrompt, ExecClosePrompt,
             ExecProvideInput, ExecNote, ExecCheckReady, ExecAskQueue,
             ExecReconcileTeardown, ExecReconcileStatus, HandleStatusRead,
             ExecNewTunnel, TunnelStarts, TunnelRefused, ExecSelect,
             ExecDisconnectActive, ExecPublish, ExecPublishIfNot, Doing
    <3> QED BY <1>1, <2>1, <2>2, <3>1
            DEF AdoptStatusRead, ExternalSessionSeen, Ignored, machineVars,
                Finds, Doing
  <2>3. CASE Head(todo).op = "Created"
    <3>1. TunnelCreated
      BY <2>3
         DEF Work, Call, AdoptExisting, AdoptStatusRead, SubscribeSession,
             WatchSessionManager, ExecEnableLogForward,
             ExecConnect, ExecDisconnect, ExecOpenPrompt, ExecClosePrompt,
             ExecProvideInput, ExecNote, ExecCheckReady, ExecAskQueue,
             ExecReconcileTeardown, ExecReconcileStatus, HandleStatusRead,
             ExecNewTunnel, TunnelStarts, TunnelRefused, ExecSelect,
             ExecDisconnectActive, ExecPublish, ExecPublishIfNot, Doing
    <3> QED BY <1>1, <2>1, <2>3, <3>1
            DEF TunnelCreated, SessionCreated, Newborn, Doing
  <2>4. CASE Head(todo).op = "Select"
    <3>1. ExecSelect
      BY <2>4
         DEF Work, Call, AdoptExisting, AdoptStatusRead, SubscribeSession,
             WatchSessionManager, TunnelCreated, ExecEnableLogForward,
             ExecConnect, ExecDisconnect, ExecOpenPrompt, ExecClosePrompt,
             ExecProvideInput, ExecNote, ExecCheckReady, ExecAskQueue,
             ExecReconcileTeardown, ExecReconcileStatus, HandleStatusRead,
             ExecNewTunnel, TunnelStarts, TunnelRefused,
             ExecDisconnectActive, ExecPublish, ExecPublishIfNot, Doing
    <3> QED BY <1>1, <2>1, <3>1 DEF ExecSelect, ProfileSelected
  <2>5. CASE Head(todo).op \notin {"AdoptAs", "Created", "Select"}
    BY <1>1, <2>1, <2>5, WorkTurns DEF Steady, TakesNone
  <2> QED BY <2>2, <2>3, <2>4, <2>5
<1> QED BY <1>2, <1>3, WorkTurns DEF FindsOne

\* An input leaves nothing new displayed, and takes a removal off the queue
\* only with the session it is about.
LEMMA InputShows ==
  ASSUME RInv, Ui \/ Signal \/ Settle,
         NEW s \in Session, s \in {active'} \cup Newborn'
  PROVE  /\ s = active /\ UNCHANGED real
         /\ s \in Range(removedQ) => s \in Range(removedQ')
<1> USE DEF RInv
<1>1. s # None /\ s = active' /\ TakesNone
  BY UiTurns, SignalTurns, SettleTurns, ObjectsAssumption
     DEF Turn, Steady, Newborn
<1>2. CASE ReceiveRemoved
  <2>1. removedQ \in Seq(Session) /\ removedQ # <<>>
    BY <1>2, Parts DEF BusOK, Openvpn3TypeOK, ReceiveRemoved
  <2>2. s # Head(removedQ)
    <3>1. SessionRemoved(Head(removedQ), <<Publish>>)
      BY <1>2 DEF ReceiveRemoved
    <3>2. active = s
      BY <1>1 DEF TakesNone
    <3>3. awaitingTeardown = None
      BY <1>1, <3>2, Parts DEF Before, Exclusive
    <3> QED BY <1>1, <3>1, <3>2, <3>3 DEF SessionRemoved
  <2>3. Range(removedQ) \subseteq Range(Tail(removedQ)) \cup {Head(removedQ)}
    BY <2>1, QueueRange
  <2> QED BY <1>1, <1>2, <2>2, <2>3
          DEF ReceiveRemoved, serviceVars, TakesNone
<1>3. CASE ~ReceiveRemoved
  <2>1. UNCHANGED <<real, removedQ>>
    BY <1>3
       DEF Ui, Signal, Settle, Receives, UiSelectProfile, UiDisconnect,
           UiRefresh, UiDismissFailure, UiManageProfiles, UiSubmitPrompt,
           UiCancelPrompt, ReceiveStatus, ReceiveAttention, openvpn3Vars,
           serviceVars, queueVars
  <2> QED BY <1>1, <2>1 DEF TakesNone
<1> QED BY <1>2, <1>3

\* When no signal is lost, the end of a session is signalled to a worker that
\* listens.
LEMMA ServiceSignals ==
  ASSUME RInv, ~Lossy, Service, NEW s \in Own, ~Exists(s)'
  PROVE  /\ Exists(s) => ~watching \/ s \in Range(removedQ')
         /\ Range(removedQ) \subseteq Range(removedQ')
<1>1. /\ real \in [Session -> StatusClass \cup {"Unborn", "Gone"}]
      /\ removedQ \in Seq(Session) /\ s \in Session
  BY Parts, ObjectsAssumption DEF RInv, BusOK, Openvpn3TypeOK
<1>2. PICK t \in Session :
        \/ \E x \in Reports : ReportStatus(t, x)
        \/ \E g \in Group : RequireAttention(t, g)
        \/ RemoveSession(t)
        \/ StartFromTerminal(t)
  BY DEF Service, Openvpn3Next
<1>3. CASE RemoveSession(t)
  <2>1. /\ real' = [real EXCEPT ![t] = "Gone"]
        /\ \/ ~watching /\ removedQ' = removedQ
           \/ removedQ' = Append(removedQ, t)
    BY <1>3 DEF RemoveSession
  <2> QED BY <1>1, <2>1, QueueRange DEF Exists
<1>4. CASE ~RemoveSession(t)
  <2>1. /\ UNCHANGED removedQ
        /\ \/ UNCHANGED real
           \/ \E x \in Reports \cup {"Connecting"} : real' = [real EXCEPT ![t] = x]
    BY <1>2, <1>4
       DEF ReportStatus, RequireAttention, StartFromTerminal, queueVars
  <2>2. \A x \in Reports \cup {"Connecting"} : x \notin {"Unborn", "Gone"}
    BY Openvpn3Assumption DEF StatusClass, ConnectionState, NoChange
  <2>3. Exists(s) => Exists(s)'
    BY <1>1, <2>1, <2>2 DEF Exists
  <2> QED BY <2>1, <2>3
<1> QED BY <1>3, <1>4
\* Every step preserves it, when no signal is lost.
LEMMA SignalledNext ==
  /\ ~Lossy /\ RInv /\ FoundInHand /\ Listens /\ Signalled
  /\ [RestartNext]_restartVars
  => Signalled'
<1> SUFFICES ASSUME ~Lossy, RInv, FoundInHand, Listens, Signalled,
                    [RestartNext]_restartVars,
                    NEW s \in Own, s \in {active'} \cup Newborn', ~Exists(s)'
             PROVE  s \in found' \cup Range(removedQ')
  BY DEF Signalled
<1>1. s \in Session /\ s # None
  BY ObjectsAssumption
<1>2. CASE WorkerStep
  <2>1. found' = found
    BY <1>2 DEF WorkerStep, historyVars
  <2>2. CASE Ui \/ Signal \/ Settle
    <3>1. /\ s = active /\ ~Exists(s)
          /\ s \in Range(removedQ) => s \in Range(removedQ')
      BY <1>1, <2>2, InputShows DEF Exists
    <3> QED BY <2>1, <3>1 DEF Signalled
  <2>3. CASE Work /\ ~Doing("Adopt")
    <3>1. ~Exists(s) /\ UNCHANGED removedQ
      <4>1. /\ UNCHANGED removedQ
            /\ real'[s] = real[s] \/ Exists(s)'
        BY <1>1, <2>3, WorkOnBus DEF RInv
      <4> QED BY <4>1 DEF Exists
    <3>2. s \in {active} \cup Newborn \cup Finds
      BY <1>1, <2>3, WorkShows
    <3> QED BY <2>1, <3>1, <3>2 DEF Signalled, FoundInHand
  <2>4. CASE Service
    <3>1. s \in {active} \cup Newborn
      BY <2>4 DEF Service, machineVars, Newborn, Doing
    <3>2. /\ Exists(s) => ~watching \/ s \in Range(removedQ')
          /\ Range(removedQ) \subseteq Range(removedQ')
      BY <2>4, ServiceSignals
    <3>3. CASE ~Exists(s)
      BY <2>1, <3>1, <3>2, <3>3 DEF Signalled
    <3>4. CASE up /\ ~watching
      <4>1. /\ active \in found \cup {None}
            /\ \E k \in 1..Len(todo) :
                 /\ todo[k].op = "WatchManager"
                 /\ \A j \in 1..k - 1 : todo[j].op \in EarlyOps
        BY <3>4 DEF Listens
      <4>2. Newborn = {}
        <5>1. Len(todo) \in Nat /\ (todo # <<>> => Head(todo) = todo[1])
          BY Parts DEF RInv
        <5>2. todo[1].op \in EarlyOps \cup {"WatchManager"}
          BY <4>1, <5>1
        <5> QED BY <5>1, <5>2 DEF Newborn, Doing, EarlyOps
      <4> QED BY <1>1, <2>1, <3>1, <4>1, <4>2
    <3>5. CASE ~up
      BY <1>1, <3>1, <3>5 DEF RInv, DownIsEmpty, MachineInit, Newborn, Doing
    <3> QED BY <3>2, <3>3, <3>4, <3>5
  <2>5. CASE UNCHANGED vars
    BY <2>1, <2>5
       DEF vars, machineVars, openvpn3Vars, serviceVars, queueVars, Newborn,
           Doing, Exists, Signalled
  <2> QED BY <1>2, <2>2, <2>3, <2>4, <2>5 DEF WorkerStep
<1>3. CASE Search
  BY <1>1, <1>3, SearchFinds DEF MachineInit, Newborn
<1>4. CASE Crash \/ Launch
  BY <1>1, <1>4, CrashLemma, LaunchLemma DEF Held, Hands
<1> QED BY <1>2, <1>3, <1>4, RestartSteps

\* With a batch of early steps in front, the subscription is still to come.
LEMMA StillToCome ==
  ASSUME NEW cs \in Seq(Early), NEW rest \in Seq(Step), NEW t, t = cs \o rest,
         NEW k \in 1..Len(rest), rest[k].op = "WatchManager",
         \A j \in 1..k - 1 : rest[j].op \in EarlyOps
  PROVE  \E n \in 1..Len(t) :
           /\ t[n].op = "WatchManager"
           /\ \A j \in 1..n - 1 : t[j].op \in EarlyOps
<1> DEFINE n == Len(cs) + k
<1>1. /\ Len(cs) \in Nat /\ Len(rest) \in Nat /\ k \in Nat
      /\ cs \in Seq(Step)
  BY DEF Early
<1>2. /\ Len(t) = Len(cs) + Len(rest)
      /\ \A j \in 1..Len(t) :
           t[j] = IF j <= Len(cs) THEN cs[j] ELSE rest[j - Len(cs)]
  BY <1>1, ConcatProperties
<1>3. n \in 1..Len(t) /\ t[n] = rest[k]
  BY <1>1, <1>2
<1>4. \A j \in 1..n - 1 : t[j].op \in EarlyOps
  <2> TAKE j \in 1..n - 1
  <2>1. CASE j <= Len(cs)
    <3>1. cs[j] \in Early /\ t[j] = cs[j]
      BY <1>1, <1>2, <2>1
    <3> QED BY <3>1 DEF Early
  <2>2. CASE j > Len(cs)
    <3>1. j - Len(cs) \in 1..k - 1 /\ t[j] = rest[j - Len(cs)]
      BY <1>1, <1>2, <2>2
    <3> QED BY <3>1
  <2> QED BY <1>1, <2>1, <2>2
<1> QED BY <1>3, <1>4

\* While it is not there the next step is an early one, or the subscription.
LEMMA NextIsEarly ==
  ASSUME RInv, Listens, up, ~watching
  PROVE  /\ todo # <<>> /\ Rest \in Seq(Step) /\ Head(todo) = todo[1]
         /\ Head(todo).op \in EarlyOps \cup {"WatchManager"}
         /\ Head(todo).op # "WatchManager" =>
              \E k \in 1..Len(Rest) :
                /\ Rest[k].op = "WatchManager"
                /\ \A j \in 1..k - 1 : Rest[j].op \in EarlyOps
<1>1. PICK k \in 1..Len(todo) :
        /\ todo[k].op = "WatchManager"
        /\ \A j \in 1..k - 1 : todo[j].op \in EarlyOps
  BY DEF Listens
<1>2. todo \in Seq(Step) /\ Len(todo) \in Nat
  BY Parts DEF RInv
<1>3. todo # <<>> /\ Rest \in Seq(Step) /\ Head(todo) = todo[1]
  BY <1>1, <1>2 DEF Rest
<1>4. \A i \in 1..Len(Rest) : Rest[i] = todo[i + 1] /\ i + 1 \in 1..Len(todo)
  BY <1>2, <1>3 DEF Rest
<1>5. Len(Rest) \in Nat /\ Len(todo) = Len(Rest) + 1
  BY <1>2, <1>3 DEF Rest
<1>6. CASE k = 1
  BY <1>1, <1>3, <1>6
<1>7. CASE k # 1
  <2>1. 1 \in 1..k - 1 /\ k - 1 \in 1..Len(Rest)
    BY <1>1, <1>5, <1>7
  <2>2. Rest[k - 1].op = "WatchManager"
    BY <1>1, <1>4, <2>1
  <2>3. \A j \in 1..(k - 1) - 1 : Rest[j].op \in EarlyOps
    <3> TAKE j \in 1..(k - 1) - 1
    <3>1. j \in 1..Len(Rest) /\ j + 1 \in 1..k - 1
      BY <1>5, <2>1
    <3> QED BY <1>1, <1>4, <3>1
  <2> QED BY <1>1, <1>3, <2>1, <2>2, <2>3
<1> QED BY <1>6, <1>7
\* The early steps that are not about sessions to adopt leave the rest to do.
LEMMA EarlyStepDone ==
  ASSUME Work, Head(todo).op \in {"SubscribeTo", "ClosePrompt", "Note"}
  PROVE  todo' = Rest /\ active' = active
BY DEF Work, Call, AdoptExisting, AdoptStatusRead, SubscribeSession,
       WatchSessionManager, TunnelCreated, ExecEnableLogForward,
       ExecConnect, ExecDisconnect, ExecOpenPrompt, ExecClosePrompt,
       ExecProvideInput, ExecNote, ExecCheckReady, ExecAskQueue,
       ExecReconcileTeardown, ExecReconcileStatus, HandleStatusRead,
       ExecNewTunnel, TunnelStarts, TunnelRefused, ExecSelect,
       ExecDisconnectActive, ExecPublish, ExecPublishIfNot, Doing, Done,
       machineVars

\* Taking a found session in hand returns early steps.
LEMMA AdoptionIsEarly ==
  ASSUME RInv, Work, Doing("AdoptAs")
  PROVE  /\ active' = Head(todo).session
         /\ \E cs \in Seq(Early) : todo' = cs \o Rest
<1> DEFINE s == Head(todo).session
<1>1. AdoptStatusRead
  BY DEF Work, Call, AdoptExisting, SubscribeSession,
         WatchSessionManager, TunnelCreated, ExecEnableLogForward,
         ExecConnect, ExecDisconnect, ExecOpenPrompt, ExecClosePrompt,
         ExecProvideInput, ExecNote, ExecCheckReady, ExecAskQueue,
         ExecReconcileTeardown, ExecReconcileStatus, HandleStatusRead,
         ExecNewTunnel, TunnelStarts, TunnelRefused, ExecSelect,
         ExecDisconnectActive, ExecPublish, ExecPublishIfNot, Doing
<1>2. s \in Session /\ Rest \in Seq(Step)
  BY HeadTypes, Parts DEF RInv, Doing, Rest
<1>3. active = None /\ awaitingTeardown = None /\ ~promptOpen
  BY BeforeAdoption DEF RInv, MachineInit
<1>4. /\ active' = s
      /\ \/ todo' = <<>> \o (<<SubscribeTo(s)>> \o Rest)
         \/ todo' = <<Note(s)>> \o (<<SubscribeTo(s)>> \o Rest)
  BY <1>1, <1>3
     DEF AdoptStatusRead, ExternalSessionSeen, ApplyStatus, ClosesPrompt,
         Returns
<1>5. SubscribeTo(s) \in Early /\ Note(s) \in Early
  BY <1>2 DEF SubscribeTo, Note, Early, EarlyOps, Step, Command
<1>6. /\ <<>> \in Seq(Early) /\ <<SubscribeTo(s)>> \in Seq(Early)
      /\ <<Note(s)>> \in Seq(Early)
  BY <1>5
<1>7. \A p, q \in Seq(Early) : p \o q \in Seq(Early) /\ p \o (q \o Rest) = (p \o q) \o Rest
  <2>1. Early \subseteq Step
    BY DEF Early
  <2> QED BY <1>2, <2>1
<1>8. \A p, q \in Seq(Early) :
        todo' = p \o (q \o Rest) => \E cs \in Seq(Early) : todo' = cs \o Rest
  <2> SUFFICES ASSUME NEW p \in Seq(Early), NEW q \in Seq(Early),
                      todo' = p \o (q \o Rest)
               PROVE  \E cs \in Seq(Early) : todo' = cs \o Rest
    OBVIOUS
  <2>1. p \o q \in Seq(Early) /\ todo' = (p \o q) \o Rest
    BY <1>7
  <2> QED BY <2>1
<1> QED BY <1>4, <1>6, <1>8

\* Every step preserves it, unless the subscription may be refused.
LEMMA ListensNext ==
  /\ ~Fails("Watch") /\ RInv /\ FoundInHand /\ Listens
  /\ [RestartNext]_restartVars
  => Listens'
<1> SUFFICES ASSUME ~Fails("Watch"), RInv, FoundInHand, Listens,
                    [RestartNext]_restartVars, up', ~watching'
             PROVE  /\ active' \in found' \cup {None}
                    /\ \E k \in 1..Len(todo') :
                         /\ todo'[k].op = "WatchManager"
                         /\ \A j \in 1..k - 1 : todo'[j].op \in EarlyOps
  BY DEF Listens
<1> DEFINE Comes(t) ==
      \E k \in 1..Len(t) :
        /\ t[k].op = "WatchManager"
        /\ \A j \in 1..k - 1 : t[j].op \in EarlyOps
<1>1. CASE WorkerStep
  <2>1. found' = found /\ up
    BY <1>1 DEF WorkerStep, historyVars
  <2>2. CASE Service \/ UNCHANGED vars
    <3>1. UNCHANGED <<watching, todo, active>>
      BY <2>2
         DEF Service, vars, machineVars, openvpn3Vars, Openvpn3Next,
             ReportStatus, RequireAttention, RemoveSession, StartFromTerminal
    <3> QED BY <2>1, <3>1 DEF Listens
  <2>3. CASE Ui \/ Signal \/ Settle
    <3>1. Idle /\ UNCHANGED watching
      BY <2>3
         DEF Ui, Signal, Settle, Receives, UiSelectProfile, UiDisconnect,
             UiRefresh, UiDismissFailure, UiManageProfiles, UiSubmitPrompt,
             UiCancelPrompt, ReceiveStatus, ReceiveAttention, ReceiveRemoved,
             openvpn3Vars
    <3> QED BY <2>1, <3>1, NextIsEarly DEF Idle
  <2>4. CASE Work /\ ~Doing("Adopt")
    <3>1. ~watching
      BY <2>4, Parts
         DEF Work, Call, AdoptExisting, AdoptStatusRead, SubscribeSession,
             WatchSessionManager, TunnelCreated, ExecEnableLogForward,
             ExecConnect, ExecDisconnect, ExecOpenPrompt, ExecClosePrompt,
             ExecProvideInput, ExecNote, ExecCheckReady, ExecAskQueue,
             ExecReconcileTeardown, ExecReconcileStatus, HandleStatusRead,
             ExecNewTunnel, TunnelStarts, TunnelRefused, ExecSelect,
             ExecDisconnectActive, ExecPublish, ExecPublishIfNot, Subscribe,
             Watch, ForwardLog, Dial, Stop, Answer, StartTunnel,
             openvpn3Vars, serviceVars
    <3>2. /\ todo # <<>> /\ Rest \in Seq(Step)
          /\ Head(todo).op \in EarlyOps \cup {"WatchManager"}
          /\ Head(todo).op # "WatchManager" => Comes(Rest)
      BY <2>1, <3>1, NextIsEarly
    <3>3. Head(todo).op # "WatchManager"
      BY <2>4, <3>1
         DEF Work, Call, AdoptExisting, AdoptStatusRead, SubscribeSession,
             WatchSessionManager, TunnelCreated, ExecEnableLogForward,
             ExecConnect, ExecDisconnect, ExecOpenPrompt, ExecClosePrompt,
             ExecProvideInput, ExecNote, ExecCheckReady, ExecAskQueue,
             ExecReconcileTeardown, ExecReconcileStatus, HandleStatusRead,
             ExecNewTunnel, TunnelStarts, TunnelRefused, ExecSelect,
             ExecDisconnectActive, ExecPublish, ExecPublishIfNot, Watch,
             Doing
    <3>4. active \in found \cup {None}
      BY <2>1, <3>1 DEF Listens
    <3>5. CASE Head(todo).op = "AdoptAs"
      <4>1. /\ active' = Head(todo).session
            /\ \E cs \in Seq(Early) : todo' = cs \o Rest
        BY <2>4, <3>2, <3>5, AdoptionIsEarly DEF Doing
      <4>2. Comes(todo')
        BY <3>2, <3>3, <4>1, StillToCome
      <4>3. active' \in found
        BY <3>2, <3>5, <4>1 DEF FoundInHand, Finds, Doing
      <4> QED BY <2>1, <4>2, <4>3
    <3>6. CASE Head(todo).op # "AdoptAs"
      <4>1. Head(todo).op \in {"SubscribeTo", "ClosePrompt", "Note"}
        BY <2>4, <3>2, <3>3, <3>6 DEF EarlyOps, Doing
      <4> QED BY <2>1, <2>4, <3>2, <3>3, <3>4, <4>1, EarlyStepDone
    <3> QED BY <3>5, <3>6
  <2> QED BY <1>1, <2>2, <2>3, <2>4 DEF WorkerStep
<1>2. CASE Search
  <2>1. active' = None /\ up /\ ~watching
    BY <1>2, SearchFinds DEF MachineInit, Search, openvpn3Vars
  <2>2. Head(todo).op = "Adopt"
    BY <1>2 DEF Search, Adopts, AdoptExisting, Doing
  <2>3. Rest \in Seq(Step) /\ Comes(Rest)
    BY <2>1, <2>2, NextIsEarly
  <2>4. CASE todo' = Rest
    BY <2>1, <2>3, <2>4
  <2>5. CASE todo' # Rest
    <3>1. PICK s \in Session :
            Exists(s) /\ Returns(<<AdoptAs(s, real[s])>>, Rest)
      BY <1>2, <2>5 DEF Search, Adopts, AdoptExisting, Done
    <3>2. real[s] \in StatusClass
      BY <3>1, Parts DEF RInv, BusOK, Openvpn3TypeOK, Exists
    <3>3. AdoptAs(s, real[s]) \in Early
      BY <3>2 DEF AdoptAs, Early, EarlyOps, Step
    <3>4. <<AdoptAs(s, real[s])>> \in Seq(Early)
      BY <3>3
    <3>5. \E cs \in Seq(Early) : todo' = cs \o Rest
      BY <3>1, <3>4 DEF Returns
    <3>6. Comes(todo')
      BY <2>3, <3>5, StillToCome
    <3> QED BY <2>1, <3>6
  <2> QED BY <2>4, <2>5
<1>3. CASE Crash
  BY <1>3 DEF Crash
<1>4. CASE Launch
  <2>1. active' = None
    BY <1>4 DEF Launch, RInv, DownIsEmpty, MachineInit, machineVars
  <2>2. todo' = <<Adopt, WatchManager, Publish>>
    BY <1>4 DEF Launch
  <2>3. Comes(todo')
    <3>1. /\ Len(todo') = 3 /\ todo'[2].op = "WatchManager"
          /\ todo'[1].op \in EarlyOps
      BY <2>2 DEF Adopt, WatchManager, EarlyOps
    <3>2. 2 \in 1..Len(todo') /\ \A j \in 1..2 - 1 : j = 1
      BY <3>1
    <3> QED BY <3>1, <3>2
  <2> QED BY <2>1, <2>3
<1> QED BY <1>1, <1>2, <1>3, <1>4, RestartSteps

\* The first process has the subscription to come and displays nothing.
LEMMA SignalledInit == RestartInit => Listens /\ Signalled
<1> SUFFICES ASSUME RestartInit PROVE Listens /\ Signalled
  OBVIOUS
<1>1. /\ active = None /\ todo = <<Adopt, WatchManager, Publish>>
  BY DEF RestartInit, Init, MachineInit
<1>2. Signalled
  BY <1>1, ObjectsAssumption DEF Signalled, Newborn, Doing, Adopt
<1>3. /\ Len(todo) = 3 /\ todo[2].op = "WatchManager"
      /\ todo[1].op \in EarlyOps
  BY <1>1 DEF Adopt, WatchManager, EarlyOps
<1>4. 2 \in 1..Len(todo) /\ \A j \in 1..2 - 1 : j = 1
  BY <1>3
<1> QED BY <1>1, <1>2, <1>3, <1>4 DEF Listens

\* AE4: a session the applet started and still displays after it went away is
\* one whose removal waits to be received, or one that was adopted, when no
\* signal is lost and the subscription to removals is not refused.
THEOREM GoneAreSignalled == RestartSpec => []GoneIsSignalled
<1> DEFINE Sure == ~Lossy /\ ~Fails("Watch")
           Told == Sure => Listens /\ Signalled
<1>1. RestartInit => Told
  BY SignalledInit
<1>2. RInv /\ FoundInHand /\ Told /\ [RestartNext]_restartVars => Told'
  <2>1. Sure' = Sure
    BY DEF Fails
  <2> QED BY <2>1, SignalledNext, ListensNext
<1>3. Told => GoneIsSignalled
  BY DEF Signalled, GoneIsSignalled
<1> HIDE DEF Told
<1> QED BY <1>1, <1>2, <1>3, RestartInvariance, FoundAlways, PTL
        DEF RestartSpec
=============================================================================
