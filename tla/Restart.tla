------------------------------- MODULE Restart -------------------------------
(***************************************************************************)
(* The applet dies at any point and is started again (crates/applet/src/   *)
(* main.rs; run and adopt_existing_sessions of dbus.rs).  The service and  *)
(* its sessions live on; all the applet knew is gone, and so are its       *)
(* signal subscriptions.  The new process adopts the first session listed  *)
(* and learns of no other.                                                 *)
(*                                                                         *)
(* A crash between a call and the handling of its answer is a crash before *)
(* the worker's next step.  A call that reaches the service only after the *)
(* new process has listed the sessions is not modelled.                    *)
(***************************************************************************)
EXTENDS Worker, Functions

CONSTANT MaxCrashes   \* a bound of the instance

ASSUME RestartAssumption == MaxCrashes \in Nat

VARIABLES
  up,       \* whether a process runs; it then owns INSTANCE_LOCK_NAME
  crashes,  \* how often one has died
  found,    \* history: the sessions the present process has adopted
  missed    \* history: those that were there and which it did not adopt

historyVars == <<found, missed>>
restartVars == <<vars, up, crashes, historyVars>>

\* The end of the process: its connections to both buses close, which ends its
\* subscriptions and releases the lock.
Crash ==
  /\ up
  /\ crashes < MaxCrashes
  /\ up' = FALSE
  /\ crashes' = crashes + 1
  /\ state' = "Disconnected"
  /\ active' = None
  /\ pendingTarget' = None
  /\ awaitingTeardown' = None
  /\ promptOpen' = FALSE
  /\ todo' = <<>>
  /\ prompt' = None
  /\ shown' = [state |-> "Disconnected", active |-> None, prompt |-> None]
  /\ intent' = None
  /\ subscribed' = {}
  /\ watching' = FALSE
  /\ statusQ' = [s \in Session |-> <<>>]
  /\ attentionQ' = [s \in Session |-> <<>>]
  /\ removedQ' = <<>>
  /\ found' = {}
  /\ UNCHANGED <<serviceVars, missed>>

\* Mutant: it starts without a look at the sessions that are there.
LaunchBlind ==
  /\ ~up
  /\ up' = TRUE
  /\ todo' = <<WatchManager, Publish>>
  /\ UNCHANGED <<machineVars, openvpn3Vars, prompt, shown, intent, crashes,
                 historyVars>>

\* main: a process that finds the lock taken exits at once.
Launch ==
  /\ ~up
  /\ up' = TRUE
  /\ todo' = <<Adopt, WatchManager, Publish>>
  /\ UNCHANGED <<machineVars, openvpn3Vars, prompt, shown, intent, crashes,
                 historyVars>>

Adopts ==
  /\ AdoptExisting
  /\ found' = {s \in Session : AdoptAs(s, real[s]) \in Range(todo')}
  /\ missed' = {s \in Session : Exists(s)} \ found'

Process ==
  /\ up
  /\ \/ (Ui \/ Signal \/ Settle \/ Work) /\ ~Doing("Adopt") /\ UNCHANGED historyVars
     \/ Adopts
  /\ UNCHANGED <<up, crashes>>

RestartNext ==
  \/ Process
  \/ Service /\ UNCHANGED <<up, crashes, historyVars>>
  \/ Crash
  \/ Launch

RestartInit ==
  /\ Init
  /\ up = TRUE
  /\ crashes = 0
  /\ found = {}
  /\ missed = {}

RestartSpec == RestartInit /\ [][RestartNext]_restartVars

-----------------------------------------------------------------------------
(* Properties *)

\* The sessions about to be looked at.
ToBeAdopted ==
  IF ~up \/ Doing("Adopt") THEN Session
  ELSE IF Doing("AdoptAs") THEN {Head(todo).session} ELSE {}

\* A session of the applet's own is not lost with the process that started it,
\* at whatever step that died: the next one has it in hand, unless another
\* session was listed before it.
NoneIsLost ==
  \A s \in Own \ missed :
    Running(s) => s \in {active, awaitingTeardown} \cup Newborn \cup ToBeAdopted

\* AE1 across restarts: of the sessions not passed over, one runs at a time.
OneLiveAcrossRestarts ==
  \A s, t \in Own \ missed : Running(s) /\ Running(t) => s = t

\* R6: a session that was found running, from a terminal or from the applet's
\* last process, is gone before the tunnel the user chose instead is started.
FoundStopsFirst ==
  Doing("NewTunnel") => \A s \in found : ~Running(s)

\* AE4: a session the applet started and still displays after it went away is
\* one whose removal waits to be received, when no signal is lost and the
\* subscription to them is not refused: the display catches up.  One that was
\* adopted may stay: it can go before the worker listens.
GoneIsSignalled ==
  ~Lossy /\ ~Fails("Watch") =>
    \A s \in Own :
      active = s /\ ~Exists(s) => s \in found \cup Range(removedQ)
=============================================================================
