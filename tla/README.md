# The openvpn3 panel applet, specified

This directory holds TLA+ specifications of the applet in `src/`: a COSMIC panel
icon that connects, disconnects and watches openvpn3 VPN sessions over D-Bus. TLC
checks them on small instances; TLAPS proves the central invariants for instances
of any size. `PROJECT.json` says which lines of the code each definition stands
for.

    tlc -config WorkerCore.cfg MCWorker      # one run; the others likewise
    tlapm WorkerProofs.tla                   # and the other ...Proofs modules

## The system

| Part | State it keeps | Operations | Talks to |
|---|---|---|---|
| **Transition machine** (`openvpn3-dbus/src/machine.rs`) | `state`, `active`, `pending_target`, `awaiting_teardown`, `prompt_open` | `handle`: twelve events in, a list of commands out; no I/O | the worker calls it |
| **D-Bus worker** (`applet/src/dbus.rs`) | the machine, the log store, the profiles, the prompt on offer, texts | startup; one loop over UI commands, signals and a 400 ms settle tick; executes commands as calls; publishes snapshots | openvpn3 by calls and signals; the panel by two channels |
| **openvpn3 session service** (not in the repository; `proxy.rs` declares it) | sessions, their status, their user-input queues | `NewTunnel`, `Connect`, `Disconnect`, `Ready`, `LogForward`, `UserInput*`; `StatusChange`, `AttentionRequired`, `Log`, `SessionManagerEvent` | terminals and the worker |
| **Status mapping** (`status.rs`, `wire.rs`) | none | decode two integers, map them to one of five icon states or to none (KTD3) | forwarding tasks, machine |
| **Attention routing** (`attention.rs`) | none | which requests have a prompt (KTD8), the form fields | machine |
| **Log store** (`logbuf.rs`) | a bounded buffer per session, one retained after a removal | begin, adopt, push, note, remove, most recent | worker |
| **Panel applet** (`app.rs`) | last snapshot, popup, page, field values | messages of the UI; sends commands, each from a task of its own | worker |
| **Profiles** (`profile.rs`, part of `dbus.rs`) | profile list and names | import, rename, delete, refresh | configuration service |
| **Start** (`main.rs`) | the name on the bus | one instance only | D-Bus |

What makes it hard:

* *Interleaving.* The worker is one task and handles one input at a time, but
  every call it makes is an `await`, and the service, the terminals and the
  forwarding tasks go on meanwhile. A value read before an await is used after it
  (`reconcile_active_status`, `adopt_existing_sessions`).
* *Nesting.* Executing `CheckReady` or `NewTunnel` calls the machine again in the
  middle of a batch of commands.
* *Ordering.* Each session has three forwarding tasks and the manager one; order
  is kept within a task and not between them.
* *Loss.* A signal may be missed; the settle tick and the menu reconcile.
* *Partial failure.* Any call may fail; most failures are only noted.
* *Stale knowledge.* The panel acts on a snapshot the worker has moved on from, its
  commands overtake one another, and terminals change sessions and profiles unasked.
* *Restarts.* Sessions outlive the applet, which remembers nothing.
* *Time.* A teardown is waited for; the user goes on choosing meanwhile.

The properties that make each part correct:

* machine and worker: at most one live session of the applet's own, none forgotten;
  the latest choice wins; log forwarding before the handshake; a prompt that is
  waited for is on offer; a failure stays visible; no transition waits for ever;
* status mapping: exactly the table;
* attention routing: a request is prompted for, or fails loudly; never neither;
* log store: bounded, and the log of the last attempt readable until the next one;
* panel: a prompt is resolved exactly once however it is left; a live one can be
  reached; nothing typed is kept; what it shows is what the worker knows, in the end;
* profiles: the menu is true; what is deleted was confirmed and is not in use;
* start: what the last process left running is found, and stopped before anything new.

## The modules

| Module | Models | Extends |
|---|---|---|
| `Objects` | sessions, profiles and requests as unanalysed values, with the assumptions on them | |
| `Status` | `map_status`, and the class of a status (`Set(state)` or `NoChange`) | |
| `Attention` | `route_attention` and the codes of requests | |
| `Machine` | every handler of the transition machine and the commands it returns | `Objects`, `Status` |
| `SignalCodes` | the three signals that decide anything, from their numbers to the machine | `Machine`, `Attention` |
| `Openvpn3` | the service and the queues of signals: the environment | `Objects`, `Status` |
| `Worker` | the worker: the composition of the machine and the service | `Machine`, `Openvpn3` |
| `SingleSession` | abstract: what the worker promises of the tunnels it starts | |
| `Restart` | the worker with a process that dies and is started again | `Worker` |
| `ProfileNames` | names and the labels the menu gives them | `Objects` |
| `Profiles` | the profile list, its commands, the configuration service and terminals | `Worker`, `ProfileNames` |
| `Panel` | the panel applet: popup, pages, fields, buttons, commands | `ProfileNames` |
| `Applet` | the composition: panel and worker on their two channels | `Profiles`, `Panel` |
| `WayBack` | `Applet` with a history: has anything about the profiles failed since the popup opened | `Applet` |
| `AttemptLog` | abstract: what the log page promises its reader | |
| `LogStore` | the log store, driven as the worker drives it | instantiates `AttemptLog` |
| `MCSignalCodes`, `MCWorker`, `MCRestart`, `MCApplet`, `MCWayBack`, `MCLogStore` | instances for TLC | |
| `WorkerProofs` | the theorems about the worker | `Worker`, `TLAPS` |
| `SingleSessionProofs` | the worker implements `SingleSession`; it waits only for what it told to go | `WorkerProofs` |
| `DisplayProofs` | what the user gets to see: the snapshot, the prompt, a failure, connecting | `SingleSessionProofs` |
| `RestartProofs` | what survives a crash | `DisplayProofs`, `Restart` |
| `SignalCodesProofs` | the two tables, from the numbers on the bus | `SignalCodes`, `TLAPS` |
| `PanelProofs` | what every message of the panel preserves | `Panel`, `TLAPS` |
| `AppletProofs` | the applet implements `Worker`; profiles, menu and deletions; the panel is up to date; the way back to a prompt | `PanelProofs`, `WayBack` |
| `LogStoreProofs` | the theorems about the log store | `LogStore`, `TLAPS` |

Definitions marked `Mutant` in a comment are plausible mistakes in the definition that
follows them; nothing uses them. Put in its place, each makes TLC find a property
violated (`mutants` in `PROJECT.json`).

### How a step of the worker is modelled

`todo` is the worker's call stack laid flat: the steps it still has to take before
it is idle. Idle (`todo = <<>>`), it takes one input: a UI command, a signal from
one of the queues, or a settle tick if a transition is in flight. Each step then is
one call to the service and what the worker does with the answer before its next
`await`; `Service` steps come in between. A handler of the machine is an action
whose last parameter, `rest`, is what is left to do; the batch it returns goes in
front of `rest`, which is what the nested `Box::pin(self.execute(...)).await` does.
Where the code reads something and awaits again before using it, the value read is
carried in a step of its own (`AdoptAs`, `StatusRead`), so it can be out of date.

Two places merge several awaits into one step, because nothing the worker or a
property sees tells the difference: the three subscriptions of a session (they are
awaited together, and none is relied on before all are up), and the calls of
`ProvideInput` or of `drain_input_queue`, one per request (a failure or the end of
the session part of the way through is a subset of the requests).

`Profiles` adds steps to the same `todo`: a fetch, the names read one by one, and the
three commands. A profile's fate is `stored[c]`, its name, or that it is not yet, or no
longer, there; the worker's list is `listed`.

### How the panel is modelled

Each message of `App::update` is an action. A message of the user exists only where
`view_window` draws the button or field for it, so drawing shows up as the first
part of each guard, and drawing and handling are one step. `App::send` spawns a task per command,
so the commands under way are a bag and the worker may get any of them next; snapshots
come back in order, and the worker waits while their channel is full. The panel acts on
the last snapshot it has got, the worker on what it knows by then.

### How a restart is modelled

`Crash` takes everything the process had: the machine, `todo`, the prompt, the
subscriptions and the signals that waited. The service and its sessions stay. A crash
between a call and its answer is a crash before the worker's next step, since the call
is the step. `Launch` is `main` once the lock is free; a process that finds it taken
exits and changes nothing. `AdoptExisting`, which is part of `Worker`, does the rest.

### Variables

| Variable | Code |
|---|---|
| `state`, `active`, `pendingTarget`, `awaitingTeardown`, `promptOpen` | the fields of `Machine` |
| `todo` | the rest of the batches being executed, and of `run`'s loop body |
| `prompt` | `Worker::prompt` |
| `shown` | the last `Snapshot` sent, as far as `Worker` has it: state, session, prompt |
| `subscribed`, `watching` | which forwarding tasks run |
| `statusQ`, `attentionQ`, `removedQ` | signals in a forwarding task or the wire channel |
| `real`, `asks`, `dialled`, `told`, `forwarded` | the service: status, open requests, and who was connected, told to disconnect, log-forwarded |
| `stored`, `configOf` | the services: each profile's name, and the profile each session was started for (`ActiveSession::config_path`) |
| `listed`, `unavailable` | `Worker::profiles` with the labels, `Worker::unavailable` |
| `commands`, `snapshots` | the two channels, and the tasks `send` spawned |
| `ready`, `snapshot`, `popup`, `page`, `armed`, `typed` | the fields of `App` (`ready`: its `commands` is set) |
| `picking` | whether the file picker is open |
| `up`, `crashes` | whether a process runs, and how many have died |
| `intent`, `touched`, `meant`, `excused`, `found`, `missed` | history, for properties: what the user chose last; a terminal has changed the profiles since they were fetched; the profile whose deletion was armed on this page; a fetch or a command about the profiles has failed since the popup last opened; the sessions this process adopted, and passed over |

Two further histories are inside values: `typed` holds the session a value was typed for
where the code holds the value, and a submission or cancellation carries the session
whose prompt was on the screen (`from`), which `OnUiCommand` does not look at.

In `LogStore`, `buffers`, `retained` and `mostRecent` are the fields of the code's
`LogStore`, and `known` the sessions the worker has subscribed to. It is driven by
what `dbus.rs` calls it for: `begin_session` once `NewTunnel` is answered,
`adopt_external_session` at startup, `push` for a `Log` signal, `note` for a session
or, when `NewTunnel` failed, for the profile, `remove_session` from the signal and
from `reconcile_teardown`. The signals come from different tasks, so lines, notes
and removals arrive in any order. `Worker` does not carry the store: nothing in it
reads the store back, and the composition would multiply every state by the buffers.

### What implements what

* `Worker` implements `SingleSession` under the mapping `wanted <- intent`, `live <-`
  the own sessions that run, `dialled` and `leaving <-` those of them that were dialled
  and told to disconnect (`ImplementsSingleSession`). The abstract specification has
  no signals, ticks, queues or teardowns: one session at a time, started only while a
  profile is wanted; that it is dialled only before it is told to go is the part that a
  late `Ready` or a resumed prompt could break.
* `Applet` implements `Worker` (`ImplementsWorker`), the steps about profiles
  being stutters. `Worker` lets UI commands come at any time, with any answers; the
  refinement says that the panel sends nothing else and that no profile step disturbs
  the worker. The mapping, `WorkerSteps`, takes the profile step, of which there is one
  at most, out of `todo`. So what is proved of `Worker` holds of the applet. `NewTunnel` may
  always be refused there: the profile can be gone.
* `LogStore` implements `AttemptLog` under `page <- Page`, `attempt <- mostRecent`,
  `capturing <- mostRecent \in DOMAIN buffers`. The page has the last lines of the most
  recent attempt, in order, until there is a newer attempt, with one exception the
  code makes: a note written when nothing is captured (for an adopted session, before
  any session, or after the end) starts the page anew.

### Abstractions

Paths and requests are elements of small sets. A status is its class under
`map_status` and a request an element of `Group`; `SignalCodes` is where the numbers
are real, and its `CodesAssumption` says what `Recognised` and `Supported` stand for.
Left out of `Worker`, because no decision of the worker reads them back: uptime, the
status text, log lines, and the `Note` command, which is a step that does nothing. Left
out of the panel: what is drawn besides buttons and fields, the values typed (only
which fields have one, and for whom), and `Tick`.

The service promises little (`Openvpn3`): paths are not reused; a disconnected
session does not come back; a session connects only after it was dialled and once
nothing is asked; a session told to disconnect goes away in the end (only as
fairness, only for liveness). It may report any status in any order, drop a session
at any time, and start one from a terminal at any time.

## The runs

| Run | Instance | What it shows |
|---|---|---|
| `SignalCodes` | the documented codes and the first unknown ones | the icon moves as KTD3 says, and only so; every request is prompted for, or fails loudly, or is noted (KTD8); only event type 2 ends a session |
| `WorkerCore` | 2 own sessions, 2 profiles, 2 requests (one unsupported), all six status classes, no faults | types; forwarding before `Connect`; a prompt believed open is on offer; the panel's state is current when the worker is idle; a session that is waited for was told to go; with no tunnel refused, connecting is never displayed with no session to wait for; a failure stays until dismissed or superseded |
| `WorkerFaults` | 2 own sessions and one from a terminal, 2 profiles, signals lost, every call may fail | no session is orphaned; one chain; at most one live session; the tunnel started is the one chosen last; the worker implements `SingleSession` |
| `WorkerLive` | 2 own sessions, 1 profile, signals lost | teardowns end, targets are tried, connected sessions are shown, off means off |
| `Restart` | 2 own sessions, 1 from a terminal, the applet dies twice | no session it could adopt is lost; one live session across restarts; what was found is stopped first; what goes by itself is signalled |
| `LogStore` | 3 sessions, 1 profile, 2 lines, room for 2 | buffers are bounded; the page keeps `AttemptLog`'s promise |
| `AppletPrompts` | panel and worker, 2 own sessions that may ask in several rounds, 1 request, `NewTunnel`, `UserInputProvide` and the fetch of the profiles may fail | leaving a prompt resolves it exactly once; nothing typed is kept; the panel catches up; a live prompt is on the screen, or a button on the menu away, unless a fetch or a command about the profiles has failed since the popup last opened |
| `AppletProfiles` | panel and worker, 1 own session, 2 profiles with names whose labels collide, fetching may fail, a terminal removes profiles | types; the menu is true or says that it is not; only a confirmed profile is deleted; never one in use; the applet implements `Worker` |

### Bounds

`MaxQueue = 1` signal per forwarding task and session: with several queues received
in any order, every reordering of two signals of different kinds occurs, and a queue of
one kind is first-in-first-out whatever its length. Two own sessions are one switch;
with one from a terminal, adopted at the start, they are a switch in the middle of a switch. `PathsLeft` stops the user from choosing
when the instance has no session path left for another tunnel; it bounds the length of
a run. `Symmetry` permutes own sessions and profiles, in the safety runs only.

`Applet` has bounds of its own. The user waits while `MaxCommands` commands are under
way, where the code never waits; a refresh that a popup opened by a prompt sends comes on top
of them. So two commands overtake one another when a prompt appears while one is under way.
No theorem uses this bound.
`MaxSnapshots = 1` snapshot on its way makes the panel's knowledge stale by two
publications, the one it has and the one under way; the worker blocks beyond that, as the code
does at 32. `MayConnect` is `PathsLeft` with the selections under way counted.
`Buttons` leaves out buttons that a run's properties do not need. `ConfigTerminal`
makes one change between two fetches (`~touched`). While the file picker is open the user
answers it before anything else (`Free`).
`AppletProfiles` delivers no signals (`MaxQueue = 0`, `Lossy`), the worker hearing of
its session's end by reconciliation only, and asks for no credentials: signals and prompts are
`AppletPrompts`' subject and multiply this one's states. So TLC checks the refinement of `Worker`
beside profile steps and the proof beside prompts too; and what a refused import does to the way
back to a prompt is proved, a failed fetch standing for it in `AppletPrompts`.
`MaxCrashes = 2` is a crash of a process that had itself come up after one. In `LogStore`, room for two lines is enough for a line
to be dropped with another kept, and three sessions for an attempt after an attempt
that came after one.

Deadlock is checked in every run: the user can always act, so a deadlock would be a
worker that cannot take its next step, or the two tasks waiting for each other's
channel.

### Fairness

`FairSpec`: the runtime keeps running the worker (weak fairness of `Work`);
`tokio::select!` picks at random among the branches that are ready, so a waiting
signal or a due tick is not passed over for ever although other inputs keep coming
(strong fairness of each `Receive...` and of `Settle`); a session that was told to
disconnect goes away (weak fairness of its removal). Nothing is assumed of the user,
and nothing of statuses or terminals.

## Where the code and its documents differ

Four runs are expected to be violated; each checks one sentence of the documentation
or of a comment against what the code does.

| Run | Property | In short |
|---|---|---|
| `StuckConnecting` | `ConnectingHasSession` | a refused `NewTunnel` leaves the icon connecting, with no session |
| `RefusedDisconnect` | `RefusedDisconnectIsNotStuck` | a refused `Disconnect` leaves a switch waiting for ever |
| `PromptUnnoticed` | `PromptIsNoticed` | the prompt of a second round of requests does not open the popup |
| `TypedForAnother` | `NothingIsRetained` | a value typed for a session that is gone stays in the form of the next one's prompt |

Smaller ones the model reproduces, or that reading the code for it showed, without a
run of their own:

* 32-bit codes are narrowed with `as u8` and `as u16` before they are looked up (`U8`,
  `U16`), so major 258 is displayed as major 2, where
  `tests/status_mapping.rs` says of unknown values that they "are rejected not coerced";
  `SignalCodes` checks codes within those widths;
* a status sent before the prompt was opened and received after it closes it
  (`ApplyStatus`), and nothing opens it again until the session asks anew;
* the machine drops a session without closing its prompt (`DisconnectRequested`,
  `SessionRemoved`, `FinishTeardown`): the worker goes on offering it and applies the
  answer to nothing. The next prompt replaces it, so the panel does not see that one
  appear either; `LivePromptIsReachable` says when there is a button for it;
* a paused session is displayed as connecting and leaves no line in the log, which
  KTD3 asks for;
* a settle tick that finishes a switch changes the session and not the state, so
  `ExecPublishIfNot` publishes nothing. When no signal is lost the removal that comes
  later is published (`PanelIsCurrent`); when it is lost, the panel keeps the old
  session's row until something else happens;
* a failure that was dismissed is displayed again when opening the menu reads the failed
  status of a session that is still there;
* an adopted session whose prompt is answered is dialled by `CheckReady` and was
  never log-forwarded: `ForwardBeforeConnect` speaks of `Own`;
* a session adopted at startup that goes before `watch_session_manager` has
  subscribed stays on display: `GoneIsSignalled` excepts what was `found`;
* of several sessions at startup the first listed is adopted, even one that has
  disconnected, and the others, which may be the applet's own, are never looked at:
  `NoneIsLost` excepts what was `missed`;
* a session started from a terminal while the applet runs is not adopted: `on_wire`
  looks at removals only, and `ReceiveRemoved` is all there is;
* a refused import, renaming or deletion puts its message in `unavailable`, and
  `view_menu` then draws nothing else, not even the Disconnect button of a running session,
  until the popup is opened again. The "Enter credentials" button is out of reach just so, and
  for as long as the profiles cannot be read, where the comment at `app.rs:451` calls it the way
  back while the request is live. `excused` in `LivePromptIsReachable` is this exception, and no
  more: opening the popup again ends it if the profiles can be read;
* a profile removed from a terminal while its session runs has no row, and only its row
  had the Disconnect button;
* an answer or a cancellation names no session: one sent for a prompt that was
  replaced in the meantime is applied to the new one (`OnUiCommand` ignores `from`);
* without a session bus the applet starts without its lock;
* an undecodable request that arrives after its session's removal is noted in a new
  buffer, which hides the log retained for the failure (`AttemptLog`'s
  `NotedOutside`), and nobody removes that buffer, nor one made for a profile;
* log lines handled after their session's removal are dropped (`Push` has no buffer):
  log forwarding and removal come from different tasks, so these may be the lines
  that say why it failed.

## The proofs

What is proved holds for any sets of sessions, profiles, names and requests, any queue
and channel lengths, any number of crashes, any set of failing calls and with or
without loss of signals, except where a hypothesis is named below. No proof uses
`PathsLeft`: the theorems stand if that bound is dropped.

| Module | Theorem | Property |
|---|---|---|
| `WorkerProofs` | `TypeCorrect` | `TypeOK` |
| | `OneChainAlways` | `OneChain` (KTD5) |
| | `NothingIsOrphaned` | `NoOrphan` |
| | `OneLiveSession` | `AtMostOneLive` (AE1) |
| | `TunnelWanted` | `TunnelIsWanted` (R5) |
| | `LogBeforeConnect` | `ForwardBeforeConnect` (KTD4) |
| `SingleSessionProofs` | `OneSessionKept` | `ImplementsSingleSession`, a refinement |
| | `WaitsOnlyForTold` | `TeardownIsTold` |
| `DisplayProofs` | `ShownIsCurrent` | `ShownStateIsCurrent` |
| | `PromptIsBacked` | `PromptOpenIsBacked` |
| | `FailureStays` | `FailureStaysVisible` (AE2) |
| | `ConnectingToSome` | `ConnectingHasSession`, unless a tunnel is refused |
| | `ShownIsWhole`, `ShownIsWholeAlone` | the worker's part of `PanelIsCurrent` |
| `RestartProofs` | `NoneLostByCrash` | `NoneIsLost` |
| | `OneLiveEvenSo` | `OneLiveAcrossRestarts` (AE1) |
| | `FoundIsStopped` | `FoundStopsFirst` (R6) |
| | `GoneAreSignalled` | `GoneIsSignalled` (AE4) |
| `SignalCodesProofs` | `SignalTypes` | `TypeOK` |
| | `TableIsImplemented` | `TableImplemented` (KTD3) |
| | `RequestIsNeverSwallowed` | `RequestNeverSwallowed` (KTD8) |
| | `OnlyDestroyedLetsGo` | `OnlyDestroyedEnds` |
| `AppletProofs` | `WorkerIsImplemented` | `ImplementsWorker`, a refinement |
| | `AppletTypes` | `AppletTypeOK` |
| | `NothingIsKept` | `NothingTypedIsKept` (R9) |
| | `DeletionsAreMeant` | `DeleteWasArmedHere` |
| | `MenuIsRight` | `MenuIsTrue` |
| | `RunningIsKept` | `RunningProfileIsKept` |
| | `ResolvedOnce` | `LeavingResolvesOnce` (AE2) |
| | `PanelIsUpToDate` | `PanelIsCurrent` |
| | `PromptIsReachable` | `LivePromptIsReachable` |
| | `PanelUpToDateAlone`, `PromptIsReachableAlone` | the same two, beside no sessions from a terminal |
| `LogStoreProofs` | `BuffersAreBounded` | `TypeOK` |
| | `PromiseKept` | `ImplementsPromise`, a refinement |

### Assumptions and hypotheses

The constants' assumptions are named where they are declared, and TLC evaluates them in the
runs: values stay apart that the code keeps apart by their types (`None` is no session,
profile, name, prompt or retained log; no name is one of the marks `Unborn` and `Gone` of a
profile that is not there; own sessions are sessions; supported requests are recognised),
the reports are status classes, the sets of failing calls contain calls,
`MaxCommands` is a number (`PanelAssumption`), and in `SignalCodes`
the codes are numbers and `Recognised` and `Supported` are what the decoder makes of them.

The others are of another kind: the property is false without them.

* `NarrowOnWire`, in `TableIsImplemented` and `RequestIsNeverSwallowed`: the codes fit the
  widths they are narrowed to before they are looked up. `OnlyDestroyedLetsGo` needs no such
  thing, since events are compared as they come.
* `"Disconnect" \notin FaultyCalls`, in `RunningIsKept`: a refused `Disconnect` leaves a
  session that was not told to go and that the worker nevertheless waits for, so that its
  profile no longer counts as in use and can be deleted. `TeardownIsTold` has the same
  condition inside.
* `"NewTunnel" \notin FaultyCalls`, in `ConnectingToSome`: a refused tunnel is the finding of
  `StuckConnecting`. The theorem says that it is the only way there.
* `~Lossy`, in `ShownIsWhole` and the theorems about the panel up to date: the removal of a
  session whose teardown a tick has finished is what publishes the snapshot without it.
* `[]EndsAreWatched`, in the same: no session ends while the worker does not listen to the
  session manager. When one does (an adopted session that goes before
  `watch_session_manager` has subscribed, or any once that call has failed), a tick may finish
  its teardown and start the next tunnel with the state still connecting, so that it publishes
  nothing, and no removal comes later that would. With no sessions but the applet's own
  (`Session = Own`) the hypothesis is no more than that the call is answered
  (`"Watch" \notin FaultyCalls`): no session is started before it is made (`EarlyWatch`). This is
  what `ShownIsWholeAlone`, `PanelUpToDateAlone` and `PromptIsReachableAlone` state, and the
  instance `AppletPrompts` checks.

### The worker

The inductive invariant is

    IInv == TypeOK /\ OneChain /\ EndsAreReal /\ ReadsAreReal

and beside it `Keeps` says what every step respects: a session that the machine lets go
of does not go on running, and one of the applet's own that starts is held from then on. A
removal or a final status may be handled long after it was signalled, and the machine then
lets go of the session: this is right only if the session really is over, which
`EndsAreReal` says of the signals that wait and `ReadsAreReal` of a status read and not
yet handled. Both are stable because an ended session never runs again. And a new session
takes the machine's hands: nothing is dropped only because `OneChain` says that they are
empty whenever a tunnel is being started, `Created` included. `NoOrphan` follows from
`Keeps`; it is not a part of `IInv` because `IInv` and `Keeps` then serve the restarts too,
where a process begins beside sessions that it has yet to find. `AtMostOneLive` is a
consequence: what runs is displayed, or torn down, or newborn, and these exclude one another.

The proof has one lemma per handler, saying which session it lets go of, one per
action of the service, and one per action of the worker.

`TunnelIsWanted` speaks of a tunnel about to be started; the one that waits for a
teardown is its past, so `TargetIsWanted` (a pending target is the profile wanted) is
added, and the two are inductive together with `IInv`. One lemma per way a tunnel may
be started shows that it is the pending target or the choice just made.
`ForwardBeforeConnect` likewise needs to know that a newborn session that has no log
forwarding yet has it among the next steps, before any that could dial it (`LogComesFirst`).

### One session at a time

Starting a session only when none lives and one is wanted is `OneChain`, `NoOrphan` and
`TunnelIsWanted` again. That no session is dialled after it was told to go needs to know
where the machine's decisions stand among the worker's steps, which is

    SInv == InPlace /\ NotTold /\ MarksAreOfBorn

`InPlace`: `Connect` is always the very next step, for the session on display, and
`Disconnect` the next or, behind a note or a closed prompt, the next but one, for the
session being torn down. So no other step comes between a decision and the call that
carries it out, and `NotTold`, that the session on display was not told to go, is kept.
The proof has one lemma per handler, saying where the commands it returns stand, and one
per action that is a step of `SingleSession`; the others leave all it speaks of alone.

`TeardownIsTold` is the converse: whichever of the machine's handlers began a teardown, the
session was told, or is gone. `ToldOrTelling` adds the time in between, when `Disconnect` is
still among the steps, and `HeldAreBorn` that a session in hand is not one a terminal is yet
to start. `InPlace` is what makes it inductive: the `Disconnect` that stands there is for
the session waited for.

### What the user sees

`Turn` says what the batches of all handlers have in common: where in a batch a prompt is
opened or closed, and that none publishes. One lemma shows it of each handler and one of
each step of the worker; the three invariants are then preserved by turns and by the few
steps that touch what they are about.

* `ShownLast`: the last step of the worker's turn, and no other, publishes, and a tick that
  may publish nothing remembers the state that is shown.
* `PromptLives`: a prompt is opened or closed right after the machine has noted it so, and an
  open one is on offer for a session in hand.
* `StartsConnecting` and `FreshAdopts`: a tunnel is started with connecting on display, so
  that nothing its creation replaces is a failure, and sessions are looked for only before
  anything has happened.
* `StartsOnceAdrift`: the machine displays connecting with no session in hand only while a
  tunnel is being started. One lemma per handler shows that none sets it adrift otherwise.

That the whole snapshot is right takes three more, because a tick publishes only when it has
changed the state, and a tick may change the session and not the state:

* `AuthIsLive`: as long as the session on display has a prompt open, the state is the one
  that says so, and no check that may change it stands behind an open prompt.
* `EndsSignalled`: the removal of a session in hand that is gone still waits to be received.
* `ShownCurrent`: what has been shown is all there is to show, or a snapshot is about to be
  published, or a tick is on its way that has changed nothing yet but what it will publish,
  or a removal waits. A tick is followed step by step (`Ticking`): a teardown it could finish
  is over, so its removal waits; a status it reads is of a session that is connecting,
  for which no prompt is open, and what the status changes is the state.

### Restarts

    RInv == IInv /\ FreshAdopts /\ DownIsEmpty

Of the steps here only a crash lets go of running sessions, and then every session there is
stands to be adopted or passed over by the next process: `NoneIsLost`. That those not passed
over are one at most follows from it, except while no process has looked at them yet,
when it follows from what held before the crash. `FoundStopsFirst` needs that a session
found is in hand until it is gone (`FoundInHand`). `GoneIsSignalled` needs that every session
in hand is listened to, or is about to be with nothing but subscribing, noting and closing a
prompt before it (`Listens`), and that the removal of one that went meanwhile is on its way (`Signalled`).

### Signals by their numbers

The two tables are compared once, code by code; the handlers then need only
`TypeOK /\ OneInHand`. `OneInHand`, that no session is displayed while another is torn down,
is what lets the icon move for the displayed session and for no other.

### Panel and applet

`PanelInv` holds of every message of the panel whatever the worker does: a value typed is in
the form of a prompt on the screen, what is armed is the deletion of the profile shown, a
name in the field is the old one or a typed one. `AppletProofs` then takes

    AInv == WorkerInv /\ WellFormed(todo) /\ ProfilesTypeOK /\ PanelInv
            /\ snapshots \in Seq(SnapshotKind)

where `WorkerInv` is the invariants of the worker above, read through `WorkerSteps`. There is
at most one profile step (`WellFormed`), so taking it out of `todo` commutes with each step
the worker takes. `WT` is the worker's proofs instantiated with that mapping; the lemmas
named `Same...` say that each action is the same action under it, and so carry both the
refinement and every invariant of the worker over to the applet.

`MenuIsTrue` speaks of an idle worker. `MenuRead` says it of every moment: the
menu is right, or says that it is not, or is still to be read, the profiles read so far
being right. `DeleteAlone` adds that a deletion is all there is to do, so that a profile
taken from the service is taken from the menu before anything else. `Follows` is what the
steps that are not about profiles have in common.

`RunningProfileIsKept` is about a deletion and a session started for the same profile. The
worker looks at the session on display only; `NoOrphan` says that a running session is held,
`DeleteAlone` that it is not newborn, and `TeardownIsTold` that it is not one being torn down
without having been told.

Exactly one resolution per prompt left (`LeavingResolvesOnce`) is one lemma per message of the panel
on the copies it adds to the bag of commands.

`PanelIsCurrent` is about both channels at once:

    SentInv == ShownSent /\ MenuSent /\ PendingPublished

The last snapshot sent, received or not (`Latest`), shows what the worker says it has shown
(`ShownSent`) and the worker's menu, unless the last of its steps is to publish another
(`MenuSent`); a profile step is always followed by that (`PendingPublished`), so that nothing
changes the menu behind the last snapshot. When nothing is under way the panel has `Latest`, and
`ShownCurrent` of the worker, carried over by `WT`, says that it is current.

`LivePromptIsReachable` has two parts. That the panel knows of the prompt is `PanelIsCurrent`.
That the menu does not hide its button is

    WayInv == excused \/ unavailable = None \/ Asked

`Asked`: a refresh is under way, or a fetch among the steps. Opening the popup sends the one,
receiving it leaves the other, and the fetch clears `unavailable` or gives up, which
excuses. A command that overtakes the refresh, or is overtaken by it, and is refused does so too.

### The log store

The invariant the refinement needs, `OnlyTheLatest`, says that the retained log is the
latest attempt's and that nothing is held before the first: otherwise the page could
be another session's after a removal. One lemma shows that popping the front and
appending keeps the last lines that fit (`PushOntoKeepsTheLast`); it rests on the
library's theorems on sequences, which are proved there.

### Only model-checked

* All liveness properties, `TeardownEnds` to `OffMeansOff`: TLAPS does not reason about
  fairness.
* The four properties of the runs that end in a violation: the code does not have them.

## Not modelled

* Drawing: texts, layout, icons, translations, uptime and the `Tick` that redraws it.
  They show state and change none.
* The generated D-Bus proxies (`proxy.rs`), whose calls and signals are the actions of
  `Openvpn3` and of the configuration service in `Profiles`, and calls that fail while a
  proxy is made rather than when it is used (for an import, such a failure says nothing on the
  menu). A subscription that fails is one whose signals are lost (`Lossy`), and a status that
  does not decode is one that cannot be read.
* A system bus that cannot be reached: the worker publishes one snapshot that says so and
  ends.
* Two processes at once, which the lock prevents where there is a session bus, and a call
  of a dead process that reaches the service only after the next one has listed the
  sessions.
* The log store inside the worker, and log lines in the panel: `LogStore` drives the
  store with every order of inputs, the worker's among them.
* Packaging, tests and module declarations.

What could be built on this: liveness of the panel, for which `Applet` would need a fair
scheduler of its own and an instance TLC can take through its liveness check; the log store
inside the worker, for whose composition `LogStore` already has the interface.
