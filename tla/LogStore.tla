------------------------------ MODULE LogStore ------------------------------
(***************************************************************************)
(* The capture of session logs, crates/openvpn3-dbus/src/logbuf.rs, driven *)
(* the way the worker drives it (crates/applet/src/dbus.rs).               *)
(*                                                                         *)
(* Log, removal and attention signals come from forwarding tasks of their  *)
(* own.  Lines and notes about a session may therefore arrive after its    *)
(* removal has been handled, and a removal may be handled twice, once from *)
(* the signal and once from reconcile_teardown.  A line is an element of a *)
(* small set: nothing depends on its text.                                 *)
(***************************************************************************)
EXTENDS Integers, Sequences

CONSTANTS
  Session,   \* session object paths
  Config,    \* configuration object paths: a failed NewTunnel is noted there
  Line,      \* log entries, received or noted
  Requested, \* the capacity LogStore::new is called with
  None

ASSUME LogStoreAssumption ==
  /\ Requested \in Nat
  /\ None \notin Session \cup Config
  /\ Session \cap Config = {}
  /\ None \notin [path : Session \cup Config, lines : Seq(Line)]

VARIABLES
  buffers,    \* path -> lines, for some paths
  retained,   \* [path, lines] of a session that went away, or None
  mostRecent, \* most_recent: a path, or None
  known       \* the sessions the worker has begun, or adopted, and so
              \* subscribed to

vars == <<buffers, retained, mostRecent, known>>

Path == Session \cup Config

\* LogStore::new: there is always room for a line.
Capacity == IF Requested < 1 THEN 1 ELSE Requested

\* Mutant: one line too many is kept.
PushOntoOver(lines, l) ==
  Append(IF Len(lines) > Capacity THEN Tail(lines) ELSE lines, l)

\* At capacity the oldest line makes room.
PushOnto(lines, l) ==
  Append(IF Len(lines) = Capacity THEN Tail(lines) ELSE lines, l)

\* buffers with one of them set.
With(p, lines) ==
  [q \in DOMAIN buffers \cup {p} |-> IF q = p THEN lines ELSE buffers[q]]

Without(p) == [q \in DOMAIN buffers \ {p} |-> buffers[q]]

-----------------------------------------------------------------------------
Init ==
  /\ buffers = [p \in {} |-> <<>>]
  /\ retained = None
  /\ mostRecent = None
  /\ known = {}

\* new_tunnel, once the service has answered.
BeginSession(p) ==
  /\ p \notin known
  /\ retained' = None
  /\ buffers' = With(p, <<>>)
  /\ mostRecent' = p
  /\ known' = known \cup {p}

\* adopt_existing_sessions, once, before anything else.  No buffer is made.
AdoptExternalSession(p) ==
  /\ known = {} /\ mostRecent = None
  /\ retained' = None
  /\ mostRecent' = p
  /\ known' = {p}
  /\ UNCHANGED buffers

\* A Log signal: dropped if there is no buffer for it.
Push(p, l) ==
  /\ p \in known
  /\ p \in DOMAIN buffers
  /\ buffers' = With(p, PushOnto(buffers[p], l))
  /\ UNCHANGED <<retained, mostRecent, known>>

\* A note makes a buffer if there is none.
NoteLine(p, l) ==
  /\ p \in known \cup Config
  /\ buffers' = With(p, PushOnto(IF p \in DOMAIN buffers THEN buffers[p] ELSE <<>>, l))
  /\ mostRecent' = IF mostRecent = None THEN p ELSE mostRecent
  /\ UNCHANGED <<retained, known>>

\* Mutant: the log goes with the session.
RemoveSessionWhole(p) ==
  /\ p \in DOMAIN buffers
  /\ buffers' = Without(p)
  /\ UNCHANGED <<retained, mostRecent, known>>

\* The session object went away: its log is kept if it is the latest.
RemoveSession(p) ==
  /\ p \in DOMAIN buffers
  /\ buffers' = Without(p)
  /\ retained' =
       IF mostRecent = p THEN [path |-> p, lines |-> buffers[p]] ELSE retained
  /\ UNCHANGED <<mostRecent, known>>

Next ==
  \/ \E p \in Session :
       BeginSession(p) \/ AdoptExternalSession(p) \/ RemoveSession(p)
  \/ \E p \in Session, l \in Line : Push(p, l)
  \/ \E p \in Path, l \in Line : NoteLine(p, l)

Spec == Init /\ [][Next]_vars

\* most_recent(), and what publish makes of it: no lines and no buffer are the
\* same to the reader.
Page ==
  IF mostRecent \in DOMAIN buffers THEN buffers[mostRecent]
  ELSE IF retained # None /\ retained.path = mostRecent THEN retained.lines
  ELSE <<>>

-----------------------------------------------------------------------------
\* The lines of one session.
Buffer == {lines \in Seq(Line) : Len(lines) <= Capacity}

\* Every variable holds a value of its kind, and no buffer outgrows the
\* capacity, whatever mix of lines, notes and removals fills it.
TypeOK ==
  /\ DOMAIN buffers \subseteq Path
  /\ \A p \in DOMAIN buffers : buffers[p] \in Buffer
  /\ retained \in [path : Path, lines : Buffer] \cup {None}
  /\ mostRecent \in Path \cup {None}
  /\ known \subseteq Session

\* The page holds the last lines of the most recent attempt, also after its
\* session is gone, and gone twice.
Promise ==
  INSTANCE AttemptLog
    WITH attempt <- mostRecent, capturing <- mostRecent \in DOMAIN buffers,
         page <- Page, Room <- Capacity

ImplementsPromise == Promise!Spec
=============================================================================
