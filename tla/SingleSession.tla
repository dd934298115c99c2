---------------------------- MODULE SingleSession ----------------------------
(***************************************************************************)
(* What the worker promises of the tunnels it starts (R5, R6 and AE1 of    *)
(* the plan, docs/plans): one session at a time, started only while the    *)
(* user wants a profile, and dialled only until it is told to go.          *)
(*                                                                         *)
(* Worker, with its signals, ticks and teardowns, implements it; a session *)
(* from a terminal is not its subject.                                     *)
(***************************************************************************)
CONSTANTS Own, Config, None

VARIABLES
  wanted,    \* the profile the user last chose, or None
  live,      \* the sessions that hold a tunnel or may come to
  dialled,   \* those of them that were dialled
  leaving    \* those of them that were told to go

\* The user chooses a profile, or none.
Choose(c) ==
  /\ wanted' = c
  /\ UNCHANGED <<live, dialled, leaving>>

Start(s) ==
  /\ wanted # None
  /\ live = {}
  /\ live' = {s}
  /\ UNCHANGED <<wanted, dialled, leaving>>

Dial(s) ==
  /\ s \in live \ leaving
  /\ dialled' = dialled \cup {s}
  /\ UNCHANGED <<wanted, live, leaving>>

Tell(s) ==
  /\ s \in live
  /\ leaving' = leaving \cup {s}
  /\ UNCHANGED <<wanted, live, dialled>>

\* By itself, or because it was told to.
End(s) ==
  /\ s \in live
  /\ live' = live \ {s}
  /\ dialled' = dialled \ {s}
  /\ leaving' = leaving \ {s}
  /\ UNCHANGED wanted

Next ==
  \/ \E c \in Config \cup {None} : Choose(c)
  \/ \E s \in Own : Start(s) \/ Dial(s) \/ Tell(s) \/ End(s)

Init ==
  /\ wanted = None
  /\ live = {}
  /\ dialled = {}
  /\ leaving = {}

Spec == Init /\ [][Next]_<<wanted, live, dialled, leaving>>
=============================================================================
