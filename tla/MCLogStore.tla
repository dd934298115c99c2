----------------------------- MODULE MCLogStore -----------------------------
(***************************************************************************)
(* LogStore for TLC: three attempts, profiles that cannot be started, and  *)
(* room for two lines.                                                     *)
(***************************************************************************)
EXTENDS LogStore, TLC

\* Only the order and the owner of lines matter.
Symmetry ==
  Permutations(Session) \cup Permutations(Config) \cup Permutations(Line)
=============================================================================
