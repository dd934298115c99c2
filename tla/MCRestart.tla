------------------------------ MODULE MCRestart ------------------------------
(***************************************************************************)
(* Restart for TLC.                                                        *)
(***************************************************************************)
EXTENDS Restart, TLC

CONSTANTS s1, s2, x1, c1

EndReports == {"Connected", "Disconnected"}

\* Sessions of one kind are interchangeable.
Symmetry == Permutations(Own)
=============================================================================
