------------------------------ MODULE MCWorker ------------------------------
(***************************************************************************)
(* Worker for TLC.                                                         *)
(***************************************************************************)
EXTENDS Worker, TLC

CONSTANTS s1, s2, s3, c1, c2, user, web

AllReports == StatusClass
EndReports == {"Connected", "Disconnected"}
FewReports == {"Connecting", "Connected", "Disconnected"}

\* Sessions of one kind and profiles are interchangeable.
Symmetry == Permutations(Own) \cup Permutations(Config)
=============================================================================
