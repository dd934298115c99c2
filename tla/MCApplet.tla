------------------------------ MODULE MCApplet ------------------------------
(***************************************************************************)
(* Applet for TLC.                                                         *)
(***************************************************************************)
EXTENDS Applet, TLC

CONSTANTS s1, s2, c1, c2, user, n1, n2

DialReports == {"Connecting"}
NoReports == {}

\* Every name is a label of its own, but for n2, which "n1.ovpn" would be.
Stem == [n \in Name |-> IF n = n2 THEN n1 ELSE n]
Plain == [n \in Name |-> n]

\* Sessions and profiles are interchangeable; names are not.
Symmetry == Permutations(Own) \cup Permutations(Config)
=============================================================================
