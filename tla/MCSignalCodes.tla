---------------------------- MODULE MCSignalCodes ----------------------------
(***************************************************************************)
(* SignalCodes for TLC: every code openvpn3 documents and the first        *)
(* unknown one of each kind.                                               *)
(***************************************************************************)
EXTENDS SignalCodes

CONSTANTS s1, s2

NarrowMajors == 0..6
NarrowMinors == 0..30
NarrowTypes  == 0..4
NarrowGroups == 0..10
NarrowEvents == 0..3

Known2 == (0..3) \X (0..9)
Prompted == {<<1, 1>>, <<1, 3>>, <<1, 4>>, <<1, 5>>}
=============================================================================
