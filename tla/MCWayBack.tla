------------------------------ MODULE MCWayBack ------------------------------
(***************************************************************************)
(* WayBack for TLC.                                                        *)
(***************************************************************************)
EXTENDS MCApplet, WayBack
=============================================================================
