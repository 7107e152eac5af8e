---------------------------- MODULE MCCloseTimer ----------------------------
(* The close timer on a table of two slots with ids below, at and above 0: *)
(* -1 and 0 are ids kSocketClose treats specially, and three valid ids     *)
(* compete for two slots, so that the table fills up.                      *)
EXTENDS KCloseTimer

MCSocketIds == {-1, 0, 1, 2}
=============================================================================
