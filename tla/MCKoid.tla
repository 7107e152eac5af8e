------------------------------- MODULE MCKoid -------------------------------
(* koid with one or two clients on a small table. *)
EXTENDS Koid

MCIds == -1..SOCKET_MAXNUM
MCBodies == 0..MaxMsgs
=============================================================================
