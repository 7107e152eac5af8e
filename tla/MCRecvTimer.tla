----------------------------- MODULE MCRecvTimer -----------------------------
(* The receive timers on a fixed table of three UDP sockets. *)
EXTENDS KRecvTimer
=============================================================================
