------------------------------ MODULE MCSocket ------------------------------
(* The socket table on five descriptors and a table limit of a few ids. *)
EXTENDS KSocket
=============================================================================
