------------------------------ MODULE MCBtCltn ------------------------------
(* Elements 1 .. 5, of which 5 is another object with the key of 1 *)
EXTENDS BtCltn

MCKey == [e \in Elements |-> IF e = 5 THEN 1 ELSE e]
=============================================================================
