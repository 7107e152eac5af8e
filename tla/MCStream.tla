------------------------------ MODULE MCStream ------------------------------
(* A DNS and a SIP connection, or three DNS connections. *)
EXTENDS KStream

MCPayloads == [s \in Streams |-> IF s % 2 = 0 THEN "SIP" ELSE "DNS"]
MCAllDns == [s \in Streams |-> "DNS"]
MCContents == [p \in {"DNS", "SIP"} |->
                 IF p = "SIP" THEN {<<>>, <<Text, Crlf>>} ELSE {<<>>, <<0, 1>>}]
MCOneByte == [p \in {"DNS"} |-> {<<1>>}]
=============================================================================
