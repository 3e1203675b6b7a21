---------------------------- MODULE MCTcpStream ----------------------------
(* TcpWire with the texts of up to two bytes, of which the first is the least or
   the largest when there are two. *)
EXTENDS TcpWire

Strings(n) == UNION {[1 .. k -> 0 .. Byte - 1] : k \in 0 .. n}

MCTexts == {s \in Strings(2) : Len(s) <= 1 \/ s[1] \in {0, Byte - 1}}
=============================================================================
