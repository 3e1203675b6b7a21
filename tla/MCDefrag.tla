------------------------------ MODULE MCDefrag ------------------------------
(* Three messages on a path whose datagrams have room for two bytes after   *)
(* the header: two are cut, as Frag cuts them, into as many fragments as a  *)
(* count of two bits can number, so that their packet ids may collide, and  *)
(* one fits.                                                                *)
EXTENDS UdpWire

CONSTANTS
    a, b, w,
    MaxPayload,   \* bound: bytes of a payload
    MaxDatagram   \* bound: the largest datagram of a path

MCMsgs == {a, b, w}

Bytes(n) == [i \in 1 .. n |-> i]

MCPayloads == {Bytes(n) : n \in 0 .. MaxPayload}

\* Headers of every size up to that of an address whose length takes two bytes,
\* with a session and a packet id of several bytes.
MCHeaders ==
    {[session |-> W!Byte + 1, packet |-> W!Byte, addr |-> Bytes(n)] : n \in 1 .. MaxMessageLength}

MCPaths == 0 .. MaxDatagram

MCPieces ==
    [m \in MCMsgs |->
        Len(F!SendMessage(Bytes(CASE m = a -> 5 [] m = b -> 6 [] m = w -> 2), 1, 3))]
=============================================================================
