------------------------------ MODULE TcpWire ------------------------------
(* TcpStream with the bytes of its requests and responses: whatever a server
   can write, and the parser that read_tcp_response runs on each prefix of it. *)
EXTENDS TcpStream, Wire

CONSTANTS
    Texts,          \* what a message or a padding may be, well-formed or not
    MaxRequest      \* bound: bytes of an address or a padding of a request

ASSUME TextAssumption ==
    /\ Texts \subseteq Seq(0 .. Byte - 1)
    /\ MaxRequest \in Nat /\ MaxRequest < Q * Power[7]

(* A number in any of the lengths that hold it: a peer may choose, the
   shortest or not. *)
Varint(i, t) == [BigEndian(i, Lengths[t]) EXCEPT ![1] = @ + (t - 1) * Q]

Varints(i) == {Varint(i, t) : t \in {u \in 1 .. 4 : i < Q * Power[Lengths[u] - 1]}}

(* A block of some bytes, and the length of one that is too long. *)
Blocks(set, max) ==
    UNION {{v \o b : v \in Varints(Len(b))} : b \in {t \in set : Len(t) <= max}}

TooLong(max) ==
    UNION {Varints(i) : i \in {j \in {max + 1, Byte + max + 1, Q * Power[3] - 1} : j > max}}

(* Messages that can be decoded and that cannot, paddings, and the responses
   made of them that the reader needs HeaderLen bytes to judge. *)
Decodable == Blocks({m \in Texts : Utf8(m)}, MaxMessageLength)
Undecodable == Blocks({m \in Texts : ~ Utf8(m)}, MaxMessageLength)
Paddings == Blocks(Texts, MaxPaddingLength)

Of(status, messages, paddings) ==
    {r \in {<<t[1]>> \o t[2] \o t[3] : t \in status \X messages \X paddings} :
        Len(r) = HeaderLen}

Responses ==
    [ok      |-> Of({0}, Decodable, Paddings),
     refused |-> Of({1, Byte - 1}, Decodable, Paddings),
     invalid |-> Of({0, 1}, TooLong(MaxMessageLength), {<< >>})
                    \cup Of({0, 1}, Decodable \cup Undecodable, TooLong(MaxPaddingLength))
                    \cup Of({0, 1}, Undecodable, Paddings)]

(* What follows the response: data that could be mistaken for more of it. *)
Follow == {[i \in 1 .. DataLen |-> b] : b \in {0, 1, Byte - 1}}

(* The parser's verdict on the first n bytes of a response and its data. *)
Verdicts ==
    [answered \in DOMAIN Responses |->
        [n \in 0 .. HeaderLen + DataLen |->
            {ReadTcpResponse(SubSeq(t[1] \o t[2], 1, n)) : t \in Responses[answered] \X Follow}]]

(* The server's reader of a request: the frame type, the address and the
   padding, and nothing after them. *)
ReadTcpRequest(s) ==
    LET type    == VarintRead(s)
        addr    == ReadBlock(type.rest, MaxRequest)
        padding == ReadBlock(addr.rest, MaxRequest)
    IN  IF type.kind # "ok" THEN type
        ELSE IF addr.kind # "ok" THEN addr
        ELSE IF padding.kind # "ok" THEN padding
        ELSE Read("ok", <<type.value, addr.value>>, padding.rest)

\* Every address and every padding up to the bound is read as it was written.
RequestsRead ==
    \A n, k \in 0 .. MaxRequest :
        LET addr == [i \in 1 .. n |-> i % Byte]
        IN  ReadTcpRequest(WriteTcpRequest(addr, [i \in 1 .. k |-> 1]))
                = Read("ok", <<FrameTypeTcpRequest, addr>>, << >>)

\* The client and the server understand each other.  The request that tcp writes
\* is read as it was meant.  And the loop of read_tcp_response may run its
\* parser again after each chunk: on any prefix of any response, however its
\* lengths are written and whatever data follows, the parser asks for more until
\* the response is complete, and then gives the answer and its exact end, or
\* the error.
ParserAgrees ==
    /\ state = "new" => RequestsRead
    /\ \A v \in Verdicts[answer][Len(buf)] :
          /\ v.kind = "invalid" <=> ResponseInvalid
          /\ v.kind = "ok" <=> ResponseEnd > 0
          /\ v.kind = "ok" =>
                /\ v.value.ok = (answer = "ok")
                /\ Len(buf) - Len(v.rest) = ResponseEnd
=============================================================================
