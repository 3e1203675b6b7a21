------------------------------ MODULE UdpWire ------------------------------
(* Defrag with the bytes of its messages: every message that may be sent, how
   Frag cuts it for the path, what Wire makes of each fragment, and the payload
   that the receiver returns. *)
EXTENDS Defrag, Sequences

CONSTANTS
    MaxUdpSize,                             \* of Frag
    Q, MaxMessageLength, MaxPaddingLength,  \* of Wire
    Payloads,       \* what may be sent
    Headers,        \* its session, packet id and address
    Paths           \* sizes of the datagrams that a path carries

F == INSTANCE Frag

W == INSTANCE Wire

ASSUME UdpAssumption ==
    /\ W!WireAssumption
    /\ U8 <= W!Byte
    /\ MaxMessageLength < Q * W!Power[7]
    /\ Payloads \subseteq Seq(0 .. W!Byte - 1)
    /\ \A h \in Headers :
          /\ h.session \in 0 .. W!Byte * W!Power[3] - 1
          /\ h.packet \in 0 .. W!Byte * W!Power[1] - 1
          /\ h.addr \in Seq(0 .. W!Byte - 1) /\ W!Utf8(h.addr)
          /\ Len(h.addr) \in 1 .. MaxMessageLength
    /\ Paths \subseteq Nat

(* UdpConn::send of a payload with a header over a path: the fragments, and the
   message that each becomes. *)
Sendings == Payloads \X Headers \X Paths

Sent == [s \in Sendings |-> F!SendMessage(s[1], W!HeaderSize(s[2]), s[3])]

Message(h, f) ==
    [session |-> h.session, packet |-> h.packet, addr |-> h.addr,
     fragId |-> f.fragId, fragCount |-> f.fragCount, data |-> f.data]

\* The fragments fit, are numbered, and can be put together.
AllCut == \A s \in Sendings : F!Cut(Sent[s], s[1], W!HeaderSize(s[2]), s[3])

\* The bytes of a fragment fit the datagram, and parse_udp_message reads from
\* them what serialize wrote; only an empty payload is not read at all.
AllRead ==
    \A s \in Sendings : \A k \in DOMAIN Sent[s] :
        LET m == Message(s[2], Sent[s][k])
            bytes == W!Serialize(m)
        IN  /\ Len(bytes) <= s[3]
            /\ W!ParseUdpMessage(bytes) =
                  IF m.data = << >> THEN W!Invalid ELSE W!Read("ok", m, << >>)

\* The different messages that go out, by the number of their fragments.
Distinct == [n \in 1 .. U8 - 1 |->
                {<<s[1], Sent[s]>> : s \in {t \in Sendings : Len(Sent[t]) = n}}]

\* The payload that feed has returned, when the fragments it was fed are those
\* of wire.
Assembled(wire) == F!Join([k \in DOMAIN wire |-> wire[out[k - 1][2] + 1]])

\* From end to end: frag_udp_message cuts a message so that the bytes of the
\* fragments fit the path and can be told apart, parse_udp_message reads of each
\* what serialize wrote, and without a collision of packet ids what feed
\* returns, whatever order the fragments came in, is the payload of one message
\* that was sent, whatever that payload is.
FitsAndJoins ==
    /\ AllCut
    /\ AllRead
    /\ NoCollision /\ out # None =>
          \E m \in Msgs :
              /\ IsSent(m)
              /\ DOMAIN out = Positions(Pieces[m])
              /\ \A i \in DOMAIN out : out[i][1] = m
              /\ \A d \in Distinct[Pieces[m]] : Assembled(d[2]) = d[1]
=============================================================================
