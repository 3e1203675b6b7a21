-------------------------------- MODULE Wire --------------------------------
(* What hysteria's client reads and writes, byte by byte: the QUIC varint
   (internal/protocol/varint.rs), the TCP request and response and the UDP
   message (internal/protocol/proxy.rs).

   A byte is its two top bits, which are the length of a varint, and the rest;
   the rest has Q values. *)
EXTENDS Integers, Sequences

CONSTANTS
    Q,                  \* 64 in the code
    MaxMessageLength,   \* MAX_MESSAGE_LENGTH, 2048
    MaxPaddingLength    \* MAX_PADDING_LENGTH, 4096

ASSUME WireAssumption == {Q, MaxMessageLength, MaxPaddingLength} \subseteq Nat \ {0}

Byte == 4 * Q    \* the values of a byte

(* What a byte weighs, by its place from the right. *)
Power[n \in 0 .. 7] == IF n = 0 THEN 1 ELSE Byte * Power[n - 1]

(* Big-endian digits, and what they mean. *)
BigEndian(i, n) == [k \in 1 .. n |-> (i \div Power[n - k]) % Byte]

Number(bytes) ==
    LET value[k \in 0 .. Len(bytes)] ==
            IF k = 0 THEN 0 ELSE value[k - 1] * Byte + bytes[k]
    IN  value[Len(bytes)]

(* The lengths a varint may have, by its two top bits. *)
Lengths == <<1, 2, 4, 8>>

(* varint::len: the shortest that holds the value. *)
VarintLen(i) ==
    Lengths[CHOOSE t \in 1 .. 4 :
        /\ t = 4 \/ i < Q * Power[Lengths[t] - 1]
        /\ \A s \in 1 .. t - 1 : i >= Q * Power[Lengths[s] - 1]]

(* varint::put. *)
VarintPut(i) ==
    LET n == VarintLen(i)
        tag == CHOOSE t \in 1 .. 4 : Lengths[t] = n
    IN  [BigEndian(i, n) EXCEPT ![1] = @ + (tag - 1) * Q]

\* Reading gives "ok" with a value and the rest, or an error: "more" when the
\* input ends (UnexpectedEof), "invalid" when it breaks a rule.
Read(kind, value, rest) == [kind |-> kind, value |-> value, rest |-> rest]

More == Read("more", << >>, << >>)
Invalid == Read("invalid", << >>, << >>)

(* read_exact and discard_exact. *)
ReadExact(s, n) ==
    IF Len(s) < n THEN More
    ELSE Read("ok", SubSeq(s, 1, n), SubSeq(s, n + 1, Len(s)))

(* varint::read. *)
VarintRead(s) ==
    IF s = << >> THEN More
    ELSE LET r == ReadExact(s, Lengths[(s[1] \div Q) + 1])
         IN  IF r.kind # "ok" THEN r
             ELSE Read("ok", Number([r.value EXCEPT ![1] = @ % Q]), r.rest)

(* String::from_utf8: a character is a byte of the lower half, or one of the
   last quarter with one of the third after it.  (Characters of three and four
   bytes are left out.) *)
Utf8(bytes) ==
    \A i \in DOMAIN bytes :
        /\ bytes[i] >= 3 * Q =>
              i < Len(bytes) /\ bytes[i + 1] \in 2 * Q .. 3 * Q - 1
        /\ bytes[i] \in 2 * Q .. 3 * Q - 1 => i > 1 /\ bytes[i - 1] >= 3 * Q

\* Mutant: the limit itself is refused.
ReadBlockBelow(s, max) ==
    LET n == VarintRead(s)
    IN  IF n.kind # "ok" THEN n
        ELSE IF n.value >= max THEN Invalid
        ELSE ReadExact(n.rest, n.value)

(* A varint and as many bytes. *)
ReadBlock(s, max) ==
    LET n == VarintRead(s)
    IN  IF n.kind # "ok" THEN n
        ELSE IF n.value > max THEN Invalid
        ELSE ReadExact(n.rest, n.value)

Block(bytes) == VarintPut(Len(bytes)) \o bytes

-----------------------------------------------------------------------------

(* write_tcp_request. *)
FrameTypeTcpRequest == Byte * 4 + 1     \* 0x401

WriteTcpRequest(addr, padding) ==
    VarintPut(FrameTypeTcpRequest) \o Block(addr) \o Block(padding)

(* read_tcp_response: status, message, padding; the message is decoded last. *)
ReadTcpResponse(s) ==
    LET status  == ReadExact(s, 1)
        message == ReadBlock(status.rest, MaxMessageLength)
        padding == ReadBlock(message.rest, MaxPaddingLength)
    IN  IF status.kind # "ok" THEN status
        ELSE IF message.kind # "ok" THEN message
        ELSE IF padding.kind # "ok" THEN padding
        ELSE IF ~ Utf8(message.value) THEN Invalid
        ELSE Read("ok", [ok |-> status.value = <<0>>, message |-> message.value], padding.rest)

-----------------------------------------------------------------------------

(* UdpMessage::header_size and size. *)
HeaderSize(m) == 4 + 2 + 1 + 1 + VarintLen(Len(m.addr)) + Len(m.addr)

MessageSize(m) == HeaderSize(m) + Len(m.data)

(* UdpMessage::serialize, into a buffer that is large enough. *)
Serialize(m) ==
    BigEndian(m.session, 4) \o BigEndian(m.packet, 2) \o <<m.fragId, m.fragCount>>
        \o Block(m.addr) \o m.data

(* parse_udp_message: an address of one byte at least, and so much data. *)
ParseUdpMessage(s) ==
    LET header == ReadExact(s, 8)
        length == VarintRead(header.rest)
        addr   == ReadExact(length.rest, length.value)
    IN  IF header.kind # "ok" THEN header
        ELSE IF length.kind # "ok" THEN length
        ELSE IF length.value \notin 1 .. MaxMessageLength THEN Invalid
        ELSE IF Len(length.rest) <= length.value THEN Invalid
        ELSE IF ~ Utf8(addr.value) THEN Invalid
        ELSE Read("ok",
                  [session   |-> Number(SubSeq(s, 1, 4)),
                   packet    |-> Number(SubSeq(s, 5, 6)),
                   fragId    |-> s[7],
                   fragCount |-> s[8],
                   addr      |-> addr.value,
                   data      |-> addr.rest], << >>)
=============================================================================
