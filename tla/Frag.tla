-------------------------------- MODULE Frag --------------------------------
(***************************************************************************)
(* frag_udp_message of crates/hysteria/src/internal/frag.rs, as UdpConn    *)
(* and QuinnUdpIo call it: how a message is cut so that each fragment,     *)
(* with its own copy of the header, fits a datagram.  A payload is a       *)
(* sequence of distinct bytes, a header only has a size.                   *)
(***************************************************************************)
EXTENDS Integers, Sequences, FiniteSetsExt

CONSTANTS U8,          \* 256 in the code: fragment ids and counts are u8
          MaxUdpSize   \* MAX_UDP_SIZE, the scratch buffer of a connection

\* Mutant: rounds down.
FloorDiv(n, d) == n \div d

\* usize::div_ceil.
CeilDiv(n, d) == (n + d - 1) \div d

\* The fragments a payload is cut into when at most p bytes fit.
Needed(len, p) == CeilDiv(len, p)

Unfragmented(d) == [fragId |-> 0, fragCount |-> 1, data |-> d]

(* frag_udp_message: nothing when not even the header fits; otherwise slices
   of p bytes.  The id and the count are truncated to a u8. *)
FragUdpMessage(d, h, m) ==
    IF h + Len(d) <= m THEN << Unfragmented(d) >>
    ELSE IF m <= h THEN << >>
    ELSE LET p == m - h
             n == Needed(Len(d), p)
         IN  [k \in 1 .. n |->
                [fragId    |-> (k - 1) % U8,
                 fragCount |-> n % U8,
                 data      |-> SubSeq(d, (k - 1) * p + 1, Min({k * p, Len(d)}))]]

Size(f, h) == h + Len(f.data)

(* UdpConn::send over QuinnUdpIo::send_message: a message that exceeds the
   scratch buffer is dropped silently; one that exceeds the datagram size is
   cut, one that does not goes out as it is. *)
SendMessage(d, h, m) ==
    IF h + Len(d) > MaxUdpSize THEN << >>
    ELSE IF h + Len(d) <= m THEN << Unfragmented(d) >>
    ELSE FragUdpMessage(d, h, m)

-----------------------------------------------------------------------------

\* feed: a fragment goes to the position that its id names,
Placed(wire) == [k \in DOMAIN wire |-> wire[CHOOSE i \in DOMAIN wire : wire[i].fragId = k - 1]]

\* and the payloads are joined position by position.
Join(placed) ==
    LET joined[k \in 0 .. Len(placed)] ==
            IF k = 0 THEN << >> ELSE joined[k - 1] \o placed[k].data
    IN  joined[Len(placed)]

\* Every datagram fits the path as it was when the message was sent, and none
\* is empty unless the message is.
Fitting(wire, d, h, m) ==
    \A k \in DOMAIN wire :
        /\ Size(wire[k], h) <= m
        /\ d # << >> => wire[k].data # << >>

\* Ids number the fragments from 0, and each names their true count.
Numbered(wire) ==
    /\ \A k \in DOMAIN wire : wire[k].fragCount = Len(wire)
    /\ {wire[k].fragId : k \in DOMAIN wire} = 0 .. Len(wire) - 1

\* What a message of data d leaves on the wire is fit for its receiver.  If it
\* goes out in fewer than 256 fragments it can be put together again: joined in
\* the order of their ids they are the message.
Cut(wire, d, h, m) ==
    /\ Fitting(wire, d, h, m)
    /\ wire # << >> /\ Len(wire) < U8 => Numbered(wire) /\ Join(Placed(wire)) = d
=============================================================================
