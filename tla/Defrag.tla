------------------------------- MODULE Defrag -------------------------------
(***************************************************************************)
(* The path of UDP messages that do not fit a datagram: UdpConn::send of   *)
(* crates/hysteria/src/client/udp.rs cuts a message into fragments under a *)
(* random packet id, the network reorders, loses and repeats them, and the *)
(* receiving session's Defragger of internal/frag.rs puts them together.   *)
(*                                                                         *)
(* The Defragger keeps one packet id at a time.  Payload bytes are         *)
(* abstracted to <<m, i>>, the i-th piece of message m; how a message is   *)
(* cut is the subject of module Frag.  The "size" field only reserves the  *)
(* buffer and is left out.  The count is a u8: in a release build it wraps.*)
(***************************************************************************)
EXTENDS Integers, FiniteSets

CONSTANTS Msgs,       \* messages that may be sent
          Pieces,     \* into how many fragments each is cut; 1: it fits
          PktIds,     \* u16 packet ids
          None,       \* Option::None, and a message not sent yet
          U8,         \* 256 in the code
          MaxCopies   \* bound: how often one fragment may arrive

ASSUME DefragAssumption ==
    /\ U8 \in Nat \ {0}
    /\ Pieces \in [Msgs -> 1 .. U8 - 1]
    /\ PktIds \subseteq Nat /\ 0 \in PktIds
    /\ None \notin PktIds
    /\ \A m \in Msgs, i \in 0 .. U8 - 1 : <<m, i>> # None
    /\ MaxCopies \in Nat

VARIABLES
    sent,   \* the packet id each message was sent under
    pktId, frags, count,   \* the Defragger; frags has positions 0 .. total - 1
    total,  \* frags.len()
    out,    \* what the last feed returned
    copies, \* history: how often each fragment arrived
    times,  \* history: how often each message was returned whole
    since,  \* history: the positions fed since the last reset
    runs    \* history: messages returned since the last reset

defragger == <<pktId, frags, count, total>>
history   == <<copies, times, since, runs>>
vars == <<sent, defragger, out, history>>

Positions(n) == 0 .. n - 1

\* The payloads of m, in order.
Whole(m) == [i \in Positions(Pieces[m]) |-> <<m, i>>]

Payload == {<<m, i>> : m \in Msgs, i \in Positions(U8)}

IsSent(m) == sent[m] # None

TypeOK ==
    /\ sent \in [Msgs -> PktIds \cup {None}]
    /\ pktId \in PktIds
    /\ total \in Positions(U8)
    /\ frags \in [Positions(total) -> Payload \cup {None}]
    /\ count \in Positions(U8)
    /\ copies \in [Msgs -> [Positions(U8) -> 0 .. MaxCopies]]
    /\ times \in [Msgs -> Nat]
    /\ since \subseteq Positions(total)
    /\ runs \in {0, 1}

(* Defragger::default. *)
Init ==
    /\ sent = [m \in Msgs |-> None]
    /\ pktId = 0
    /\ total = 0
    /\ frags = [i \in Positions(0) |-> None]
    /\ count = 0
    /\ out = None
    /\ copies = [m \in Msgs |-> [i \in Positions(U8) |-> 0]]
    /\ times = [m \in Msgs |-> 0]
    /\ since = {}
    /\ runs = 0

-----------------------------------------------------------------------------

(* UdpConn::send: packet id 0 when the message fits, a random id from 1 on
   when it has to be cut; ids may repeat. *)
Send(m) ==
    /\ ~IsSent(m)
    /\ \E p \in PktIds :
          /\ p = 0 <=> Pieces[m] = 1
          /\ sent' = [sent EXCEPT ![m] = p]
    /\ UNCHANGED <<defragger, out, history>>

\* The network delivers fragment i of m, late, early or again.  A fragment
\* that is never delivered is lost.
Arrives(m, i) ==
    /\ IsSent(m)
    /\ i \in Positions(Pieces[m])
    /\ copies[m][i] < MaxCopies
    /\ copies' = [copies EXCEPT ![m][i] = @ + 1]

\* Mutant: only the number of fragments is compared.
ForeignByCount(m) == Pieces[m] # total

\* The Defragger works on another message than this fragment's.
Foreign(m) == sent[m] # pktId \/ Pieces[m] # total

(* feed, frag_count <= 1: the message is returned as it is. *)
FeedWhole(m) ==
    /\ Arrives(m, 0)
    /\ Pieces[m] <= 1
    /\ out' = Whole(m)
    /\ times' = [times EXCEPT ![m] = @ + 1]
    /\ UNCHANGED <<sent, defragger, since, runs>>

(* feed, frag_id >= frag_count: ignored.  The peer made a mistake. *)
FeedMalformed ==
    /\ out' = None
    /\ UNCHANGED <<sent, defragger, history>>

\* Mutant: the first fragment is not counted.
FeedNewUncounted(m, i) ==
    /\ Arrives(m, i)
    /\ Pieces[m] > 1
    /\ Foreign(m)
    /\ pktId' = sent[m]
    /\ total' = Pieces[m]
    /\ frags' = [j \in Positions(Pieces[m]) |-> IF j = i THEN <<m, i>> ELSE None]
    /\ count' = 0
    /\ out' = None
    /\ since' = {i}
    /\ runs' = 0
    /\ UNCHANGED <<sent, times>>

(* feed, another message: what was collected is discarded. *)
FeedNew(m, i) ==
    /\ Arrives(m, i)
    /\ Pieces[m] > 1
    /\ Foreign(m)
    /\ pktId' = sent[m]
    /\ total' = Pieces[m]
    /\ frags' = [j \in Positions(Pieces[m]) |-> IF j = i THEN <<m, i>> ELSE None]
    /\ count' = 1
    /\ out' = None
    /\ since' = {i}
    /\ runs' = 0
    /\ UNCHANGED <<sent, times>>

\* A fragment of the current message arrives and its position is free.
Fills(m, i) ==
    /\ Arrives(m, i)
    /\ Pieces[m] > 1
    /\ ~Foreign(m)
    /\ frags[i] = None
    /\ count' = (count + 1) % U8
    /\ since' = since \cup {i}
    /\ UNCHANGED <<sent, pktId, total>>

(* feed, still incomplete. *)
FeedFills(m, i) ==
    /\ Fills(m, i)
    /\ count' # total
    /\ frags' = [frags EXCEPT ![i] = <<m, i>>]
    /\ out' = None
    /\ UNCHANGED <<times, runs>>

\* Mutant: the fragment that completes the message is not counted.
FeedCompletesUncounted(m, i) ==
    /\ Arrives(m, i)
    /\ Pieces[m] > 1
    /\ ~Foreign(m)
    /\ frags[i] = None
    /\ count + 1 = total
    /\ out' = [frags EXCEPT ![i] = <<m, i>>]
    /\ times' = [n \in Msgs |-> IF out' = Whole(n) THEN times[n] + 1 ELSE times[n]]
    /\ runs' = 1
    /\ since' = since \cup {i}
    /\ UNCHANGED <<sent, defragger>>

(* feed, complete: the payloads are joined, and the fragment that completed
   them is taken out of its position. *)
FeedCompletes(m, i) ==
    /\ Fills(m, i)
    /\ count' = total
    /\ frags' = frags
    /\ out' = [frags EXCEPT ![i] = <<m, i>>]
    /\ times' = [n \in Msgs |-> IF out' = Whole(n) THEN times[n] + 1 ELSE times[n]]
    /\ runs' = runs + 1

(* feed, the position is taken. *)
FeedDuplicate(m, i) ==
    /\ Arrives(m, i)
    /\ Pieces[m] > 1
    /\ ~Foreign(m)
    /\ frags[i] # None
    /\ out' = None
    /\ since' = since \cup {i}
    /\ UNCHANGED <<sent, defragger, times, runs>>

Next ==
    \/ FeedMalformed
    \/ \E m \in Msgs :
          \/ Send(m)
          \/ FeedWhole(m)
          \/ \E i \in Positions(Pieces[m]) :
                \/ FeedNew(m, i) \/ FeedFills(m, i)
                \/ FeedCompletes(m, i) \/ FeedDuplicate(m, i)

Spec == Init /\ [][Next]_vars

-----------------------------------------------------------------------------

\* No two cut messages look alike: a packet id was not drawn again for a
\* message of as many fragments.
NoCollision ==
    \A m, n \in Msgs :
        (/\ IsSent(m) /\ IsSent(n)
         /\ Pieces[m] > 1 /\ Pieces[m] = Pieces[n]
         /\ sent[m] = sent[n]) => m = n

\* Without a collision of packet ids, what feed returns is a message that was
\* sent, whole and in order, however its fragments arrived.
NeverMixed ==
    NoCollision /\ out # None => \E m \in Msgs : IsSent(m) /\ out = Whole(m)

\* Without a collision a message is returned at most as often as each of its
\* fragments arrived: a repeated fragment alone returns nothing.
NoPhantom ==
    NoCollision =>
        \A m \in Msgs : \A i \in Positions(Pieces[m]) : times[m] <= copies[m][i]

\* A message is returned exactly when the last of its positions is fed
\* without a reset in between, and once: not before, and not again for the
\* copies that come after, even when the count wraps.
ReturnedWhenComplete ==
    total > 0 => (runs = 1 <=> since = Positions(total))

\* What the Defragger holds, for the proofs: pieces of the current packet id,
\* at their positions, counted; after a return one position may be free.
Holds ==
    \A j \in Positions(total) :
        frags[j] # None =>
            /\ j \in since
            /\ \E m \in Msgs : /\ IsSent(m) /\ ~Foreign(m)
                               /\ frags[j] = <<m, j>>

Counted ==
    \/ /\ total = 0 /\ runs = 0
    \/ /\ total > 1 /\ runs = 0
       /\ since = {j \in Positions(total) : frags[j] # None}
       /\ since # Positions(total)
       /\ count = Cardinality(since)
    \/ /\ total > 1 /\ runs = 1
       /\ since = Positions(total)
       /\ \/ \A j \in Positions(total) : frags[j] # None
          \/ /\ count = total
             /\ \A j, k \in Positions(total) :
                   frags[j] = None /\ frags[k] = None => j = k

\* A piece of m that is held has not been returned yet.
Unspent(m, i) == runs = 0 /\ i \in since /\ IsSent(m) /\ ~Foreign(m)

\* What makes NoPhantom inductive: every return of m has used up a copy of each
\* of its pieces, and a piece that waits in the Defragger is a further copy.
CopiesCover ==
    NoCollision =>
        \A m \in Msgs : \A i \in Positions(Pieces[m]) :
            /\ times[m] <= copies[m][i]
            /\ Unspent(m, i) => times[m] < copies[m][i]

DefragInv == TypeOK /\ Holds /\ Counted /\ NeverMixed
=============================================================================
