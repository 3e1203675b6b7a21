------------------------------- MODULE Socks5 -------------------------------
(* One connection to the SOCKS5 front-end (transport-socks5): the handshake,
   CONNECT and BIND, and the loop of a UDP association, which relays between a
   local UDP socket and a session of the hysteria client while the control
   connection stays open.  Module Socks5Client runs it with the client. *)
EXTENDS Integers, Sequences

CONSTANTS
    Peers,      \* local processes that can reach the relay socket
    MaxInbox,   \* bound: datagrams waiting at the relay socket
    MaxReplies, \* bound: messages waiting in the session
    None

VARIABLES
    phase,      \* "accepted", "tunnel", "relay" or "ended"
    told,       \* the SOCKS5 reply sent to the client
    control,    \* the client keeps its TCP connection open
    link,       \* the client's QUIC connection lives; it is the client that changes it
    session,    \* the UDP session: "none", "open" or "closed"
    inbox,      \* datagrams waiting at the relay socket
    replies,    \* messages waiting in the session
    clientAddr, \* client_addr: the sender the association is pinned to
    used,       \* history: whose datagrams entered the tunnel
    answered    \* history: who was sent a reply

vars == <<phase, told, control, link, session, inbox, replies, clientAddr, used,
          answered>>

Datagram == [from : Peers, framing : {"whole", "other"}]
Reply == {"address", "name"}    \* what the message says it comes from

(* serve has accepted a connection and spawned handle for it. *)
Init ==
    /\ phase = "accepted" /\ told = None
    /\ control = TRUE
    /\ session = "none"
    /\ inbox = << >> /\ replies = << >> /\ clientAddr = None
    /\ used = {} /\ answered = {}

-----------------------------------------------------------------------------

\* The handler returns: what it owns is dropped, the session is closed.
Returns ==
    /\ phase' = "ended"
    /\ session' = IF session = "open" THEN "closed" ELSE session

Relaying == <<inbox, replies, clientAddr, used, answered>>

\* A SOCKS5 reply is written, which may fail once the client has left.
Tells(reply) == told' = reply \/ (~control /\ UNCHANGED told)

(* handle: the handshake or the command cannot be read. *)
HandshakeFails ==
    /\ phase = "accepted"
    /\ Returns
    /\ UNCHANGED <<told, control, link, Relaying>>

(* BIND is answered with an error. *)
HandleBind ==
    /\ phase = "accepted"
    /\ Tells("commandNotSupported")
    /\ Returns
    /\ UNCHANGED <<control, link, Relaying>>

(* CONNECT: the tunnel is opened first; the dial fails, the reply cannot be
   written, or the two streams are spliced. *)
HandleConnect ==
    /\ phase = "accepted"
    /\ \/ Tells("hostUnreachable") /\ Returns
       \/ link /\ told' = "success" /\ phase' = "tunnel" /\ UNCHANGED session
       \/ link /\ ~control /\ UNCHANGED told /\ Returns
    /\ UNCHANGED <<control, link, Relaying>>

(* copy_bidirectional ends, or fails. *)
SpliceEnds ==
    /\ phase = "tunnel"
    /\ Returns
    /\ UNCHANGED <<told, control, link, Relaying>>

(* UDP ASSOCIATE: the relay socket cannot be bound; or the client has no
   session to give, because the server disabled UDP or the link is gone; or
   the client is told where to send.  A reply that cannot be written drops the
   session again.  The session manager may give a session out before it has
   noticed that the link is gone. *)
HandleUdpAssociate ==
    /\ phase = "accepted"
    /\ \/ UNCHANGED told /\ Returns
       \/ Tells("generalFailure") /\ Returns
       \/ told' = "success" /\ phase' = "relay" /\ session' = "open"
       \/ ~control /\ UNCHANGED told /\ phase' = "ended" /\ session' = "closed"
    /\ UNCHANGED <<control, link, Relaying>>

\* Mutant: the association follows the last sender.
FromClientRepins ==
    /\ phase = "relay" /\ inbox # << >>
    /\ LET d == Head(inbox)
       IN  /\ clientAddr' = d.from
           /\ used' = IF d.framing = "whole" THEN used \cup {d.from} ELSE used
    /\ inbox' = Tail(inbox)
    /\ UNCHANGED <<phase, told, control, link, session, replies, answered>>

(* The first arm: the first sender is pinned, whatever it sent; others are
   ignored.  A fragment, or what does not parse, is not passed on.  The send
   may fail, or the datagram get lost: then nobody answers. *)
FromClient ==
    /\ phase = "relay" /\ inbox # << >>
    /\ LET d == Head(inbox)
       IN  IF clientAddr \notin {None, d.from}
           THEN UNCHANGED <<clientAddr, used>>
           ELSE /\ clientAddr' = d.from
                /\ used' = IF d.framing = "whole" THEN used \cup {d.from} ELSE used
    /\ inbox' = Tail(inbox)
    /\ UNCHANGED <<phase, told, control, link, session, replies, answered>>

(* The second arm: a message goes to the pinned client, unless there is none
   or the message's origin is not an address. *)
FromTunnel ==
    /\ phase = "relay" /\ replies # << >>
    /\ answered' = IF clientAddr # None /\ Head(replies) = "address"
                   THEN answered \cup {clientAddr} ELSE answered
    /\ replies' = Tail(replies)
    /\ UNCHANGED <<phase, told, control, link, session, inbox, clientAddr, used>>

\* Mutant: a session that ended is polled for ever.
TunnelEndsIgnored ==
    /\ phase = "relay" /\ replies = << >> /\ ~link
    /\ UNCHANGED vars

(* The second arm: the session returns EOF. *)
TunnelEnds ==
    /\ phase = "relay" /\ replies = << >> /\ ~link
    /\ Returns
    /\ UNCHANGED <<told, control, link, Relaying>>

(* Either socket operation of the relay fails. *)
RelayFails ==
    /\ phase = "relay"
    /\ Returns
    /\ UNCHANGED <<told, control, link, Relaying>>

(* The third arm: the control connection is closed; what it carries while it
   is open is read and ignored. *)
ControlCloses ==
    /\ phase = "relay" /\ ~control
    /\ Returns
    /\ UNCHANGED <<told, control, link, Relaying>>

-----------------------------------------------------------------------------

(* External: the client closes its connection. *)
ClientLeaves ==
    /\ control
    /\ control' = FALSE
    /\ UNCHANGED <<phase, told, link, session, Relaying>>

(* External: some local process sends to the relay socket. *)
PeerSends ==
    /\ phase = "relay" /\ Len(inbox) < MaxInbox
    /\ \E d \in Datagram : inbox' = Append(inbox, d)
    /\ UNCHANGED <<phase, told, control, link, session, replies, clientAddr, used,
                   answered>>

(* External: the server, which learns of a session from its first datagram,
   sends back. *)
ServerReplies ==
    /\ session = "open" /\ link /\ used # {} /\ Len(replies) < MaxReplies
    /\ \E r \in Reply : replies' = Append(replies, r)
    /\ UNCHANGED <<phase, told, control, link, session, inbox, clientAddr, used,
                   answered>>

-----------------------------------------------------------------------------

\* One process uses an association, and what comes back goes to it: a process
\* that reaches the relay socket later neither sends through the tunnel nor
\* takes the replies over.
RepliesToSender == answered \subseteq used /\ \A p, q \in used : p = q
=============================================================================
