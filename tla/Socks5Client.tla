---------------------------- MODULE Socks5Client ----------------------------
(* The SOCKS5 program: run connects a client and then serves.  One of serve's
   handlers is followed; it uses the client together with others, its link is
   the client's connection, its session one of the client's.  serve and every
   handler hold the client in an Arc. *)
EXTENDS Connect, Sequences

CONSTANTS Peers, MaxInbox, MaxReplies

ASSUME PeersAssumption == None \notin Peers

VARIABLES handler, told, control, session, inbox, replies, clientAddr, used, answered

S5 == INSTANCE Socks5 WITH phase <- handler, link <- (conn # "closed")

handlerVars ==
    <<handler, told, control, session, inbox, replies, clientAddr, used, answered>>

RunInit == Init /\ S5!Init

Mine == IF session = "open" THEN 1 ELSE 0

-----------------------------------------------------------------------------

(* run: connect, and what becomes of the connection by itself. *)
Connecting ==
    /\ \/ Configure \/ Handshake
       \/ AuthOpens \/ AuthRequests \/ AuthBreaks \/ AuthRejects \/ AuthSucceeds
       \/ PeerCloses
    /\ UNCHANGED handlerVars

Driver == DriverEnds /\ UNCHANGED handlerVars

(* Others that hold the client open and drop sessions, or close it.  It is
   dropped when serve has ended and no handler is left. *)
Others ==
    /\ \/ OpenSession \/ Close
       \/ sessions > Mine /\ DropSession
       \/ handler = "ended" /\ DropClient
    /\ UNCHANGED handlerVars

(* The steps of the handler that leave the client alone. *)
Handles ==
    /\ phase = "connected"
    /\ UNCHANGED vars
    /\ \/ S5!HandshakeFails \/ S5!HandleBind \/ S5!HandleConnect \/ S5!SpliceEnds
       \/ S5!FromClient
       \/ S5!HandleUdpAssociate /\ session' # "open"

(* UDP ASSOCIATE that gets a session. *)
Associates == OpenSession /\ S5!HandleUdpAssociate /\ session' = "open"

Replies == UNCHANGED vars /\ S5!FromTunnel

(* The association ends, and drops its session. *)
LinkEnds    == DropSession /\ S5!TunnelEnds
ControlEnds == DropSession /\ S5!ControlCloses
RelayEnds   == DropSession /\ S5!RelayFails

(* External: the handler's client, other local processes, and the server. *)
Environment ==
    /\ UNCHANGED vars
    /\ S5!ClientLeaves \/ S5!PeerSends \/ S5!ServerReplies

RunNext ==
    \/ Connecting \/ Driver \/ Others
    \/ Handles \/ Associates \/ Replies \/ LinkEnds \/ ControlEnds \/ RelayEnds
    \/ Environment

\* The runtime polls the HTTP/3 driver and the handler; the handler's select
\* polls its arms in random order, so that none is passed over for good.
RunSpec ==
    /\ RunInit /\ [][RunNext]_<<vars, handlerVars>>
    /\ WF_<<vars, handlerVars>>(Driver)
    /\ WF_<<vars, handlerVars>>(Replies)
    /\ WF_<<vars, handlerVars>>(LinkEnds)
    /\ WF_<<vars, handlerVars>>(ControlEnds)

-----------------------------------------------------------------------------

\* One process uses an association, and what comes back goes to it: Socks5's
\* property, over the client.
RepliesToSender == S5!RepliesToSender

\* An association ends, and gives its session back to the client, when its
\* client leaves and when the connection ends, whoever closes it, although
\* datagrams keep coming.
AssociationEnds ==
    handler = "relay" /\ (~control \/ conn = "closed") ~> session = "closed"
=============================================================================
