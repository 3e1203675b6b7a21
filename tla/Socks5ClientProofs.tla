------------------------- MODULE Socks5ClientProofs -------------------------
(* What the SOCKS5 program's client tells of its connection, and whom an
   association serves, for any rates, any number of local processes and queues
   of any size. *)
EXTENDS Socks5Client, TLAPS

\* A connection exists from the handshake on, and the driver only with one; the
\* rate is the one that was negotiated.
ConnectionKnown ==
    /\ clientTx \in Rates
    /\ phase \in {"config", "dial"} => conn = "none" /\ driver = "none"
    /\ driver # "none" => conn # "none"
    /\ phase = "connected" =>
          /\ serverRx \in RxHeaders
          /\ tx = EffectiveTx(AuthResponseFromHeader(serverRx), clientTx)

\* A failure is told once, and what it says about the connection stays true.
FailureKnown ==
    /\ phase # "failed" => failure = None
    /\ failure = "AuthFailed" => stage = "response" /\ conn = "closed"
    /\ failure \in {"Timeout", "Unknown"} => conn = "none"

ConnectInv == ConnectionKnown /\ FailureKnown

\* Until the client is dropped a request handle keeps the driver going, and so
\* the driver has closed nothing.
DriverHeld ==
    /\ phase \in {"config", "dial"} => driver = "none" /\ stage = "open"
    /\ phase = "auth" /\ stage = "open" => driver = "none"
    /\ phase = "auth" /\ stage # "open" => request
    /\ phase = "connected" => request
    /\ phase \in {"config", "dial", "auth", "connected"} => closedBy # "h3"

\* Only the pinned process has used the association, and a message waits for
\* it only after it has.
Pinned ==
    /\ inbox \in Seq(S5!Datagram)
    /\ replies \in Seq(S5!Reply)
    /\ used \subseteq {clientAddr}
    /\ clientAddr = None => used = {}
    /\ replies # << >> => used # {}
    /\ answered \subseteq used

-----------------------------------------------------------------------------

(* Before connect there is no connection. *)
LEMMA ConnectInit == Init => ConnectInv
  BY NoneAssumption DEF Init, ConnectInv, ConnectionKnown, FailureKnown

(* A stage of connect fails, and its cause says how far the connection got. *)
LEMMA FailsKeeps ==
  ASSUME ConnectInv, phase # "failed", phase # "connected",
         NEW c \in {"config", "socket", "handshakeTimeout", "handshake", "broken", "status"},
         Fails(c),
         c \in {"config", "handshakeTimeout"} => conn' = "none",
         c = "status" => stage' = "response" /\ conn' = "closed",
         driver' # "none" => conn' # "none",
         clientTx' = clientTx
  PROVE  ConnectInv'
  BY DEF ConnectInv, ConnectionKnown, FailureKnown, Fails, Categorize, ConnErrorFrom

(* Every step of the client keeps what is known of its connection. *)
LEMMA ConnectStep == ConnectInv /\ [Next]_vars => ConnectInv'
  <1> SUFFICES ASSUME ConnectInv, [Next]_vars
               PROVE  ConnectInv'
    OBVIOUS
  <1> USE DEF ConnectInv, ConnectionKnown, FailureKnown, rates
  <1>1. CASE Configure
    <2>1. CASE \E c \in {"config", "socket"} : Fails(c)
      BY <1>1, <2>1, FailsKeeps DEF Configure
    <2>2. CASE phase' = "dial" /\ UNCHANGED <<failure, request>>
      BY <1>1, <2>2 DEF Configure
    <2> QED BY <1>1, <2>1, <2>2
            DEF Configure, VerifyAndFillFails, BuildQuicClientConfigFails, BuildEndpointFails
  <1>2. CASE Handshake
    <2>1. CASE \E c \in {"handshakeTimeout", "handshake"} : Fails(c) /\ UNCHANGED conn
      BY <1>2, <2>1, FailsKeeps DEF Handshake
    <2>2. CASE phase' = "auth" /\ conn' = "open" /\ UNCHANGED <<failure, request>>
      BY <1>2, <2>2, NoneAssumption DEF Handshake
    <2> QED BY <1>2, <2>1, <2>2 DEF Handshake
  <1>3. CASE AuthOpens \/ AuthRequests
    BY <1>3, NoneAssumption DEF AuthOpens, AuthRequests
  <1>4. CASE AuthBreaks
    BY <1>4, FailsKeeps DEF AuthBreaks
  <1>5. CASE AuthRejects
    BY <1>5, FailsKeeps DEF AuthRejects, CloseConn
  <1>6. CASE AuthSucceeds
    BY <1>6, NoneAssumption DEF AuthSucceeds
  <1>7. CASE OpenSession \/ DropSession
    BY <1>7 DEF OpenSession, DropSession
  <1>8. CASE Close
    BY <1>8, NoneAssumption DEF Close, CloseConn
  <1>9. CASE DropClient
    BY <1>9, NoneAssumption DEF DropClient, CloseConn
  <1>10. CASE DriverEnds
    BY <1>10 DEF DriverEnds, CloseConn
  <1>11. CASE PeerCloses
    BY <1>11 DEF PeerCloses, CloseConn
  <1>12. CASE UNCHANGED vars
    BY <1>12 DEF vars
  <1> QED
    BY <1>1, <1>2, <1>3, <1>4, <1>5, <1>6, <1>7, <1>8, <1>9, <1>10, <1>11, <1>12 DEF Next

(* And every step keeps the driver held. *)
LEMMA DriverStep == DriverHeld /\ [Next]_vars => DriverHeld'
  <1> SUFFICES ASSUME DriverHeld, [Next]_vars
               PROVE  DriverHeld'
    OBVIOUS
  <1> USE DEF DriverHeld
  <1>1. CASE Configure
    BY <1>1 DEF Configure, VerifyAndFillFails, BuildQuicClientConfigFails, BuildEndpointFails, Fails
  <1>2. CASE Handshake
    BY <1>2 DEF Handshake, Fails
  <1>3. CASE AuthOpens \/ AuthRequests
    BY <1>3 DEF AuthOpens, AuthRequests
  <1>4. CASE AuthBreaks \/ AuthRejects
    BY <1>4 DEF AuthBreaks, AuthRejects, Fails
  <1>5. CASE AuthSucceeds
    BY <1>5 DEF AuthSucceeds
  <1>6. CASE OpenSession \/ DropSession
    BY <1>6 DEF OpenSession, DropSession
  <1>7. CASE Close
    BY <1>7 DEF Close, CloseConn
  <1>8. CASE DropClient
    BY <1>8 DEF DropClient
  <1>9. CASE DriverEnds
    <2>1. CASE phase \in {"failed", "dropped"} \/ phase \notin {"config", "dial", "auth", "connected"}
      BY <1>9, <2>1 DEF DriverEnds
    <2>2. CASE phase \in {"config", "dial", "auth", "connected"}
      BY <1>9, <2>2 DEF DriverEnds, CloseConn
    <2> QED BY <2>1, <2>2
  <1>10. CASE PeerCloses
    BY <1>10 DEF PeerCloses, CloseConn
  <1>11. CASE UNCHANGED vars
    BY <1>11 DEF vars
  <1> QED
    BY <1>1, <1>2, <1>3, <1>4, <1>5, <1>6, <1>7, <1>8, <1>9, <1>10, <1>11 DEF Next

(* effective_tx stays within what both ends allow. *)
LEMMA TxAllowed ==
  ASSUME NEW h \in RxHeaders, NEW client \in Rates, NEW t,
         t = EffectiveTx(AuthResponseFromHeader(h), client)
  PROVE  /\ t <= client
         /\ h.kind = "number" /\ h.value > 0 => t <= h.value
         /\ h.kind # "auto" /\ h.value = 0 => t = client
  <1>1. client \in Nat /\ h.value \in Nat
    BY RatesAssumption DEF RxHeaders
  <1>2. CASE h.kind = "auto"
    BY <1>1, <1>2 DEF EffectiveTx, AuthResponseFromHeader
  <1>3. CASE h.kind \in {"absent", "text"}
    <2>1. t = client
      BY <1>3 DEF EffectiveTx, AuthResponseFromHeader
    <2> QED BY <1>1, <1>3, <2>1
  <1>4. CASE h.kind = "number"
    <2>1. t = IF h.value = 0 \/ h.value > client THEN client ELSE h.value
      BY <1>4 DEF EffectiveTx, AuthResponseFromHeader
    <2> QED BY <1>1, <1>4, <2>1
  <1> QED BY <1>2, <1>3, <1>4 DEF RxHeaders

(* What is known of the connection is what connect reports. *)
LEMMA ConnectImplies == ConnectInv => OutcomeTold
  BY TxAllowed DEF ConnectInv, ConnectionKnown, FailureKnown, OutcomeTold

-----------------------------------------------------------------------------

(* The handler starts with nothing pinned. *)
LEMMA PinnedInit == S5!Init => Pinned
  BY DEF S5!Init, Pinned

(* Every step of the handler and of those around it keeps the pin. *)
LEMMA PinnedStep ==
  Pinned /\ [RunNext]_<<vars, handlerVars>> => Pinned'
  <1> SUFFICES ASSUME Pinned, [RunNext]_<<vars, handlerVars>>
               PROVE  Pinned'
    OBVIOUS
  <1>1. CASE UNCHANGED <<inbox, replies, clientAddr, used, answered>>
    BY <1>1 DEF Pinned
  <1>2. CASE S5!FromClient
    <2> DEFINE d == Head(inbox)
    <2>1. d.from \in Peers /\ inbox' \in Seq(S5!Datagram)
      <3>1. inbox \in Seq(S5!Datagram) /\ inbox # << >> /\ inbox' = Tail(inbox)
        BY <1>2 DEF S5!FromClient, Pinned
      <3>2. d \in S5!Datagram /\ inbox' \in Seq(S5!Datagram)
        BY <3>1
      <3> QED BY <3>2 DEF S5!Datagram
    <2>2. d.from # None
      BY <2>1, PeersAssumption
    <2>3. UNCHANGED <<replies, answered>>
      BY <1>2 DEF S5!FromClient
    <2>4. CASE clientAddr \notin {None, d.from}
      <3>1. UNCHANGED <<clientAddr, used>>
        BY <1>2, <2>4 DEF S5!FromClient
      <3> QED BY <2>1, <2>3, <3>1 DEF Pinned
    <2>5. CASE clientAddr \in {None, d.from}
      <3>1. clientAddr' = d.from /\ (used' = used \cup {d.from} \/ used' = used)
        BY <1>2, <2>5 DEF S5!FromClient
      <3>2. used \subseteq {d.from}
        BY <2>5 DEF Pinned
      <3> QED BY <2>1, <2>2, <2>3, <3>1, <3>2 DEF Pinned
    <2> QED BY <2>4, <2>5
  <1>3. CASE S5!FromTunnel
    <2>1. clientAddr \in used
      BY <1>3 DEF S5!FromTunnel, Pinned
    <2>2. replies' \in Seq(S5!Reply)
      BY <1>3 DEF S5!FromTunnel, Pinned
    <2>3. answered' \subseteq used
      BY <1>3, <2>1 DEF S5!FromTunnel, Pinned
    <2> QED BY <1>3, <2>1, <2>2, <2>3 DEF S5!FromTunnel, Pinned
  <1>4. CASE S5!PeerSends
    <2>1. inbox' \in Seq(S5!Datagram)
      BY <1>4 DEF S5!PeerSends, Pinned
    <2> QED BY <1>4, <2>1 DEF S5!PeerSends, Pinned
  <1>5. CASE S5!ServerReplies
    <2>1. replies' \in Seq(S5!Reply)
      BY <1>5 DEF S5!ServerReplies, Pinned
    <2> QED BY <1>5, <2>1 DEF S5!ServerReplies, Pinned
  <1>6. CASE Handles
    BY <1>1, <1>2, <1>6
       DEF Handles, S5!HandshakeFails, S5!HandleBind, S5!HandleConnect, S5!SpliceEnds,
           S5!HandleUdpAssociate, S5!Relaying
  <1>7. CASE Associates \/ LinkEnds \/ ControlEnds \/ RelayEnds
    BY <1>1, <1>7
       DEF Associates, LinkEnds, ControlEnds, RelayEnds, S5!HandleUdpAssociate,
           S5!TunnelEnds, S5!ControlCloses, S5!RelayFails, S5!Relaying
  <1>8. CASE Environment
    BY <1>1, <1>4, <1>5, <1>8 DEF Environment, S5!ClientLeaves, S5!Relaying
  <1>9. CASE Connecting \/ Driver \/ Others \/ UNCHANGED <<vars, handlerVars>>
    BY <1>1, <1>9 DEF Connecting, Driver, Others, handlerVars
  <1> QED BY <1>3, <1>6, <1>7, <1>8, <1>9 DEF RunNext, Replies

(* One process at most has used the association. *)
LEMMA PinnedImplies == Pinned => RepliesToSender
  BY DEF Pinned, RepliesToSender, S5!RepliesToSender

(* Whatever the program does is a step of the client or leaves it alone. *)
LEMMA ClientSteps == [RunNext]_<<vars, handlerVars>> => [Next]_vars
  BY DEF RunNext, Connecting, Driver, Others, Handles, Associates, Replies, LinkEnds,
         ControlEnds, RelayEnds, Environment, Next

-----------------------------------------------------------------------------

(* Whatever fails, and at whatever stage, Client::connect reports what happened,
   and the rate it reports is within what both ends allow. *)
THEOREM Outcome == RunSpec => []OutcomeTold
  <1>1. RunInit => ConnectInv
    BY ConnectInit DEF RunInit
  <1>2. ConnectInv /\ [RunNext]_<<vars, handlerVars>> => ConnectInv'
    BY ConnectStep, ClientSteps
  <1> QED BY <1>1, <1>2, ConnectImplies, PTL DEF RunSpec

(* The connection of a client that exists was not closed by its own HTTP/3
   driver, as authenticate's request handle is kept with the client: the safety
   part of LivesWithClient. *)
THEOREM DriverSpares == RunSpec => []NotByDriver
  <1>1. RunInit => DriverHeld
    BY NoneAssumption DEF RunInit, Init, DriverHeld
  <1>2. DriverHeld /\ [RunNext]_<<vars, handlerVars>> => DriverHeld'
    BY DriverStep, ClientSteps
  <1>3. DriverHeld => NotByDriver
    BY DEF DriverHeld, NotByDriver
  <1> QED BY <1>1, <1>2, <1>3, PTL DEF RunSpec

(* The SOCKS5 program, with its handlers and their sessions, does to the client
   only what Client allows: it implements the safety part of Connect. *)
THEOREM RunsClient == RunSpec => Init /\ [][Next]_vars
  <1>1. RunInit => Init
    BY DEF RunInit
  <1> QED BY <1>1, ClientSteps, PTL DEF RunSpec

(* However many processes reach the relay socket of handle_udp_associate, one
   of them uses the association and gets the replies. *)
THEOREM OneSender == RunSpec => []RepliesToSender
  <1>1. RunInit => Pinned
    BY PinnedInit DEF RunInit
  <1> QED BY <1>1, PinnedStep, PinnedImplies, PTL DEF RunSpec
=============================================================================
