------------------------------ MODULE Connect ------------------------------
(* The life of a hysteria client's QUIC connection: Client::connect with its
   stages and their failures, authenticate with the HTTP/3 driver it spawns,
   and the client's close and drop. *)
EXTENDS Integers

CONSTANTS
    Rates,          \* bandwidths, 0 for unknown or unlimited
    MaxSessions,    \* bound: UDP sessions at a time
    None

ASSUME RatesAssumption == Rates \subseteq Nat /\ 0 \in Rates

ASSUME NoneAssumption == None \notin {"AuthFailed", "Timeout", "Unknown", "h3"}

VARIABLES
    clientTx,   \* config.bandwidth.max_tx
    serverRx,   \* the server's Hysteria-CC-RX header
    tx,         \* HandshakeInfo.tx
    phase,      \* "config", "dial", "auth", "connected", "failed" or "dropped"
    stage,      \* of authenticate: "open", "request", "response" or "done"
    failure,    \* what the app is told of a ConnectFailure
    conn,       \* the QUIC connection: "none", "open" or "closed"
    closedBy,   \* history: what closed it
    driver,     \* the HTTP/3 driver task: "none", "running" or "ended"
    request,    \* an H3SendRequest exists
    udp,        \* the client has a UdpSessionManager
    sessions    \* UDP sessions, which hold the connection too, even without the client

vars == <<clientTx, serverRx, tx, phase, stage, failure, conn, closedBy, driver,
          request, udp, sessions>>

rates == <<clientTx, serverRx, tx>>

\* Mutant: what fails in authentication is a rejection.
CategorizeAuth(c) ==
    CASE c = "config" -> "Config"
      [] c = "handshakeTimeout" -> "Timeout"
      [] c \in {"broken", "status"} -> "Auth"
      [] OTHER -> "Unreachable"

(* categorize_handshake and categorize_auth, and the map_err of the stages
   before: the category of a cause. *)
Categorize(c) ==
    CASE c = "config" -> "Config"
      [] c = "handshakeTimeout" -> "Timeout"
      [] c = "status" -> "Auth"
      [] OTHER -> "Unreachable"

(* ConnError::from: what the app is told. *)
ConnErrorFrom(f) ==
    CASE f = "Config" -> "Unknown"
      [] f = "Unreachable" -> "ServerUnreachable"
      [] f = "Timeout" -> "Timeout"
      [] f = "Auth" -> "AuthFailed"

Init ==
    /\ clientTx \in Rates /\ serverRx = None /\ tx = None
    /\ phase = "config" /\ stage = "open"
    /\ failure = None
    /\ conn = "none" /\ closedBy = None
    /\ driver = "none" /\ request = FALSE
    /\ udp = FALSE /\ sessions = 0

-----------------------------------------------------------------------------

\* A rate as a header: none, "auto", a number, or text that is no number or does
\* not fit a u64.
RxHeaders ==
    [kind : {"absent", "auto", "text"}, value : {0}] \cup [kind : {"number"}, value : Rates]

(* auth_response_from_header: what is no number is no limit. *)
AuthResponseFromHeader(h) ==
    [rxAuto |-> h.kind = "auto", rx |-> IF h.kind = "number" THEN h.value ELSE 0]

(* effective_tx: 0 leaves the rate to detection; a server without a limit, or
   with a larger one, leaves the client's. *)
EffectiveTx(response, client) ==
    IF response.rxAuto THEN 0
    ELSE IF response.rx = 0 \/ response.rx > client THEN client
    ELSE response.rx

\* connect returns an error: its locals are dropped, the request handle too.
Fails(c) ==
    /\ phase' = "failed"
    /\ failure' = ConnErrorFrom(Categorize(c))
    /\ request' = FALSE

\* The connection is closed; only the first close counts.
CloseConn(by) ==
    /\ conn' = "closed"
    /\ closedBy' = IF conn = "open" THEN by ELSE closedBy

(* verify_and_fill: a window, a timeout or the hop interval is out of range. *)
VerifyAndFillFails == Fails("config")

(* build_quic_client_config: TLS settings, or a value that is no QUIC varint. *)
BuildQuicClientConfigFails == Fails("config")

(* build_endpoint: the socket, or an obfuscation password that is too short. *)
BuildEndpointFails == Fails("socket")

(* connect, before it dials: one after the other. *)
Configure ==
    /\ phase = "config"
    /\ \/ VerifyAndFillFails \/ BuildQuicClientConfigFails \/ BuildEndpointFails
       \/ phase' = "dial" /\ UNCHANGED <<failure, request>>
    /\ UNCHANGED <<rates, stage, conn, closedBy, driver, udp, sessions>>

(* connect_with: the handshake. *)
Handshake ==
    /\ phase = "dial"
    /\ \/ \E c \in {"handshakeTimeout", "handshake"} : Fails(c) /\ UNCHANGED conn
       \/ phase' = "auth" /\ conn' = "open" /\ UNCHANGED <<failure, request>>
    /\ UNCHANGED <<rates, stage, closedBy, driver, udp, sessions>>

(* authenticate: HTTP/3 is set up, and its driver spawned. *)
AuthOpens ==
    /\ phase = "auth" /\ stage = "open" /\ conn = "open"
    /\ stage' = "request"
    /\ driver' = "running" /\ request' = TRUE
    /\ UNCHANGED <<rates, phase, failure, conn, closedBy, udp, sessions>>

(* authenticate: the request is sent. *)
AuthRequests ==
    /\ phase = "auth" /\ stage = "request" /\ conn = "open"
    /\ stage' = "response"
    /\ UNCHANGED <<rates, phase, failure, conn, closedBy, driver, request, udp, sessions>>

(* authenticate: a stage fails, with the connection or, a stream reset, alone.
   Before the driver exists, connect drops the only handle. *)
AuthBreaks ==
    /\ phase = "auth"
    /\ Fails("broken")
    /\ conn' = IF stage = "open" THEN "closed" ELSE conn
    /\ closedBy' = IF stage = "open" /\ conn = "open" THEN "client" ELSE closedBy
    /\ UNCHANGED <<rates, stage, driver, udp, sessions>>

(* authenticate: any status but 233 closes the connection. *)
AuthRejects ==
    /\ phase = "auth" /\ stage = "response"
    /\ CloseConn("client")
    /\ Fails("status")
    /\ UNCHANGED <<rates, stage, driver, udp, sessions>>

\* Mutant: the request handle is not kept with the client.
AuthSucceedsDropsRequest ==
    /\ phase = "auth" /\ stage = "response"
    /\ phase' = "connected" /\ stage' = "done"
    /\ udp' \in BOOLEAN
    /\ serverRx' \in RxHeaders
    /\ tx' = EffectiveTx(AuthResponseFromHeader(serverRx'), clientTx)
    /\ request' = FALSE
    /\ UNCHANGED <<clientTx, failure, conn, closedBy, driver, sessions>>

(* authenticate and connect return: the client keeps the driver's handle and
   the request handle; it manages UDP sessions when the server allows UDP. *)
AuthSucceeds ==
    /\ phase = "auth" /\ stage = "response"
    /\ phase' = "connected" /\ stage' = "done"
    /\ udp' \in BOOLEAN
    /\ serverRx' \in RxHeaders
    /\ tx' = EffectiveTx(AuthResponseFromHeader(serverRx'), clientTx)
    /\ UNCHANGED <<clientTx, failure, conn, closedBy, driver, request, sessions>>

(* Client::udp; the session manager may not yet have noticed that the
   connection is closed. *)
OpenSession ==
    /\ phase = "connected" /\ udp
    /\ sessions < MaxSessions
    /\ sessions' = sessions + 1
    /\ UNCHANGED <<rates, phase, stage, failure, conn, closedBy, driver, request, udp>>

(* A session's owner drops it, before or after the client goes. *)
DropSession ==
    /\ sessions > 0
    /\ sessions' = sessions - 1
    /\ UNCHANGED <<rates, phase, stage, failure, conn, closedBy, driver, request, udp>>

(* Client::close. *)
Close ==
    /\ phase = "connected"
    /\ CloseConn("client")
    /\ UNCHANGED <<rates, phase, stage, failure, driver, request, udp, sessions>>

(* The client is dropped: it closes, then its fields are dropped. *)
DropClient ==
    /\ phase = "connected"
    /\ CloseConn("client")
    /\ phase' = "dropped"
    /\ request' = FALSE /\ udp' = FALSE
    /\ UNCHANGED <<rates, stage, failure, driver, sessions>>

(* External: the HTTP/3 driver ends with the connection, and closes it when
   the last request handle is gone. *)
DriverEnds ==
    /\ driver = "running"
    /\ conn = "closed" \/ ~request
    /\ driver' = "ended"
    /\ CloseConn("h3")
    /\ UNCHANGED <<rates, phase, stage, failure, request, udp, sessions>>

(* External: the server closes the connection, or the path is lost. *)
PeerCloses ==
    /\ conn = "open"
    /\ CloseConn("peer")
    /\ UNCHANGED <<rates, phase, stage, failure, driver, request, udp, sessions>>

Next ==
    \/ Configure \/ Handshake
    \/ AuthOpens \/ AuthRequests \/ AuthBreaks \/ AuthRejects \/ AuthSucceeds
    \/ OpenSession \/ DropSession \/ Close \/ DropClient
    \/ DriverEnds \/ PeerCloses

\* The runtime polls the driver when it can make progress.
Spec == Init /\ [][Next]_vars /\ WF_vars(DriverEnds)

-----------------------------------------------------------------------------

\* connect reports what happened.  A rejection is told only when the server
\* answered and was hung up on; a timeout, or a bad profile, only when no
\* connection was made.  On success the rate is within what either end allows,
\* whatever the server's headers hold.
OutcomeTold ==
    /\ failure = "AuthFailed" => stage = "response" /\ conn = "closed"
    /\ failure \in {"Timeout", "Unknown"} => conn = "none"
    /\ phase = "connected" =>
          /\ failure = None
          /\ tx <= clientTx
          /\ serverRx.kind = "number" /\ serverRx.value > 0 => tx <= serverRx.value
          /\ serverRx.kind # "auto" /\ serverRx.value = 0 => tx = clientTx

\* The HTTP/3 driver does not take the connection from a client that exists.
NotByDriver == phase = "connected" => closedBy # "h3"

\* A connection lives as long as its client: nothing of this process closes it
\* while the client exists and is not asked to, and after a connect that failed
\* at whatever stage, or a drop, neither connection nor driver stays, although
\* sessions may outlive the client.
LivesWithClient ==
    [](/\ NotByDriver
       /\ phase \in {"failed", "dropped"} => <>(conn # "open" /\ driver # "running"))
=============================================================================
