----------------------------- MODULE TunClient -----------------------------
(* The TUN program, crates/transport-tun: run connects a client, opens the
   device and spawns the dataplane over both; it waits for Ctrl-C, triggers the
   shutdown and joins.  orchestrate and its relays hold the client in an Arc,
   so that it is dropped, and closes its connection, when orchestrate returns.
   The client's sessions are those of the dataplane. *)
EXTENDS Dataplane

CONSTANT Rates

VARIABLES
    program,    \* run: "connecting", "opening", "waiting", "joining" or "ended"
    clientTx, serverRx, tx, client, stage, failure, conn, closedBy, driver, request, udp

C == INSTANCE Connect WITH phase <- client, sessions <- 0, MaxSessions <- 0

connection ==
    <<clientTx, serverRx, tx, client, stage, failure, conn, closedBy, driver, request, udp>>

all == <<vars, connection, program>>

Steady == UNCHANGED <<connection, program>>

RunInit == Init /\ C!Init /\ program = "connecting"

Closed == conn = "closed"

-----------------------------------------------------------------------------

(* Client::connect, and what becomes of the connection by itself.  The rate
   makes no difference here, and is left to detection. *)
Connects ==
    /\ \/ C!Configure \/ C!Handshake
       \/ C!AuthOpens \/ C!AuthRequests \/ C!AuthBreaks \/ C!AuthRejects
       \/ C!AuthSucceeds /\ serverRx'.kind = "auto"
       \/ C!PeerCloses
    /\ UNCHANGED <<vars, program>>

Driver == C!DriverEnds /\ UNCHANGED <<vars, program>>

(* run: connect returns; its error is run's. *)
Connected ==
    /\ program = "connecting" /\ client \in {"connected", "failed"}
    /\ program' = IF client = "connected" THEN "opening" ELSE "ended"
    /\ UNCHANGED <<vars, connection>>

(* run: the device and the netstack are built, and the dataplane is spawned;
   or one of them fails, and run drops the client. *)
OpensDevice ==
    /\ program = "opening"
    /\ \/ program' = "waiting" /\ UNCHANGED connection
       \/ program' = "ended" /\ C!DropClient
    /\ UNCHANGED vars

(* run: Ctrl-C triggers the shutdown. *)
Interrupted ==
    /\ program = "waiting"
    /\ program' = "joining"
    /\ TriggerShutdown
    /\ UNCHANGED connection

(* run: join returns the counters, which are printed. *)
Joined ==
    /\ program = "joining"
    /\ program' = "ended"
    /\ Join
    /\ UNCHANGED connection

Up == program \in {"waiting", "joining"}

(* A datagram of an endpoint: a session is opened if the client manages any.
   Even over a closed connection a send may succeed, and is counted:
   send_message drops a message its buffer has no room for, and says Ok. *)
Forwards ==
    /\ Up
    /\ \E s \in Srcs :
          \/ ForwardKnown(s)
          \/ udp /\ ForwardOpens(s)
          \/ ForwardDrops(s)
    /\ Steady

(* The relays: over a closed connection no stream opens and none takes bytes. *)
RelaysRun ==
    /\ Up
    /\ \/ ~Closed /\ (RelayDials \/ RelayCopies)
       \/ RelayEnds \/ RelayCancelled
    /\ Steady

\* Mutant: the end of the session does not end the task.
TaskStopsAtShutdown(c) == stop /\ TaskBreaks(c)

(* The loop of spawn_recv breaks: its session is closed, as the session manager
   closes every one when the connection ends, or shutdown changed. *)
TaskStops(c) == (Closed \/ stop) /\ TaskBreaks(c)

(* The receive tasks, which may outlive orchestrate. *)
Receives(c) ==
    /\ TaskSkips(c) \/ TaskDelivers(c) \/ TaskUnblocks(c) \/ TaskStops(c) \/ TaskCancelled(c)
    /\ Steady

(* orchestrate returns: the last handle of the client is dropped. *)
Returns == Up /\ Return /\ C!DropClient /\ UNCHANGED program

(* The rest of orchestrate, the netstack and the clock. *)
Orchestrates ==
    /\ Up
    /\ \/ Accept \/ ReapIdle \/ ReapRelay \/ Break \/ RelaysJoined \/ InfraStops
       \/ InfraFails \/ Write \/ Tick
    /\ Steady

RunNext ==
    \/ Connects \/ Driver
    \/ Connected \/ OpensDevice \/ Interrupted \/ Joined
    \/ Forwards \/ RelaysRun \/ Orchestrates \/ Returns
    \/ \E c \in Conns : Receives(c)

\* The runtime runs the tasks that can run, drops the aborted ones, and wakes run
\* when the task it joins has ended; the select polls its arms in random order,
\* so that none is passed over for good; the device takes what is written.
RunSpec ==
    /\ RunInit /\ [][RunNext]_all
    /\ WF_all(Driver) /\ WF_all(Joined) /\ WF_all(Returns)
    /\ WF_all(Up /\ Break /\ Steady)
    /\ WF_all(Up /\ RelaysJoined /\ Steady)
    /\ WF_all(Up /\ InfraStops /\ Steady)
    /\ WF_all(Up /\ ReapIdle /\ Steady)
    /\ WF_all(Up /\ ReapRelay /\ Steady)
    /\ WF_all(Up /\ RelayCancelled /\ Steady)
    /\ WF_all(Up /\ Write /\ Steady)
    /\ \A c \in Conns :
          WF_all((TaskCancelled(c) \/ TaskStops(c) \/ TaskUnblocks(c))
                    /\ Steady)

-----------------------------------------------------------------------------

\* Ctrl-C, or the end of a netstack task, ends the tunnel: orchestrate returns,
\* no receive task stays, the connection is closed and its driver ends, whatever
\* the connection has gone through before.  After Ctrl-C the program ends too.
TunnelEnds ==
    Up /\ (stop \/ infra # "running") ~>
        /\ phase = "done" /\ Live = {}
        /\ conn = "closed" /\ driver = "ended"
        /\ stop => program = "ended"

\* Nothing in orchestrate watches the connection, but its end reaches every
\* session: no receive task waits on a connection that is gone.
LostConnectionEndsTasks == Closed ~> Live = {}
=============================================================================
