----------------------------- MODULE Dataplane -----------------------------
(***************************************************************************)
(* crates/dataplane: the tunnel's data path between the netstack and the   *)
(* Hysteria client.  orchestrate() is one task: it accepts TCP flows and   *)
(* spawns a relay for each, sends UDP datagrams through a NAT table of     *)
(* sessions keyed by the app's endpoint, sweeps idle sessions, and tears   *)
(* everything down at the end.  Every session has a receive task of its    *)
(* own, which moves replies to the netstack's UDP writer.                  *)
(*                                                                         *)
(* The programs run on tokio's current_thread runtime: tasks interleave   *)
(* only where they wait.  abort() does not stop a task at once, it makes   *)
(* the runtime drop the task the next time it would poll it; until then    *)
(* the task is still there, with everything it holds.                      *)
(*                                                                         *)
(* Bytes are abstracted to datagrams, times to the age of a session; TCP   *)
(* relays are told apart only by what they do.                             *)
(***************************************************************************)
EXTENDS Integers, FiniteSets

CONSTANTS Srcs,         \* app endpoints, the NAT key
          Conns,        \* the UDP sessions that can be opened
          None,
          MaxSessions,  \* Limits::max_udp_sessions
          MaxTcpFlows,  \* Limits::max_tcp_flows
          ReplyRoom,    \* depth of the reply queue
          Idle,         \* UDP_IDLE, in ticks
          MaxTraffic    \* bound: Traffic

ASSUME DataplaneAssumption ==
    /\ None \notin Conns
    /\ MaxSessions \in Nat /\ MaxTcpFlows \in Nat
    /\ ReplyRoom \in Nat \ {0} /\ Idle \in Nat
    /\ MaxTraffic \in Nat

VARIABLES
    phase,     \* of orchestrate: the loop, the two waits after it, returned
    stop,      \* shutdown was signalled
    map,       \* Sessions: the session of each endpoint
    age,       \* ticks since the endpoint's last datagram
    owner,     \* the endpoint each session was opened for
    task,      \* the receive task of each session
    aborted,   \* sessions whose task was asked to abort, and is still there
    opening, copying, ended,  \* TCP relays: dialling, relaying, not reaped
    queue,     \* replies waiting for the UDP writer
    infra,     \* the netstack's tasks: running, or one has ended (maybe the
               \* UDP writer), or all were stopped
    stats,     \* the counters
    final,     \* what join returned
    arrived    \* replies and bytes received from the server

sessions == <<map, age, owner>>
relays   == <<opening, copying, ended>>
vars == <<phase, stop, sessions, task, aborted, relays, queue, infra,
          stats, final, arrived>>

Opened == {c \in Conns : task[c] # "unborn"}
Live   == {c \in Conns : task[c] \notin {"unborn", "ended"}}
Size   == Cardinality({s \in Srcs : map[s] # None})

\* The session that is opened next; they only differ in their names.
Fresh == CHOOSE c \in Conns \ Opened : TRUE

\* What is bounded: flows, datagrams and bytes of the app, and what arrives.
Traffic == stats.tcp_flows + stats.tx + stats.flow_errors + arrived

\* JoinHandle::abort: nothing to do for a task that has ended.
Abort(cs) == aborted' = aborted \cup (cs \cap Live)

\* The receiving end of the reply queue is dropped.
WriterGone == infra \in {"writerFailed", "stopped"}

(* Counters::new; what is read of them is a copy. *)
Counters == [tx |-> 0, rx |-> 0, tcp_flows |-> 0, udp_sessions |-> 0, flow_errors |-> 0]

(* spawn. *)
Init ==
    /\ phase = "loop"
    /\ stop = FALSE
    /\ map = [s \in Srcs |-> None]
    /\ age = [s \in Srcs |-> 0]
    /\ owner = [c \in Conns |-> None]
    /\ task = [c \in Conns |-> "unborn"]
    /\ aborted = {}
    /\ opening = 0 /\ copying = 0 /\ ended = 0
    /\ queue = 0 /\ arrived = 0
    /\ infra = "running"
    /\ stats = Counters
    /\ final = None

-----------------------------------------------------------------------------
(* orchestrate's loop: one arm of the select at a time. *)

(* tcp.accept: the flow is counted, then dropped if no permit is free. *)
Accept ==
    /\ phase = "loop"
    /\ Traffic < MaxTraffic
    /\ stats' = [stats EXCEPT !.tcp_flows = @ + 1]
    /\ opening' = IF opening + copying < MaxTcpFlows THEN opening + 1 ELSE opening
    /\ UNCHANGED <<phase, stop, sessions, task, aborted, copying, ended,
                   queue, infra, final, arrived>>

(* Sessions::forward from an endpoint whose session is there: it is young
   again, whether or not the send succeeds. *)
ForwardKnown(s) ==
    /\ phase = "loop"
    /\ Traffic < MaxTraffic
    /\ map[s] # None
    /\ age' = [age EXCEPT ![s] = 0]
    /\ \/ stats' = [stats EXCEPT !.tx = @ + 1]
       \/ stats' = [stats EXCEPT !.flow_errors = @ + 1]
    /\ UNCHANGED <<phase, stop, map, owner, task, aborted, relays, queue,
                   infra, final, arrived>>

(* Sessions::forward that opens a session: its receive task is spawned, and
   the session stays, and is counted, even when the first send fails. *)
ForwardOpens(s) ==
    /\ phase = "loop"
    /\ Traffic < MaxTraffic
    /\ map[s] = None
    /\ Size < MaxSessions
    /\ Opened # Conns
    /\ map' = [map EXCEPT ![s] = Fresh]
    /\ age' = [age EXCEPT ![s] = 0]
    /\ owner' = [owner EXCEPT ![Fresh] = s]
    /\ task' = [task EXCEPT ![Fresh] = "receiving"]
    /\ \/ stats' = [stats EXCEPT !.tx = @ + 1, !.udp_sessions = @ + 1]
       \/ stats' = [stats EXCEPT !.flow_errors = @ + 1, !.udp_sessions = @ + 1]
    /\ UNCHANGED <<phase, stop, aborted, relays, queue, infra, final, arrived>>

(* Sessions::forward without a session: the table is full, or the client
   opens none. *)
ForwardDrops(s) ==
    /\ phase = "loop"
    /\ Traffic < MaxTraffic
    /\ map[s] = None
    /\ stats' = [stats EXCEPT !.flow_errors = @ + 1]
    /\ UNCHANGED <<phase, stop, sessions, task, aborted, relays, queue, infra,
                   final, arrived>>

\* Mutant: only sessions whose task has ended are swept.
IdleKeysEnded ==
    {s \in Srcs : map[s] # None /\ age[s] > Idle /\ task[map[s]] = "ended"}

\* idle_keys: strictly longer than the limit.
IdleKeys == {s \in Srcs : map[s] # None /\ age[s] > Idle}

\* Mutant: the task of a session that is swept goes on.
ReapIdleNoAbort ==
    /\ phase = "loop"
    /\ IdleKeys # {}
    /\ map' = [s \in Srcs |-> IF s \in IdleKeys THEN None ELSE map[s]]
    /\ age' = [s \in Srcs |-> IF s \in IdleKeys THEN 0 ELSE age[s]]
    /\ UNCHANGED <<phase, stop, owner, task, aborted, relays, queue,
                   infra, stats, final, arrived>>

(* The gc tick: reap_idle removes the sessions and aborts their tasks. *)
ReapIdle ==
    /\ phase = "loop"
    /\ IdleKeys # {}
    /\ map' = [s \in Srcs |-> IF s \in IdleKeys THEN None ELSE map[s]]
    /\ age' = [s \in Srcs |-> IF s \in IdleKeys THEN 0 ELSE age[s]]
    /\ Abort({map[s] : s \in IdleKeys})
    /\ UNCHANGED <<phase, stop, owner, task, relays, queue, infra, stats,
                   final, arrived>>

(* relays.join_next. *)
ReapRelay ==
    /\ phase \in {"loop", "relays"}
    /\ ended > 0
    /\ ended' = ended - 1
    /\ UNCHANGED <<phase, stop, sessions, task, aborted, opening, copying,
                   queue, infra, stats, final, arrived>>

\* Mutant: the end of a netstack task is not noticed.
BreakOnShutdownOnly ==
    /\ phase = "loop"
    /\ stop
    /\ phase' = "relays"
    /\ UNCHANGED <<stop, sessions, task, aborted, relays, queue, infra, stats,
                   final, arrived>>

(* The arms that break: shutdown, a task of the netstack that ended, a
   netstack stream that closed.  relays.abort_all follows at once. *)
Break ==
    /\ phase = "loop"
    /\ stop \/ infra # "running"
    /\ phase' = "relays"
    /\ UNCHANGED <<stop, sessions, task, aborted, relays, queue, infra, stats,
                   final, arrived>>

(* All relays are joined: infra.shutdown aborts the netstack's tasks. *)
RelaysJoined ==
    /\ phase = "relays"
    /\ opening + copying + ended = 0
    /\ phase' = "infra"
    /\ UNCHANGED <<stop, sessions, task, aborted, relays, queue, infra, stats,
                   final, arrived>>

(* The netstack's tasks are joined; the reply queue goes with the writer. *)
InfraStops ==
    /\ phase = "infra"
    /\ infra # "stopped"
    /\ infra' = "stopped"
    /\ queue' = 0
    /\ UNCHANGED <<phase, stop, sessions, task, aborted, relays, stats, final,
                   arrived>>

(* orchestrate returns: Sessions is dropped and aborts the receive tasks that
   are left. *)
Return ==
    /\ phase = "infra"
    /\ infra = "stopped"
    /\ phase' = "done"
    /\ Abort({map[s] : s \in Srcs})
    /\ map' = [s \in Srcs |-> None]
    /\ age' = [s \in Srcs |-> 0]
    /\ UNCHANGED <<stop, owner, task, relays, queue, infra, stats, final,
                   arrived>>

-----------------------------------------------------------------------------
(* The TCP relays, relay_tcp.  Once orchestrate has aborted them they are only
   cancelled. *)

RelayDials ==
    /\ phase = "loop"
    /\ opening > 0
    /\ opening' = opening - 1 /\ copying' = copying + 1
    /\ UNCHANGED <<phase, stop, sessions, task, aborted, ended, queue, infra,
                   stats, final, arrived>>

(* copy_bidirectional through Counting: bytes in one direction. *)
RelayCopies ==
    /\ phase = "loop"
    /\ copying > 0
    /\ Traffic < MaxTraffic
    /\ \/ /\ stats' = [stats EXCEPT !.tx = @ + 1]
          /\ UNCHANGED arrived
       \/ /\ stats' = [stats EXCEPT !.rx = @ + 1]
          /\ arrived' = arrived + 1
    /\ UNCHANGED <<phase, stop, sessions, task, aborted, relays, queue, infra,
                   final>>

\* The tunnel does not open, or the copy fails, or it ends well.
RelayEnds ==
    /\ phase = "loop"
    /\ \/ /\ opening > 0
          /\ opening' = opening - 1
          /\ stats' = [stats EXCEPT !.flow_errors = @ + 1]
          /\ UNCHANGED copying
       \/ /\ copying > 0
          /\ copying' = copying - 1
          /\ \/ stats' = [stats EXCEPT !.flow_errors = @ + 1]
             \/ UNCHANGED stats
          /\ UNCHANGED opening
    /\ ended' = ended + 1
    /\ UNCHANGED <<phase, stop, sessions, task, aborted, queue, infra, final,
                   arrived>>

RelayCancelled ==
    /\ phase = "relays"
    /\ \/ opening > 0 /\ opening' = opening - 1 /\ UNCHANGED copying
       \/ copying > 0 /\ copying' = copying - 1 /\ UNCHANGED opening
    /\ ended' = ended + 1
    /\ UNCHANGED <<phase, stop, sessions, task, aborted, queue, infra, stats,
                   final, arrived>>

-----------------------------------------------------------------------------
(* The receive task of a session, spawn_recv; each step is one poll. *)

Runs(c, state) == task[c] = state /\ c \notin aborted

Becomes(c, state) == task' = [task EXCEPT ![c] = state]

\* A counted reply is put into the queue, and the loop goes round.
Queued(c) ==
    /\ ~WriterGone
    /\ queue < ReplyRoom
    /\ queue' = queue + 1
    /\ Becomes(c, "receiving")

(* receive returns a reply whose source is no address: it is skipped. *)
TaskSkips(c) ==
    /\ Runs(c, "receiving")
    /\ Traffic < MaxTraffic
    /\ arrived' = arrived + 1
    /\ UNCHANGED <<phase, stop, sessions, task, aborted, relays, queue, infra,
                   stats, final>>

(* receive returns a reply: deliver counts it, then queues it, or waits for
   room, or finds the writer gone. *)
TaskDelivers(c) ==
    /\ Runs(c, "receiving")
    /\ Traffic < MaxTraffic
    /\ arrived' = arrived + 1
    /\ stats' = [stats EXCEPT !.rx = @ + 1]
    /\ \/ Queued(c)
       \/ WriterGone /\ Becomes(c, "ended") /\ UNCHANGED queue
       \/ /\ ~WriterGone /\ queue = ReplyRoom
          /\ Becomes(c, "blocked") /\ UNCHANGED queue
    /\ UNCHANGED <<phase, stop, sessions, aborted, relays, infra, final>>

(* The wait for room ends.  It does not listen to the shutdown. *)
TaskUnblocks(c) ==
    /\ Runs(c, "blocked")
    /\ \/ Queued(c)
       \/ WriterGone /\ Becomes(c, "ended") /\ UNCHANGED queue
    /\ UNCHANGED <<phase, stop, sessions, aborted, relays, infra, stats,
                   final, arrived>>

(* The session is closed, or shutdown changed: the loop breaks.  The entry of
   the table stays. *)
TaskBreaks(c) ==
    /\ Runs(c, "receiving")
    /\ Becomes(c, "ended")
    /\ UNCHANGED <<phase, stop, sessions, aborted, relays, queue, infra,
                   stats, final, arrived>>

\* The runtime drops an aborted task.
TaskCancelled(c) ==
    /\ c \in aborted
    /\ aborted' = aborted \ {c}
    /\ Becomes(c, "ended")
    /\ UNCHANGED <<phase, stop, sessions, relays, queue, infra,
                   stats, final, arrived>>

-----------------------------------------------------------------------------
(* The rest of the world: the handle's owner, the netstack and the clock. *)

(* trigger_shutdown; dropping the handle has the same effect. *)
TriggerShutdown ==
    /\ ~stop
    /\ stop' = TRUE
    /\ UNCHANGED <<phase, sessions, task, aborted, relays, queue, infra,
                   stats, final, arrived>>

\* Mutant: join does not wait for orchestrate to return.
JoinEarly ==
    /\ phase # "loop"
    /\ final = None
    /\ final' = stats
    /\ UNCHANGED <<phase, stop, sessions, task, aborted, relays, queue, infra,
                   stats, arrived>>

(* join returns the counters once orchestrate has returned. *)
Join ==
    /\ phase = "done"
    /\ final = None
    /\ final' = stats
    /\ UNCHANGED <<phase, stop, sessions, task, aborted, relays, queue, infra,
                   stats, arrived>>

\* The device fails, or a netstack task ends.
InfraFails ==
    /\ infra = "running"
    /\ \/ infra' = "failed" /\ UNCHANGED queue
       \/ infra' = "writerFailed" /\ queue' = 0
    /\ UNCHANGED <<phase, stop, sessions, task, aborted, relays, stats, final,
                   arrived>>

\* The UDP writer takes a reply: it goes to the netstack, or is skipped when
\* its two addresses are not of the same family.
Write ==
    /\ phase \in {"loop", "relays"}
    /\ ~WriterGone /\ queue > 0
    /\ queue' = queue - 1
    /\ UNCHANGED <<phase, stop, sessions, task, aborted, relays, infra, stats,
                   final, arrived>>

\* Time passes for every session; beyond the limit it makes no difference.
Tick ==
    /\ \E s \in Srcs : map[s] # None /\ age[s] <= Idle
    /\ age' = [s \in Srcs |-> IF map[s] # None /\ age[s] <= Idle
                              THEN age[s] + 1 ELSE age[s]]
    /\ UNCHANGED <<phase, stop, map, owner, task, aborted, relays, queue,
                   infra, stats, final, arrived>>

Loop ==
    \/ Accept \/ ReapIdle \/ ReapRelay
    \/ Break \/ RelaysJoined \/ InfraStops \/ Return
    \/ \E s \in Srcs : ForwardKnown(s) \/ ForwardOpens(s) \/ ForwardDrops(s)

Relays == RelayDials \/ RelayCopies \/ RelayEnds \/ RelayCancelled

Task(c) ==
    \/ TaskSkips(c) \/ TaskDelivers(c) \/ TaskUnblocks(c)
    \/ TaskBreaks(c) \/ TaskCancelled(c)

Next ==
    \/ Loop
    \/ Relays
    \/ \E c \in Conns : Task(c)
    \/ TriggerShutdown \/ Join \/ InfraFails \/ Write \/ Tick

Spec == Init /\ [][Next]_vars

-----------------------------------------------------------------------------

\* No task is left behind: a receive task that runs is its endpoint's current
\* one, or it was asked to stop.  No path takes a session out of the table
\* without aborting its task.
NoStrayTask ==
    \A c \in Live : c \in aborted \/ map[owner[c]] = c

\* join's promise: the counters it returns are final, although orchestrate
\* does not wait for the receive tasks, only asks them to stop.
FinalIsFinal == final # None => final = stats

\* A session whose endpoint is silent is reaped, while the loop runs.
IdleReaped ==
    \A s \in Srcs : age[s] > Idle /\ map[s] # None
        ~> age[s] <= Idle \/ map[s] = None \/ phase # "loop"
=============================================================================
