---------------------------- MODULE UdpSessions ----------------------------
(***************************************************************************)
(* crates/hysteria/src/client/udp.rs: the table that routes the UDP        *)
(* messages of one QUIC connection to the sessions opened on it.           *)
(*                                                                         *)
(* The manager's background task (the pump) takes messages from the        *)
(* transport and puts them into the channel of the session they name.  A   *)
(* consumer holds a UdpConn: it receives, closes it at any moment and from *)
(* any task, and drops it at the end.  The table is behind a mutex that is *)
(* never held across an await, so each critical section is one step.       *)
(*                                                                         *)
(* Datagrams are delayed, reordered and lost.  A message carries the id of *)
(* its session; "to" is not on the wire, it records the connection whose   *)
(* traffic the server answers, so that a message that reaches another one  *)
(* can be told.  Fragments are the subject of module Defrag.               *)
(***************************************************************************)
EXTENDS Integers, Sequences, SequencesExt, FiniteSets

CONSTANTS Conns,     \* the UdpConns there can be
          None,      \* no connection in a slot of the table
          IdSpace,   \* 2^32 in the code: ids are u32 and wrap
          ChanSize,  \* UDP_MESSAGE_CHAN_SIZE
          MaxFlight  \* bound: messages on their way from the server

ASSUME UdpSessionsAssumption ==
    /\ None \notin Conns
    /\ IdSpace \in Nat /\ IdSpace >= 2
    /\ ChanSize \in Nat \ {0}
    /\ MaxFlight \in Nat

Ids == 0 .. IdSpace - 1

VARIABLES
    map,      \* the table: the connection whose sender is kept under an id
    nextId,   \* the id the next session gets
    closed,   \* set by the cleanup: no new sessions
    id,       \* the id of each connection
    life,     \* of each connection: it is not there yet, open, or dropped
    chan,     \* the messages waiting in each connection's channel
    eof,      \* connections whose receive has returned UnexpectedEof
    pump,     \* the background task
    manager,  \* the manager exists; its Drop aborts the pump
    link,     \* the transport works
    flight,   \* messages the server has sent
    opened,   \* history: how many sessions were opened
    ended     \* history: connections on which close was called

vars == <<map, nextId, closed, id, life, chan, eof, pump, manager, link,
          flight, opened, ended>>

Born == {c \in Conns : life[c] # "unborn"}
Open == {c \in Conns : life[c] = "open"}

\* The table still holds a sender for c.
Registered(c) == \E i \in Ids : map[i] = c

Message == [id : Ids, to : Conns]

TypeOK ==
    /\ map \in [Ids -> Conns \cup {None}]
    /\ nextId \in Ids
    /\ closed \in BOOLEAN
    /\ id \in [Conns -> Ids]
    /\ life \in [Conns -> {"unborn", "open", "dropped"}]
    /\ chan \in [Conns -> Seq(Message)]
    /\ \A c \in Conns : Len(chan[c]) <= ChanSize
    /\ eof \subseteq Conns
    /\ pump \in {"running", "finished", "cancelled"}
    /\ manager \in BOOLEAN
    /\ link \in BOOLEAN
    /\ flight \subseteq Message
    /\ opened \in Nat
    /\ ended \subseteq Conns

(* UdpSessionManager::new.  Ids start at 1. *)
Init ==
    /\ map = [i \in Ids |-> None]
    /\ nextId = 1
    /\ closed = FALSE
    /\ id = [c \in Conns |-> 0]
    /\ life = [c \in Conns |-> "unborn"]
    /\ chan = [c \in Conns |-> << >>]
    /\ eof = {}
    /\ pump = "running"
    /\ manager = TRUE
    /\ link = TRUE
    /\ flight = {}
    /\ opened = 0
    /\ ended = {}

-----------------------------------------------------------------------------
(* The manager. *)

\* Mutant: the next id stays.
WrappingNextStays(n) == n

\* u32::wrapping_add(1).
WrappingNext(n) == IF n = IdSpace - 1 THEN 0 ELSE n + 1

\* Mutant: the lowest id that is free is given out again.
NewUdpReusesId(c) ==
    /\ manager
    /\ ~closed
    /\ life[c] = "unborn"
    /\ \E i \in Ids : /\ map[i] = None
                      /\ \A j \in Ids : map[j] = None => i <= j
                      /\ id' = [id EXCEPT ![c] = i]
                      /\ map' = [map EXCEPT ![i] = c]
    /\ life' = [life EXCEPT ![c] = "open"]
    /\ opened' = opened + 1
    /\ UNCHANGED <<nextId, closed, chan, eof, pump, manager, link, flight, ended>>

(* new_udp: refused once the table is closed; an entry under the same id is
   replaced. *)
NewUdp(c) ==
    /\ manager
    /\ ~closed
    /\ life[c] = "unborn"
    /\ id' = [id EXCEPT ![c] = nextId]
    /\ nextId' = WrappingNext(nextId)
    /\ map' = [map EXCEPT ![nextId] = c]
    /\ life' = [life EXCEPT ![c] = "open"]
    /\ opened' = opened + 1
    /\ UNCHANGED <<closed, chan, eof, pump, manager, link, flight, ended>>

(* Drop of the manager (of the Client): the connection is closed, then the
   pump is aborted. *)
DropManager ==
    /\ manager
    /\ manager' = FALSE
    /\ link' = FALSE
    /\ UNCHANGED <<map, nextId, closed, id, life, chan, eof, pump, flight,
                   opened, ended>>

-----------------------------------------------------------------------------
(* The pump.  On the current_thread runtime an aborted task is not polled
   again, so what it had not done by then is never done. *)

PumpRuns == pump = "running" /\ manager

\* try_send on the channel of c succeeds.
HasRoom(c) == Len(chan[c]) < ChanSize

\* Mutant: a session whose channel is full is removed.
FeedRemovesSlow(m) ==
    /\ PumpRuns
    /\ m \in flight
    /\ flight' = flight \ {m}
    /\ LET c == map[m.id] IN
       \/ c = None /\ UNCHANGED <<chan, map>>
       \/ /\ c # None /\ HasRoom(c)
          /\ chan' = [chan EXCEPT ![c] = Append(@, m)]
          /\ UNCHANGED map
       \/ /\ c # None /\ ~HasRoom(c)
          /\ map' = [map EXCEPT ![m.id] = None]
          /\ UNCHANGED chan
    /\ UNCHANGED <<nextId, closed, id, life, eof, pump, manager, link, opened,
                   ended>>

(* feed: the message goes to the channel of its session, and is dropped when
   the id is unknown or the channel is full. *)
Feed(m) ==
    /\ PumpRuns
    /\ m \in flight
    /\ flight' = flight \ {m}
    /\ LET c == map[m.id]
       IN  chan' = IF c # None /\ HasRoom(c)
                   THEN [chan EXCEPT ![c] = Append(@, m)]
                   ELSE chan
    /\ UNCHANGED <<map, nextId, closed, id, life, eof, pump, manager, link,
                   opened, ended>>

\* Mutant: the table is cleared but not closed.
CleanupNotClosed ==
    /\ PumpRuns
    /\ ~link
    /\ pump' = "finished"
    /\ map' = [i \in Ids |-> None]
    /\ UNCHANGED <<nextId, closed, id, life, chan, eof, manager, link, flight,
                   opened, ended>>

(* run after receive_message failed: every sender is dropped, and new_udp
   refuses from here on. *)
Cleanup ==
    /\ PumpRuns
    /\ ~link
    /\ pump' = "finished"
    /\ map' = [i \in Ids |-> None]
    /\ closed' = TRUE
    /\ UNCHANGED <<nextId, id, life, chan, eof, manager, link, flight, opened,
                   ended>>

\* The runtime drops the aborted task.
PumpCancelled ==
    /\ pump = "running"
    /\ ~manager
    /\ pump' = "cancelled"
    /\ UNCHANGED <<map, nextId, closed, id, life, chan, eof, manager, link,
                   flight, opened, ended>>

-----------------------------------------------------------------------------
(* The consumers. *)

(* receive: the next message of the channel.  *)
Receive(c) ==
    /\ life[c] = "open"
    /\ chan[c] # << >>
    /\ chan' = [chan EXCEPT ![c] = Tail(@)]
    /\ UNCHANGED <<map, nextId, closed, id, life, eof, pump, manager, link,
                   flight, opened, ended>>

(* receive: the channel is drained and has no sender. *)
ReceiveEof(c) ==
    /\ life[c] = "open"
    /\ chan[c] = << >>
    /\ ~Registered(c)
    /\ eof' = eof \cup {c}
    /\ UNCHANGED <<map, nextId, closed, id, life, chan, pump, manager, link,
                   flight, opened, ended>>

\* The body of close: whatever is kept under this id goes.
RemoveId(c) == map' = [map EXCEPT ![id[c]] = None]

(* close. *)
Close(c) ==
    /\ life[c] = "open"
    /\ RemoveId(c)
    /\ ended' = ended \cup {c}
    /\ UNCHANGED <<nextId, closed, id, life, chan, eof, pump, manager, link,
                   flight, opened>>

\* Mutant: Drop does not close.
DropConnNoClose(c) ==
    /\ life[c] = "open"
    /\ life' = [life EXCEPT ![c] = "dropped"]
    /\ chan' = [chan EXCEPT ![c] = << >>]
    /\ UNCHANGED <<map, nextId, closed, id, eof, pump, manager, link, flight,
                   opened, ended>>

(* Drop of the UdpConn: close, then the channel goes with its messages. *)
DropConn(c) ==
    /\ life[c] = "open"
    /\ RemoveId(c)
    /\ ended' = ended \cup {c}
    /\ life' = [life EXCEPT ![c] = "dropped"]
    /\ chan' = [chan EXCEPT ![c] = << >>]
    /\ UNCHANGED <<nextId, closed, id, eof, pump, manager, link, flight,
                   opened>>

-----------------------------------------------------------------------------
(* External: the server and the connection. *)

\* The server answers traffic of c, maybe after c is gone.
ServerSends(c) ==
    /\ life[c] # "unborn"
    /\ link
    /\ Cardinality(flight) < MaxFlight
    /\ flight' = flight \cup {[id |-> id[c], to |-> c]}
    /\ UNCHANGED <<map, nextId, closed, id, life, chan, eof, pump, manager,
                   link, opened, ended>>

Lose(m) ==
    /\ m \in flight
    /\ flight' = flight \ {m}
    /\ UNCHANGED <<map, nextId, closed, id, life, chan, eof, pump, manager,
                   link, opened, ended>>

\* The connection fails, or Client::close is called.
LinkFails ==
    /\ link
    /\ link' = FALSE
    /\ UNCHANGED <<map, nextId, closed, id, life, chan, eof, pump, manager,
                   flight, opened, ended>>

Pump == Cleanup \/ PumpCancelled \/ \E m \in flight : Feed(m)

Next ==
    \/ DropManager
    \/ Pump
    \/ \E c \in Conns : \/ NewUdp(c) \/ Receive(c) \/ ReceiveEof(c)
                        \/ Close(c) \/ DropConn(c) \/ ServerSends(c)
    \/ \E m \in flight : Lose(m)
    \/ LinkFails

Spec == Init /\ [][Next]_vars

\* The runtime polls the pump when the transport fails and drops it when it
\* was aborted, and the consumers keep receiving.
FairSpec ==
    /\ Spec
    /\ WF_vars(Cleanup) /\ WF_vars(PumpCancelled)
    /\ \A c \in Conns : WF_vars(Receive(c)) /\ WF_vars(ReceiveEof(c))

-----------------------------------------------------------------------------

\* No id was given out twice yet.
NoWrap == opened <= IdSpace

\* Until ids wrap, an open session that nobody closed keeps its entry for as
\* long as the manager lives: no close or drop of another one removes it.
OpenRegistered ==
    NoWrap /\ ~closed =>
        \A c \in Open \ ended : map[id[c]] = c

\* Until ids wrap, a session only gets what the server sent to it, however
\* late the message comes and whoever was closed in between.
NoCrossTalk ==
    NoWrap => \A c \in Conns : \A k \in DOMAIN chan[c] : chan[c][k].to = c

\* The table never keeps a connection that is gone: close and Drop take its
\* entry out, also when ids have wrapped.
NoLeakedEntry ==
    \A i \in Ids : map[i] # None => map[i] \in Open /\ id[map[i]] = i

\* EOF is final: a receive that returned it is never followed by a message.
EofIsFinal == \A c \in eof : chan[c] = << >> /\ ~Registered(c)

\* Until ids wrap, a receive returns EOF only when its session was closed or
\* the transport failed.
EofExplained == NoWrap => eof \subseteq ended \/ closed

\* The strengthening that makes the routing properties inductive: the ids
\* given out so far are 1, 2, ... and the table maps an id to a connection
\* that has it.
IdsInOrder ==
    /\ opened < IdSpace =>
          /\ nextId = WrappingNext(opened)
          /\ \A c \in Born : id[c] \in 1 .. opened
    /\ NoWrap => \A c, d \in Born : id[c] = id[d] => c = d

QuietUnborn ==
    \A c \in Conns : life[c] = "unborn" => /\ chan[c] = << >>
                                           /\ c \notin eof \cup ended

MessagesMatch ==
    /\ \A m \in flight : m.to \in Born /\ m.id = id[m.to]
    /\ \A c \in Conns : \A k \in DOMAIN chan[c] :
          LET m == chan[c][k]
          IN  m.to \in Born /\ m.id = id[m.to] /\ m.id = id[c] /\ c \in Open

UdpInv ==
    /\ TypeOK /\ IdsInOrder /\ QuietUnborn /\ MessagesMatch
    /\ OpenRegistered /\ NoLeakedEntry /\ EofIsFinal /\ EofExplained

\* When the transport fails, every session's consumer gets EOF, unless it is
\* done with the session, or the manager is dropped before the cleanup.
FailureReachesConsumers ==
    \A c \in Conns :
        life[c] = "open" /\ ~link ~> c \in eof \/ life[c] # "open" \/ ~manager

\* receive's promise for the manager: once it is closed, receive returns EOF.
ManagerCloseReachesConsumers ==
    \A c \in Conns :
        life[c] = "open" /\ ~manager ~> c \in eof \/ life[c] # "open"
=============================================================================
