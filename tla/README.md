# hysteria-ui: TLA+ models, checks and proofs

TLA+ modules that model the core of hysteria-ui (a Hysteria 2 VPN client: an
application core behind an FFI, and the tunnel that carries the traffic), TLC
runs that check them on small instances, and TLAPS proofs of the main
properties for every value of the constants. Every definition is translated
from the Rust source; `PROJECT.json` maps each to the lines it models.

## The system

The repository is a Cargo workspace under `crates/`. Two programs are built
from it: the application (a UI over `ffi-app`) and the tunnel (front-ends over
`dataplane`, or SOCKS5), which the OS runs in a process of its own.

| Part | State it keeps | Operations | Talks to | Model |
|---|---|---|---|---|
| `store` | JSON document of entries on disk, its copy in memory, a link per id in the platform's secret store | new, add, delete, rename, load | `SecureStore` (foreign), file system | `Store`, `ProfileStore` |
| `model` | the actor's `State`, its command channel | intents, OS status, stats, share query | the store; `TunnelControl`, `StateObserver`, `StatsObserver` callbacks | `AppModel` |
| `ffi-app` | the stats slot behind a mutex | the App's methods | the model, foreign callbacks | `AppModel`, `StatsGate` |
| `conn-error` | none | code, from_code | crosses the process boundary | `AppModel` |
| `hysteria` UDP sessions | the table id → channel, next id, closed flag; a Defragger per session | new_udp, send, receive, close, drop, the pump | QUIC datagrams | `UdpSessions`, `Defrag`, `Frag` |
| `dataplane` | the NAT table, receive tasks, relays, counters | accept, forward, sweep, relay, shutdown, join | netstack, the client | `Dataplane`, `TunClient` |
| `netstack` | the netstack's tasks, the reply queue | build, send, failed, shutdown | TUN device | in part, in `Dataplane` |
| `hysteria` client | QUIC connection, HTTP/3 driver, TCP streams | connect, tcp, udp, close, drop | server | `Connect`, `TcpStream`, `TcpWire` |
| `hysteria` sockets | the hop ports, the current one; the obfuscation's key and buffers | try_send, poll_recv, the hop task | quinn | `LinkClient` |
| `hysteria` configuration | none | from_profile, verify_and_fill, parse_port_union | sockets, client | `ClientConfig` |
| `hysteria` codecs | none | varints, TCP request and response, UDP message, headers | client, fragments | `Wire`, `Connect` |
| `hysteria` Brutal | a ring of samples, rate, RTT, MTU | on_ack, on_congestion_event, on_mtu_update, window | quinn | `Brutal` |
| `transport-socks5` | a handler per connection, UDP associations | serve, handle | client | `Socks5`, `Socks5Client` |
| `transport-tun` | where `run` is | run | client, dataplane | `TunClient` |
| `config`, `profile` | none | parse_uri, name_from_uri, to_uri_with_name | store, configuration | `ShareLink` |
| `hysteria` TLS | none | builds a library's configuration | client | none |

What is hard here, and what makes each part correct:

* **store**: one profile lives in two stores that change one after the other.
  Either can fail, the process can be killed in between. Every listed profile
  must be loadable, a failed call must leave the list as it was, and what a
  call returns must be true.
* **model**: the view acts on an old snapshot, the OS reports when it likes.
  The selection must be a saved profile, the connection state must be the OS's
  although the tunnel may be up before the app is, and what was sent before the
  app goes away must still be handled.
* **stats gate**: a subscriber swaps while it is being called, perhaps by
  itself, under a mutex that is not reentrant.
* **UDP sessions**: sessions come and go while datagrams are late; the table
  must not route to the wrong one, keep dead ones, or leave a consumer waiting.
* **fragments**: lost, repeated and reordered pieces; what is returned must be
  a message that was sent.
* **links**: what one device stores and another imports goes through two
  escapings with different sets of characters and a parser that splits at the
  same characters; the copy must connect as the original does.
* **sockets**: a port spec must be hopped over as written, and quinn must not
  notice: it batches segments, and each layer has limits and buffers of its own.
* **client**: `connect` has many stages, from some of which a spawned task is
  left behind; what failed must be told apart. A TCP response and the data
  after it share a stream and may share a chunk, so the reader parses prefixes.
  The ring of samples must forget.
* **SOCKS5**: any local process can reach the relay socket of an association,
  which must end when its client leaves or its session does.
* **dataplane**: many tasks, `abort` only schedules, and no arm of the loop
  watches the connection. Nothing may be left running, final counters must be
  final, shutdown or a lost connection must end every task.

The full list of hazards, each at its line and with the properties that would
catch it, is in `PROJECT.json`.

## The modules

**`ProfileStore`** is what `store` promises: a list of profiles, each owning
its link, that changes atomically.

**`Store`** is `store/src/lib.rs`. A call is split exactly where the document
or the secret store changes: `AddSecret`, then `PersistOk` or `PersistFails`
(whose three cases `UndoAdd`, `UndoDelete`, `UndoRename` are the rollbacks),
then `DropSecret`, the best-effort erasure. `Crash` may come between any two.
`load` fails for an arbitrary set of ids in each lookup (a locked keychain).
`minted` keeps ids unique, as v4 UUIDs are; `blind`, `halfAdded` and
`undeleted` are history the properties need.

**`AppModel`** is `model/src/lib.rs` with the intents of `ffi-app`: a channel,
one action per command of the actor, each ending with the snapshot `run_actor`
emits. The store is used through `ProfileStore`, and fails at will. The OS is
external: it acts on the last request or ignores it, moves by itself, fails
with an error whose code goes through `conn-error`. It may run the tunnel
without the app, so the tunnel is in any state when the app starts; the actor
starts disconnected and only takes reports. `told` is history: the OS has
reported to this app. `MaxQueue` bounds the channel, which the code leaves
unbounded.

**`StatsGate`** is the stats path of `ffi-app`: locking the slot, cloning,
calling, a callback that may unsubscribe from within.

**`UdpSessions`** is `hysteria/src/client/udp.rs`: the table, the pump and the
consumers. A message also records whom it was meant for, which is not on the
wire, so that misrouting can be stated. Ids wrap at `IdSpace`.

**`Defrag`** is the Defragger of `internal/frag.rs` fed by an unreliable
network, after `UdpConn::send` gave each message its packet id. `feed`'s cases
are one action each. The count wraps at `U8`. **`Frag`** is
`frag_udp_message` and the send path as operators, with the positions and the
joining of `feed`. **`UdpWire`** composes both with `Wire`, from the payload that
is sent to the payload that is returned: each fragment is a message with the
header of a session, written and read byte by byte; the pieces `feed` returns
say which fragments are joined, in which order. `MCDefrag` gives it payloads,
headers and paths, and cuts the messages of the run with it.

**`Dataplane`** is `dataplane`: `orchestrate` as a loop of select arms and the
teardown after it, the NAT table, the receive tasks poll by poll, the relays,
the handle. Both programs use tokio's `current_thread` runtime, so a poll is
one step, and a task that was aborted is not polled again: it is dropped, some
time later. The netstack appears as the reply queue, its writer and the tasks
whose end `infra.failed` reports. `MaxTraffic` bounds the events that are
counted (datagrams, relays, bytes, errors).

**`TunClient`** is `transport-tun`'s `run`: the actions of `Dataplane` composed
with `Connect`. The program connects, opens the device, waits for Ctrl-C,
triggers the shutdown and joins; `orchestrate` and its relays hold the client
in an `Arc`, so its return drops the client, which closes the connection. A
connection that is lost takes every session's receive with it (the part of
`UdpSessions` seen from here, shown there by `FailureReachesConsumers`), and no
relay succeeds any more; nor does a send, except that of a message too large
for the client, which drops it and reports success.

**`Connect`** is `Client::connect`, `authenticate`, `close` and `drop` in
`client/transport.rs`, with the categories of `connect_error.rs`. The HTTP/3
driver is external, as the comments on `Client`'s fields describe it: it ends
with the connection, and closes it when the last request handle is dropped.
The rate header of the answer (`auto`, a number, none, nonsense) and what
becomes of it with the client's own limit are `AuthResponseFromHeader` and
`EffectiveTx`.

**`TcpStream`** is `Client::tcp`, the response reader and `TcpConn::poll_read`.
The stream is a sequence of positions, so that a gap or a repeat shows; chunks,
buffers and the place where the stream ends are arbitrary. Writing is passed
through and left out. **`Wire`** is `varint.rs` and `proxy.rs` byte by byte,
with bytes of fewer values (`Q`), characters of one and two bytes; a padding is
any string of its length.
**`TcpWire`** composes both: on every prefix of every response a server can
write of a set of texts, the parser's verdict (more, accepted, refused, invalid)
and the bytes it takes are the ones `TcpStream`'s reader acts on. `MCTcpStream`
takes the texts of up to two bytes, and a length of responses that all ways of
being invalid can have. `Wire`'s UDP message is used by `UdpWire`.

**`ShareLink`** is the `config` crate over texts of symbols: the characters
that mean something to a link, a word, an escape. A multi-byte escape is one
symbol. **`ClientConfig`** is `from_profile`, the hop interval and the port spec
with `parse_port_union`. **`LinkClient`** is what becomes of a link: stored,
renamed, exported and imported by another device; or dialled, which stacks the
raw, the obfuscating and the hopping socket, through which quinn sends and
receives batches of segments. Bytes are counted, the hash and the XOR are
whether a datagram is under the key. quinn is external: it sends no more
segments than `max_transmit_segments` says. The raw socket is external too: it
coalesces datagrams that arrive together into one buffer, whatever the sockets
above it say, as `max_receive_segments` only sizes quinn's buffers.

**`Brutal`** is `congestion/brutal.rs`; the rate is a fraction, so rounding is
left out.

**`Socks5`** is one connection of `transport-socks5`. The library's handshake
and framing have outcomes only. **`Socks5Client`** composes it with `Connect`
into the SOCKS5 program: the handler's link is the client's connection, its
session is one of the client's, an association that opens or drops it takes a
joint step with the client, and the client is dropped only after the handler
has ended, as the `Arc` they share makes sure.

`MCStore`, `MCAppModel`, `MCDefrag`, `MCTcpStream` and `MCLinkClient` give
constants their values; the `*Proofs` modules hold lemmas and theorems (`AppModelProofs` also
those about `StatsGate`, `DefragProofs` those about `Frag` and `UdpWire`).
Definitions commented `Mutant:` are plausible bugs of the operation they
precede; replacing the operation by one makes TLC violate the property that
`PROJECT.json` names for it. No specification uses them.

## The runs

| Run | Instance | Shows |
|---|---|---|
| `store` | 3 ids, 2 links, 2 names | consistency of document, secrets and memory under failures and crashes; refinement of `ProfileStore` |
| `store_orphan` | the same | a comment the code does not keep (below) |
| `app_model` | 1 id, 1 link, 2 names, 2 commands waiting | list, selection, connection, with a tunnel that may be up first; only saved profiles start; a dropped handle loses no command, the view converges |
| `stats_gate` | 2 observers, 5 stats, 2 waiting | at most one late call, no self-deadlock |
| `udp_sessions` | 3 sessions, ids modulo 2, channels of 1, 2 in flight | routing, registration, no leaks, EOF; a failed transport ends every receive |
| `udp_manager_dropped` | 2 sessions, 1 in flight | a doc comment the code does not keep (below) |
| `defrag` | two messages of 3 fragments, one that fits, 2 cut ids, 2 copies, count modulo 4; payloads up to 9 bytes, headers of 10 to 14, datagrams up to 19, a buffer of 18 | fragments fit and join back; integrity, no phantoms, completion |
| `tun_client` | 2 endpoints, 2 sessions, table of 1, queue of 1, 1 TCP flow, 3 counted events | no stray task, final counters; Ctrl-C, a netstack failure or a lost connection ends every task; sweeping |
| `tcp_stream` | a response of 5 bytes, 4 of data, chunks of 3, buffers of 2; bytes of 8 values, messages and paddings up to 2 | reads return the data exactly, and end; the parser agrees on every prefix |
| `brutal` | 3 slots, 6 seconds, 2 samples each, 2 MTUs, 2 RTTs | the rate is the last seconds', the window within its bounds |
| `link_client` | links with special characters in every place; specs of up to 3 parts over ports 0 to 3; 5 intervals; datagrams of 2 bytes, salt of 1, receive batches of 2 | a shared link is the same link; hops over exactly the named ports; what is sent goes out whole, what is received is data only if it was sent as such |
| `socks5_client` | bandwidths 0, 1, 2; 2 sessions of the client; 2 local senders, 2 datagrams and 1 reply waiting | outcomes told apart; the connection lives with its client; one sender, its replies; associations end |

The bounds are the smallest at which the interesting cases happen: a third id
makes a retried add possible while an orphan and an entry exist; two commands
waiting suffice for a command to be handled in a state it was not sent in (with
one profile; that list, selection and starts are right with more is proved);
the third of two ids wraps, and replaces a session that may still be open; with
two cut messages and two packet ids there are runs with and without a
collision, with two copies a repeat can follow a return, and three fragments
are the most a count modulo 4 can number, as 255 are for a `u8`; a table and a
queue of one are full at once (with one flow `Accept` always finds a permit), and with three events a
session's second reply blocks its task, or a session is opened, swept and
opened again; two chunks are longer than the response, and buffers are shorter
than a chunk, so that a chunk ends before, at and after the response and a
leftover needs several reads; six seconds use each of three slots twice, with
gaps; with four ports, specs of three parts touch, overlap, contain each other
and reach the largest port; the links of `link_client` have each special
character in the credential, the password, the server name and the name. The runs that switch deadlock checking off do so
because their systems really stop: sessions, fragments and tasks run out, the
stats are delivered, the stream, the association, the connection or the tunnel
has ended.

**Fairness.** `AppModel` assumes that the actor thread is scheduled, and
nothing of the view or the OS. `StatsGate` also assumes that foreign callbacks
return. `UdpSessions` assumes that the runtime polls the pump when the
transport has failed, drops it when it was aborted, and that consumers go on
receiving. `TunClient` assumes that the runtime runs what is ready: the arms of
the loop that break or sweep, the teardown, a receive task that must stop or
can go on, the cancellation of aborted tasks, and the join's wake-up; also that
the HTTP/3 driver is polled and the device takes what is written. `select!`
polls its arms in random order, so none is passed over for good; `Socks5Client`
assumes the same of the association's loop, and of the driver.
`TcpStream` assumes that whoever waits for the stream
is polled. No fairness is assumed of traffic, of relays that copy, of the
netstack failing or of Ctrl-C: shutdown must not depend on them.

## Where code and comments disagree

* **store_orphan.** `add` says that a half-written add leaves an orphaned
  secret that is "overwritten on retry". The retry draws a fresh id, so the
  orphan stays in the secret store, with the credential, until someone deletes
  that id. `OrphansExplained`, which holds, says where orphans come from.
* **udp_manager_dropped.** `receive` promises EOF once the manager is closed.
  `Drop` aborts the pump, whose last act is to clear the table; the senders
  stay in the table, which the consumer itself keeps alive, and `receive` waits
  for ever. A transport failure while the manager exists does reach everyone
  (`FailureReachesConsumers`).

Others are one line of a module and have no run of their own:

* `portunion.rs` lists `all` and `*` among the specs of a link, and parses them;
  `from_profile` calls it only for a spec with a dash or a comma, and otherwise
  wants a number, so such a link is refused (`ClientConfig`).
* `run` of `transport-tun` says that it runs the netstack "until it errors". It
  waits for Ctrl-C only: after a netstack error the tunnel is torn down and the
  program waits on, and reports the error when it is interrupted. `TunnelEnds`
  therefore promises the program's end only after Ctrl-C.
* An obfuscation password that is too short is reported as an unreachable
  server, not as a configuration error.
* A host name taken from a link as the profile's name may end with a blank
  (`h :443`), which sharing trims; and `fast_open` is not part of a link.
  `SharedLinkSame` compares names up to such blanks.
* `verify_and_fill` checks keep-alive and idle timeout separately, so the former
  may exceed the latter.
* `obfs_socket.rs` says that "GSO/GRO are disabled (one datagram per operation)".
  That holds for sending. The raw socket below goes on coalescing what it
  receives, and `poll_recv` deobfuscates the whole buffer as one datagram, its
  stride ignored: of datagrams that arrive together, only the beginning makes
  sense and the rest is lost. `SegmentsWhole` says what remains true, that such
  a buffer is never shown to quinn as what was sent (`LinkClient`).
* `PLAN.md` lets the tunnel start with the app not running. The actor starts
  from a disconnected state and nothing in the repository asks the OS, so until
  the OS's first report the app shows a tunnel that is up as disconnected.
  `ConnectionIsTunnels` and `ViewConverges` promise the tunnel's state from that
  report on.
* The datagram reader takes no UDP message without payload, though the writer
  makes one; `FitsAndJoins` says so of the empty message.

## What is proved

Each theorem holds for every value of the constants that the module's ASSUME
admits, and is checked by TLAPS to the last leaf.

* **`StoreProofs`**: `StoreInvariant`, `Loadable`, `RollbackExact` and
  `StoreRefines`. That memory equals the document between calls is not
  inductive; `CallInProgress` adds what a half-done call has changed (memory is
  the document with exactly that change) and what it kept for the rollback.
  Rollback is then a fact about sequences: removing and inserting at the same
  place, appending and taking the front, give the sequence back
  (`InsertUndoesRemove`, `FrontUndoesAppend`). For refinement, only `PersistOk`
  changes what is saved; the erasures touch only ids the document does not list.
  `StoreAccounts` adds what the secret store holds (`AccountInv`): every secret
  is listed, of the id the call has in hand (`InHand`), or left over from an add
  or a delete that is on record; and two entries share a link only if a lookup
  was blind. `Truthful`, `Orphans` and `Idempotent` follow.
* **`AppModelProofs`**: `AppInvariant`, and from it `ListCurrent`,
  `SelectionSaved` and `StartsSaved`. The selection is looked up in the list,
  so it is saved only because the list is the store's: the parts need each
  other. `ConnectionShown`, for a channel of any length and a tunnel in any state
  when the app starts: what is inductive is `NewestTells`, that the newest report
  in the channel tells the tunnel's state, and that when there is none the actor
  shows it already if the OS has reported at all; a command that is taken
  moves every position, and only the last report to be taken matters. Of the
  stats gate: `LateOnce`, as the observer that is about to be called has had no
  late call since it was in the slot (`GateInv`).
* **`UdpSessionsProofs`**: `UdpInvariant`, `Routing`, `Registration`,
  `EofFinality`, `NoLeak`, `EofReasons`. The strengthening is that ids were given out in order
  (`IdsInOrder`), and that every message anywhere names the id of a connection
  that was opened (`MessagesMatch`).
* **`DefragProofs`**: `DefragInvariant`, `Integrity`, `Completion`. `Holds` says
  what the positions contain, `Counted` relates the count to them before and
  after a return: it equals the cardinality of the positions fed, which is why
  a return comes exactly when all are there. `Copies` counts copies: a message
  was returned no more often than each fragment arrived, and strictly less often
  while the Defragger holds one that has not been returned (`CopiesCover`).
  `CutWhole` is about the sender, without any state: the arithmetic of
  `frag_udp_message` for every size, from the bounds of a rounded-up quotient
  (`CountFits`) to where each slice begins and ends; consecutive slices join to
  the payload by induction (`SlicesJoin`). `EndToEnd` puts the parts together:
  the cut, the codec's `MessageRead` (an instance of `ProtocolProofs`, whose
  assumptions are discharged first) and `Integrity`, which says which fragments,
  and in which order, `feed` joins.
* **`QuicProofs`**, of what quinn is given. Of the sockets: `LinkKept`,
  `HopsNamed` and `SegmentsKept`, for every link, port spec, hop interval and
  size of datagrams. `LinkInv` ties the configuration to the link it was made
  from and the index of the hopping socket to its ports; the rest are facts about
  the operators. A text splits into texts (`SplitType`), digits are a number
  (`NumberType`), a part of a spec is the range between its ends (`RangeRead`).
  The ranges can be sorted (`OrderExists`), and merging them in that order keeps
  the ports they cover and leaves a gap between any two (`MergeStep`,
  `NormalizeIs`); so their list rises (`PortListIs`) and holds each port once
  (`RisingCounts`), which is what `ConfigOf` says of `from_profile`. Sending and
  receiving are `SentWhole` and `ReceivedWhole`: with a key quinn sends one segment
  at a time, and a datagram of quinn and its salt fit the buffer, so one that
  arrives alone is read; several in one buffer never are. A fold is a
  recursive function over sets of indices (`Unfolds`): each is shown equal to
  its values step by step, by induction.
  Of Brutal: `RingKept` and `RecentRate`, for any number of slots. The
  code sums over the slots of a ring, the property over the last seconds;
  `RingHolds` says what a slot holds, and that a second which has not been
  counted yet has left nothing in its slot. That both sums are equal
  (`RingTotal`) is a rotation of a period (`TotalRotates`), as two seconds of
  one slot are a period apart (`Apart`). The sums are recursive functions, so
  this needs induction over the numbers: `Induct` is the principle with a set in
  place of a predicate, from the library's minimum of a well-founded relation.
  The window's bounds are then arithmetic (`RateBounds`, `Inflates`).
* **`ProtocolProofs`**, of the stream and the codecs. `ReadsExact`: that what was given out is the data is
  not inductive; `StreamInv` adds that what the response reader holds is the
  stream from its start, that the leftover is that minus the response, and that
  while a leftover remains exactly its used part has been given out, so that
  the position in the leftover and the position in the stream agree. Joining
  and cutting runs of consecutive units are lemmas.
  Of the codecs, for every size of byte and every length of text: `ParserMeans`,
  `VerdictStands`, `ResponseParsed`, `RequestRead` and `MessageRead`. Each reader either asks for
  more or has judged a beginning of its input, and judges it so whatever follows
  (`ExactSplits`, `VarintSplits`, `BlockSplits`, `ResponseSplits`); this is why
  the client may run its parser again on a longer buffer. So a whole response is
  judged nowhere before its end: a verdict on less of it would leave something
  over; nor is one that breaks a rule noticed before the byte that breaks it
  (`LengthAsks`, `PartsJudged`), or later, so `ParserMeans` only has to know how
  much was read, which is part of `StreamInv`. What was written is read (`BigEndianWhole`, `VarintAny`, `BlockAny`), as
  the digits of a number mean the number, by induction over them (`NumberIs`).
* **`TunClientProofs`**: `RunInvariant`, `TasksKept` and `JoinFinal`, for any
  number of endpoints, sessions and relays. That the counters are final once
  joined rests on there being no task that could still count; `TasksInv` gets
  this from the table: an unaborted task has an entry (`NoStrayTask`), the table
  is empty when `orchestrate` has returned (`Emptied`), the answer of the join
  was given only then and was the counters at that time (`Answered`), and only
  tasks that exist are aborted (`TableOK`), so that a session opened later is
  not taken for an aborted one. `RunsDataplane`: the program implements the next-state
  relation of `Dataplane`.
* **`Socks5ClientProofs`**: `Outcome` and `OneSender`, for any rates, senders
  and queues. `ConnectInv` adds to what the caller is told what makes it true: a
  connection exists from the handshake on, a failure is told once, the rate is
  the negotiated one. `Pinned` says that all who were served are the address
  pinned, and that no reply can be waiting before there is one. `DriverSpares`
  is the safety part of `LivesWithClient`: a request handle exists until the
  client goes (`DriverHeld`), so the driver has no reason to close. `RunsClient`:
  the program implements `Connect`'s next-state relation.

The type invariants and the inductive invariants (`StoreInv`, `AccountInv`,
`NewestTells`, `GateInv`, `UdpInv`, `DefragInv`, `CopiesCover`, `StreamInv`,
`TasksInv`, `ConnectInv`, `DriverHeld`, `LinkInv`, `BrutalInv`) are proved and
not listed as properties of a run; so is `EofIsFinal`.

Only model-checked: all liveness, with it the second part of `LivesWithClient`
(the prover has no fairness); and `SharedLinkSame`, a round trip of texts of any
length through escaping, splitting and parsing.

## What is not modelled, and the plan

Not modelled, as libraries or tooling without state of the repository's own:
TLS configuration, the smoltcp stack and the pumps between it and the device,
device setup, argument parsing, the uniffi adapters of `ffi-app` (they copy
fields one to one), the bindings generator and scripts. What they can do to the
rest is there as outcomes: a configuration that fails, a netstack task that
ends, a device that does not open. The QUIC fields that `verify_and_fill`
fills and checks are one outcome of `Configure`, as no program of the repository
sets them. The contents of paddings are arbitrary. File system durability: a
rename that returned is durable.

The order of work, most important first; all of it is done:

1. `Store` over `ProfileStore`, its proofs: credentials are what a user loses.
2. `AppModel` over `ProfileStore`, `StatsGate`: what the user sees.
3. `UdpSessions`, `Defrag`, `Frag`: routing and integrity of traffic.
4. `Dataplane`: lifecycle of the tunnel.
5. `Connect`, `TcpStream`, `Brutal`: the QUIC client.
6. `Socks5`, `Socks5Client`: the second front-end over the client.
7. `TunClient`: the dataplane over the client, and what a lost connection does
   to its tasks; the proofs of both programs' safety.
8. `ShareLink`, `ClientConfig`, `LinkClient`, `Wire`, `TcpWire`, `UdpWire`:
   links, configuration, sockets and codecs against reference definitions.
9. Proofs of the remaining state invariants of `Store`, `AppModel`,
   `StatsGate`, `UdpSessions`, `Defrag` and `Brutal`, of how messages are cut,
   that the TUN program implements `Dataplane` and the SOCKS5 program `Connect`.
10. Proofs about the operators: the folds of `SegmentsWhole`, what merging port
    ranges keeps (`ClientConfig`), the codecs (`Wire`), and what they mean to the
    state machines that use them (`TcpWire`, `UdpWire`).

What a next step would take up: a proof of the round trip of a link.
