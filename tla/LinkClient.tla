----------------------------- MODULE LinkClient -----------------------------
(* What becomes of a link.  The app stores what parse_uri reads from it, may
   rename the profile, and exports it as a link again, which another device
   imports (ShareLink).  The programs dial it (ClientConfig): build_endpoint
   stacks the raw socket, the obfuscating one (obfs_socket.rs, obfs.rs) and the
   hopping one (hop_socket.rs), and quinn sends and receives through the stack.

   Bytes are counted, not kept: what quinn sends at once is a sequence of
   segments, each its size.  A datagram is the segments it carries under the
   key of an obfuscation, or in the clear.

   quinn never hands over more segments than max_transmit_segments.  What it
   makes of max_receive_segments is the size of its buffers only: the raw socket
   coalesces datagrams that arrive together (UDP_GRO), whatever lies above it. *)
EXTENDS ClientConfig

CONSTANTS
    Pasted,         \* the links people paste into the app
    Given,          \* the links a program is started with
    Names,          \* the names a profile is given
    Intervals,      \* the hop intervals a caller sets; zero is unset
    Mtu,            \* the largest datagram of quinn, 1452
    PskMinLen,      \* PSK_MIN_LEN, 4
    SaltLen,        \* SALT_LEN, 8
    UdpBufferSize,  \* UDP_BUFFER_SIZE, 2048
    RawSegments     \* segments the raw socket sends or receives at once

ASSUME SocketAssumption ==
    /\ {Mtu, SaltLen, UdpBufferSize, RawSegments} \subseteq Nat \ {0}
    /\ Mtu + SaltLen <= UdpBufferSize

ASSUME LinkAssumption ==
    /\ Given \subseteq [scheme : STRING, text : Seq(STRING)]
    /\ DefaultSpec \in Seq(STRING)
    /\ Intervals \subseteq [min : Nat, max : Nat]

VARIABLES
    phase,      \* of the app: "pasted", "stored", "shared" or "imported"; of a
                \*   program: "given", "ready" or "dropped"; or "refused"
    link,       \* the link at hand: the one pasted, then the one exported
    stored,     \* profile and display name on this device
    imported,   \* and on the other
    config,     \* the client's configuration
    interval,   \* and its hop_interval
    index,      \* HopState.index
    hopper,     \* hop_loop: "off", "sleeping" or "ended"
    delay,      \* how long it sleeps
    io          \* the last call of quinn: its segments, the datagrams on the
                \*   wire and the port at their other end

device == <<link, stored, imported>>
socket == <<index, hopper, delay>>
vars == <<phase, device, config, interval, socket, io>>

Init ==
    /\ \/ phase = "pasted" /\ link \in Pasted
       \/ phase = "given" /\ link \in Given
    /\ stored = None /\ imported = None
    /\ config = None /\ interval = None
    /\ index = 0 /\ hopper = "off" /\ delay = 0
    /\ io = None

-----------------------------------------------------------------------------

(* Store::add. *)
Entry(l) ==
    LET p == ParseUri(l)
    IN  IF p = None THEN None
        ELSE [profile |-> p, name |-> DisplayName(NameFromUri(l), p.server)]

(* Intent::AddProfileFromUri. *)
AddProfile ==
    /\ phase = "pasted"
    /\ stored' = Entry(link)
    /\ phase' = IF stored' = None THEN "refused" ELSE "stored"
    /\ UNCHANGED <<link, imported, config, interval, socket, io>>

(* Intent::RenameProfile; a blank name is the host again. *)
RenameProfile(name) ==
    /\ phase = "stored"
    /\ stored' = [stored EXCEPT !.name = DisplayName(name, stored.profile.server)]
    /\ UNCHANGED <<phase, link, imported, config, interval, socket, io>>

(* export. *)
ExportProfile ==
    /\ phase = "stored"
    /\ phase' = "shared"
    /\ link' = ToUriWithName(stored.profile, stored.name)
    /\ UNCHANGED <<stored, imported, config, interval, socket, io>>

(* Another device imports what was exported. *)
ImportShared ==
    /\ phase = "shared"
    /\ imported' = Entry(link)
    /\ phase' = "imported"
    /\ UNCHANGED <<link, stored, config, interval, socket, io>>

-----------------------------------------------------------------------------

HopAddrs == PortList(config.hopPorts)

(* SalamanderObfuscator::new. *)
ShortKey(psk) == psk # None /\ Len(psk) < PskMinLen

(* build_config and into_parts: the link is refused, and so is its profile, or
   its host does not resolve.  connect: the interval is out of range, the key is
   too short for SalamanderObfuscator::new, or there is no socket. *)
DialFails ==
    /\ phase = "given"
    /\ phase' = "refused"
    /\ UNCHANGED <<device, config, interval, socket, io>>

(* The program's client up to its endpoint.  A hopping socket starts at any of
   its ports, and its task sleeps. *)
Dial(hopInterval) ==
    /\ phase = "given"
    /\ ParseUri(link) # None
    /\ config' = FromProfile(ParseUri(link)) /\ config' # None
    /\ interval' = VerifyAndFill(config', hopInterval) /\ interval' # None
    /\ ~ ShortKey(config'.obfs)
    /\ phase' = "ready"
    /\ IF config'.hopPorts = << >> THEN UNCHANGED socket
       ELSE /\ index' \in DOMAIN HopAddrs'
            /\ hopper' = "sleeping" /\ delay' \in Delays(interval')
    /\ UNCHANGED <<device, io>>

\* Mutant: the hopping socket answers for the raw one.
MaxSegmentsOfRaw == RawSegments

(* max_transmit_segments, through the hopping socket. *)
MaxSegments == IF config.obfs = None THEN RawSegments ELSE 1

Datagram(key, segments) == [key |-> key, segments |-> segments]

Sum(segments) == FoldLeft(+, 0, segments)

(* obfuscate: one datagram of all it is handed, or nothing when that exceeds
   the scratch buffer. *)
Obfuscate(segments) ==
    IF Sum(segments) + SaltLen > UdpBufferSize THEN << >>
    ELSE <<Datagram(config.obfs, segments)>>

Noise == <<None>>

(* deobfuscate: a datagram with nothing after the salt, or that exceeds the
   buffer, is presented as empty.  The wrong key makes noise, one segment that
   nobody sent.  So do coalesced datagrams: they are read as one, of which only
   the beginning is under the first one's salt. *)
Deobfuscate(wire) ==
    LET bytes == Sum(wire[1].segments)
        size == IF wire[1].key = None THEN bytes - SaltLen ELSE bytes
    IN  IF Len(wire) > 1 THEN Noise
        ELSE IF size \notin 1 .. UdpBufferSize THEN << >>
        ELSE IF wire[1].key = config.obfs THEN wire[1].segments
        ELSE Noise

(* try_send of the stack. *)
Send(segments) ==
    /\ phase = "ready"
    /\ Len(segments) <= MaxSegments
    /\ io' = [op       |-> "send",
              segments |-> segments,
              peer     |-> IF config.hopPorts = << >> THEN config.server
                           ELSE HopAddrs[index],
              wire     |-> IF config.obfs # None THEN Obfuscate(segments)
                           ELSE [i \in DOMAIN segments |-> Datagram(None, <<segments[i]>>)]]
    /\ UNCHANGED <<phase, device, config, interval, socket>>

(* poll_recv of the stack: a datagram, or several that arrive together in one
   buffer.  The hopping socket presents them as the server's. *)
Receive(from, wire) ==
    /\ phase = "ready"
    /\ io' = [op       |-> "receive",
              segments |-> IF config.obfs # None THEN Deobfuscate(wire)
                           ELSE FlattenSeq([i \in DOMAIN wire |-> wire[i].segments]),
              peer     |-> IF config.hopPorts = << >> THEN from ELSE config.server,
              wire     |-> wire]
    /\ UNCHANGED <<phase, device, config, interval, socket>>

(* hop_loop after its sleep: another port, or the end when the socket is gone. *)
Hop ==
    /\ hopper = "sleeping"
    /\ IF phase = "ready"
       THEN index' \in DOMAIN HopAddrs /\ delay' \in Delays(interval) /\ UNCHANGED hopper
       ELSE hopper' = "ended" /\ UNCHANGED <<index, delay>>
    /\ UNCHANGED <<phase, device, config, interval, io>>

(* The endpoint drops its socket. *)
DropSocket ==
    /\ phase = "ready"
    /\ phase' = "dropped"
    /\ UNCHANGED <<device, config, interval, socket, io>>

-----------------------------------------------------------------------------

\* What quinn sends at once: segments of one size, the last one perhaps shorter.
Transmits ==
    {s \in UNION {[1 .. n -> 1 .. Mtu] : n \in 1 .. RawSegments} :
        \A i \in DOMAIN s : s[i] <= s[1] /\ (i < Len(s) => s[i] = s[1])}

\* The ports the server is reached on.
Reached == IF config.hopPorts = << >> THEN {config.server} ELSE ToSet(HopAddrs)

\* What the server sends, and what anyone may.
FromServer(n) == Datagram(config.obfs, <<n>>)

Stray == [key : {None, <<"x">>}, segments : {<< >>} \cup {<<n>> : n \in 1 .. Mtu}]

Arrivals ==
    (UNION {[1 .. k -> {FromServer(n) : n \in 1 .. Mtu}] : k \in 1 .. RawSegments})
        \cup {<<d>> : d \in Stray}

Next ==
    \/ AddProfile \/ ExportProfile \/ ImportShared
    \/ \E name \in Names : RenameProfile(name)
    \/ \E hopInterval \in Intervals : Dial(hopInterval)
    \/ DialFails \/ Hop \/ DropSocket
    \/ \E s \in Transmits : Send(s)
    \/ phase = "ready" /\ \E from \in Reached, wire \in Arrivals : Receive(from, wire)

Spec == Init /\ [][Next]_vars

-----------------------------------------------------------------------------

\* A link that the app exports, imported again, is the same profile under the
\* same name, whatever characters its credential, its passwords, its server
\* name or its name are made of: it connects as the first one does, and the
\* store knows it for the profile it already has.  (Blanks at the ends of a name
\* are lost: the host of "h :443" is a name that ends in one.)
SharedLinkSame ==
    phase = "imported" =>
        /\ imported # None
        /\ imported.profile = stored.profile
        /\ Trim(imported.name) = Trim(stored.name)

\* The ports a spec names, read part by part.
Named(spec) ==
    {q \in 0 .. MaxPort :
        \E part \in ToSet(Split(spec, ",")) :
            LET ends == {ParsePort(e) : e \in ToSet(Split(part, "-"))}
            IN  \E a, b \in ends : a <= q /\ q <= b}

\* A link that hops does so over exactly the ports it names, each once, so that
\* none is favoured when one is drawn, and never more often than every five
\* seconds whatever interval is set.  Nothing is sent to a port the link does
\* not name, and quinn sees one peer, whatever port the answers come from.
HopsOverNamed ==
    phase = "ready" =>
        LET spec == SplitHostPort(ParseUri(link).server).spec
        IN  /\ config.server \in Named(spec)
            /\ io # None =>
                  io.peer \in (IF io.op = "send" THEN Named(spec) ELSE {config.server})
            /\ config.hopPorts # << >> =>
                  /\ ToSet(HopAddrs) = Named(spec)
                  /\ Len(HopAddrs) = Cardinality(Named(spec))
                  /\ delay >= MinInterval
            /\ config.hopPorts = << >> => Cardinality(Named(spec)) = 1

\* Every segment of a call is a datagram of its own.
Intact ==
    /\ \A d \in ToSet(io.wire) : Len(d.segments) <= 1
    /\ io.segments = FlattenSeq([i \in DOMAIN io.wire |-> io.wire[i].segments])

\* The layers of sockets are transparent to what quinn sends: each segment goes
\* out whole as a datagram of its own, under the key if there is one.  What
\* arrives is what quinn is shown when there is no key, and with one when a
\* datagram under it arrives alone.  All else is shown as nothing or as noise:
\* what is not under the key, and, as poll_recv deobfuscates a whole buffer,
\* what is under it but was coalesced.
SegmentsWhole ==
    io # None =>
        /\ config.obfs = None \/ io.op = "send" => Intact
        /\ io.op = "send" => \A d \in ToSet(io.wire) : d.key = config.obfs
        /\ config.obfs # None /\ io.op = "receive" =>
              IF Len(io.wire) = 1 /\ io.wire[1].key = config.obfs THEN Intact
              ELSE io.segments \in {<< >>, Noise}

\* What the steps of a client keep: its configuration is that of its link, the
\* socket is at one of its ports, and quinn is called only once it is there.
LinkInv ==
    /\ phase = "given" => link \in Given /\ io = None
    /\ phase = "ready" =>
          /\ link \in Given /\ ParseUri(link) # None
          /\ config = FromProfile(ParseUri(link)) /\ config # None
          /\ config.hopPorts # << >> =>
                /\ index \in DOMAIN HopAddrs
                /\ interval \in [min : Nat, max : Nat] /\ interval.min >= MinInterval
                /\ delay >= MinInterval
          /\ io # None => io.peer \in (IF io.op = "send" THEN Reached ELSE {config.server})
    /\ SegmentsWhole
=============================================================================
