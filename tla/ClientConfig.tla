---------------------------- MODULE ClientConfig ----------------------------
(* What the client makes of a profile: Config::from_profile and
   verify_and_fill (config.rs), and the port spec it may hop over
   (portunion.rs).  Server names and specs are texts of ShareLink; a port is
   written with the digits of Value. *)
EXTENDS ShareLink, Integers, FiniteSets

CONSTANTS
    MaxPort,        \* the largest port: 65535 in a u16
    DefaultSpec,    \* "443"
    MinInterval,    \* MIN_HOP_INTERVAL, 5 s
    DefaultInterval \* DEFAULT_HOP_INTERVAL, 30 s

ASSUME ConfigAssumption ==
    /\ MaxPort \in Nat
    /\ MinInterval \in Nat \ {0}
    /\ DefaultInterval \in Nat /\ MinInterval <= DefaultInterval

Numerals == <<"0", "1", "2", "3", "4">>

Value == [d \in ToSet(Numerals) |-> (CHOOSE i \in DOMAIN Numerals : Numerals[i] = d) - 1]

-----------------------------------------------------------------------------

Decimal(digits) == FoldLeft(LAMBDA v, d : 10 * v + Value[d], 0, digits)

(* u16::from_str, which takes a leading "+"; None where it fails. *)
ParsePort(s) ==
    LET digits == IF s # << >> /\ s[1] = "+" THEN Tail(s) ELSE s
    IN  IF digits = << >> \/ ~ ToSet(digits) \subseteq DOMAIN Value THEN None
        ELSE IF Decimal(digits) <= MaxPort THEN Decimal(digits) ELSE None

(* A part of the spec as a range: its ends in the wrong order are swapped. *)
RangeOf(part) ==
    LET ends == [i \in DOMAIN Split(part, "-") |-> ParsePort(Split(part, "-")[i])]
        a == ends[1]
        b == Last(ends)
    IN  IF Len(ends) > 2 \/ None \in ToSet(ends) THEN None
        ELSE IF a > b THEN [start |-> b, end |-> a]
        ELSE [start |-> a, end |-> b]

\* Mutant: the test for adjacent ranges in u16, which wraps at the largest port.
MergeWraps(done, current) ==
    IF done # << >> /\ current.start <= (Last(done).end + 1) % (MaxPort + 1)
    THEN IF current.end > Last(done).end
         THEN [done EXCEPT ![Len(done)].end = current.end]
         ELSE done
    ELSE Append(done, current)

(* One step of normalize: the range is merged into the last one when it
   overlaps or touches it. *)
Merge(done, current) ==
    IF done # << >> /\ current.start <= Last(done).end + 1
    THEN IF current.end > Last(done).end
         THEN [done EXCEPT ![Len(done)].end = current.end]
         ELSE done
    ELSE Append(done, current)

Lower(r, s) == r.start < s.start \/ (r.start = s.start /\ r.end < s.end)

(* sort_by_key. *)
Sorted(ranges) ==
    LET order == CHOOSE p \in Bijection(DOMAIN ranges, DOMAIN ranges) :
            \A i, j \in DOMAIN ranges : i < j => ~ Lower(ranges[p[j]], ranges[p[i]])
    IN  [i \in DOMAIN ranges |-> ranges[order[i]]]

Normalize(ranges) == FoldLeft(Merge, << >>, Sorted(ranges))

(* parse_port_union. *)
ParsePortUnion(spec) ==
    LET ranges == [i \in DOMAIN Split(spec, ",") |-> RangeOf(Split(spec, ",")[i])]
    IN  IF spec \in {<<"all">>, <<"*">>} THEN <<[start |-> 0, end |-> MaxPort]>>
        ELSE IF None \in ToSet(ranges) THEN None
        ELSE Normalize(ranges)

(* PortUnion::ports: the ranges in order. *)
PortList(union) ==
    FlattenSeq([i \in DOMAIN union |->
        [k \in 1..(union[i].end - union[i].start + 1) |-> union[i].start + k - 1]])

-----------------------------------------------------------------------------

Or(spec) == IF spec = << >> THEN DefaultSpec ELSE spec

(* split_host_port: a second colon outside brackets is a bare IPv6 address. *)
SplitHostPort(server) ==
    IF server[1] = "[" /\ Has(server, "]")
    THEN LET after == After(Tail(server), "]")
         IN  [host |-> Before(Tail(server), "]"),
              spec |-> IF after # << >> /\ after[1] = ":" THEN Or(Tail(after))
                       ELSE DefaultSpec]
    ELSE LET host == BeforeLast(server, ":")
             spec == AfterLast(server, ":")
         IN  IF Has(server, ":") /\ host # << >> /\ spec # << >> /\ ~ Has(host, ":")
             THEN [host |-> host, spec |-> spec]
             ELSE [host |-> server, spec |-> DefaultSpec]

(* from_profile: a dash or a comma turns hopping on. *)
Hops(spec) == Has(spec, "-") \/ Has(spec, ",")

HopPorts(spec) == IF Hops(spec) THEN ParsePortUnion(spec) ELSE << >>

(* primary_port: the first port as it is written. *)
PrimaryPort(spec) == ParsePort(Before(Before(spec, ","), "-"))

(* from_profile, once the host is resolved: None for an error, no obfuscation
   key for None, no ports for a client that does not hop. *)
FromProfile(p) ==
    LET at == SplitHostPort(p.server)
    IN  IF \/ HopPorts(at.spec) = None
           \/ PrimaryPort(at.spec) = None
           \/ p.obfs.type \notin {<< >>, <<"salamander">>}
        THEN None
        ELSE [server     |-> PrimaryPort(at.spec),
              serverName |-> IF p.sni = << >> THEN at.host ELSE p.sni,
              auth       |-> p.auth,
              obfs       |-> IF p.obfs = NoObfs THEN None ELSE p.obfs.password,
              hopPorts   |-> HopPorts(at.spec)]

(* verify_and_fill and HopIntervalConfig::normalized: an interval is filled or
   checked only for a client that hops. *)
Normalized(interval) ==
    IF interval.min = 0 /\ interval.max = 0
    THEN [min |-> DefaultInterval, max |-> DefaultInterval]
    ELSE IF \/ interval.min = 0 \/ interval.max = 0
            \/ interval.min > interval.max
            \/ interval.min < MinInterval
    THEN None
    ELSE interval

VerifyAndFill(config, interval) ==
    IF config.hopPorts = << >> THEN interval ELSE Normalized(interval)

(* next_delay. *)
Delays(interval) ==
    IF interval.min >= interval.max THEN {interval.min} ELSE interval.min..interval.max
=============================================================================
