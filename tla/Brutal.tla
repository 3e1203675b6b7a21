------------------------------- MODULE Brutal -------------------------------
(* Brutal congestion control: hysteria's congestion/brutal.rs.  A ring of
   slots, one per second, counts acknowledged and lost packets; the ack rate is
   computed from the recent ones and scales the window.  The rate is a fraction
   <<num, den>>; the window is the integer part of the quotient, as the cast to
   u64 leaves it. *)
EXTENDS Integers

CONSTANTS
    Slots,          \* PKT_INFO_SLOT_COUNT
    MinSamples,     \* MIN_SAMPLE_COUNT
    InitialWindow,  \* INITIAL_WINDOW
    Bps,            \* the configured bandwidth
    Mtus, Rtts,     \* datagram sizes, and round-trip times
    LostBytes,      \* what a congestion event reports
    Horizon,        \* bound: seconds
    MaxPerSecond    \* bound: samples counted in a second

ASSUME BrutalAssumption ==
    /\ Slots \in Nat \ {0} /\ MinSamples \in Nat \ {0}
    /\ InitialWindow \in Nat /\ Bps \in Nat
    /\ Mtus \subseteq Nat /\ Rtts \subseteq Nat /\ LostBytes \subseteq Nat
    /\ Horizon \in Nat

VARIABLES
    now,    \* whole seconds since the sender was built
    slots,  \* pkt_info_slots
    rate,   \* ack_rate
    rtt,    \* the last smoothed RTT, 0 before the first
    mtu,    \* max_datagram_size
    acked,  \* history: packets acknowledged in each second
    lost,   \* history: packets lost in each second
    last    \* history: the second of the last sample

brutalVars == <<now, slots, rate, rtt, mtu, acked, lost, last>>

Seconds == 0..Horizon

(* MIN_ACK_RATE. *)
MinRate == <<4, 5>>

\* f[0] + f[1] + ... + f[n - 1]
Total(f, n) ==
    LET sum[k \in 0..n] == IF k = 0 THEN 0 ELSE sum[k - 1] + f[k - 1]
    IN  sum[n]

BrutalInit ==
    /\ now = 0
    /\ slots = [s \in 0..(Slots - 1) |-> [timestamp |-> 0, ack |-> 0, loss |-> 0]]
    /\ rate = <<1, 1>>
    /\ rtt = 0
    /\ mtu \in Mtus
    /\ acked = [s \in Seconds |-> 0] /\ lost = [s \in Seconds |-> 0]
    /\ last = 0

-----------------------------------------------------------------------------

(* The rate from counts: 1 while they are few, never below the minimum. *)
RateOf(acks, losses) ==
    IF acks + losses < MinSamples THEN <<1, 1>>
    ELSE IF acks * MinRate[2] < MinRate[1] * (acks + losses) THEN MinRate
    ELSE <<acks, acks + losses>>

\* Mutant: every slot counts, however old.
UpdateAckRateAll(ring, current) ==
    RateOf(Total([i \in DOMAIN ring |-> ring[i].ack], Slots),
           Total([i \in DOMAIN ring |-> ring[i].loss], Slots))

(* update_ack_rate: slots older than the window are passed over. *)
UpdateAckRate(ring, current) ==
    LET recent == {i \in DOMAIN ring : ring[i].timestamp >= current - Slots}
    IN  RateOf(Total([i \in DOMAIN ring |-> IF i \in recent THEN ring[i].ack ELSE 0], Slots),
               Total([i \in DOMAIN ring |-> IF i \in recent THEN ring[i].loss ELSE 0], Slots))

(* add_samples: the second's slot is added to, or, when it still holds an
   older second, reset. *)
AddSamples(acks, losses) ==
    LET i    == now % Slots
        slot == slots[i]
        ring == [slots EXCEPT ![i] =
                    IF slot.timestamp = now
                    THEN [slot EXCEPT !.ack = @ + acks, !.loss = @ + losses]
                    ELSE [timestamp |-> now, ack |-> acks, loss |-> losses]]
    IN  /\ acked[now] + lost[now] + acks + losses <= MaxPerSecond
        /\ slots' = ring
        /\ rate' = UpdateAckRate(ring, now)
        /\ acked' = [acked EXCEPT ![now] = @ + acks]
        /\ lost' = [lost EXCEPT ![now] = @ + losses]
        /\ last' = now

(* on_ack: one packet, and the estimator's RTT. *)
OnAck ==
    /\ rtt' \in Rtts
    /\ AddSamples(1, 0)
    /\ UNCHANGED <<now, mtu>>

CeilDiv(a, b) == (a + b - 1) \div b

(* on_congestion_event: bytes become packets; an event without bytes is ECN
   only and counts nothing. *)
OnCongestionEvent ==
    /\ \E bytes \in LostBytes :
          IF bytes = 0
          THEN UNCHANGED <<slots, rate, acked, lost, last>>
          ELSE AddSamples(0, CeilDiv(bytes, IF mtu > 1 THEN mtu ELSE 1))
    /\ UNCHANGED <<now, rtt, mtu>>

(* on_mtu_update. *)
OnMtuUpdate ==
    /\ mtu' \in Mtus
    /\ UNCHANGED <<now, slots, rate, rtt, acked, lost, last>>

(* External: time passes, perhaps long without a sample. *)
Tick ==
    /\ now' \in Seconds
    /\ now' > now
    /\ UNCHANGED <<slots, rate, rtt, mtu, acked, lost, last>>

BrutalNext == OnAck \/ OnCongestionEvent \/ OnMtuUpdate \/ Tick

BrutalSpec == BrutalInit /\ [][BrutalNext]_brutalVars

(* congestion_window. *)
Window ==
    LET cwnd == (Bps * rtt * 2 * rate[2]) \div rate[1]
    IN  IF rtt = 0 THEN InitialWindow
        ELSE IF cwnd > mtu THEN cwnd ELSE mtu

-----------------------------------------------------------------------------

\* How many of count fell into the Slots seconds that end with last.
Recent(count) ==
    Total([k \in 0..(Slots - 1) |-> LET second == last - Slots + 1 + k
                                   IN  IF second < 0 THEN 0 ELSE count[second]],
          Slots)

\* After each sample the rate is that of exactly the last Slots seconds, this
\* one included: no second that has left the window still counts in a slot, no
\* recent one was overwritten, whatever the gaps between samples.  So loss only
\* ever inflates the window, by at most a quarter of the doubled
\* bandwidth-delay product, and one datagram can always be sent.
RateIsRecent ==
    LET bdp == Bps * rtt * 2
    IN  /\ rate = RateOf(Recent(acked), Recent(lost))
        /\ rtt > 0 =>
              /\ Window >= bdp /\ Window >= mtu
              /\ Window = mtu \/ 4 * Window <= 5 * bdp

Slot == [timestamp : Nat, ack : Nat, loss : Nat]

TypeOK ==
    /\ now \in Seconds /\ last \in 0..now
    /\ slots \in [0..(Slots - 1) -> Slot]
    /\ rtt \in Nat /\ mtu \in Nat
    /\ acked \in [Seconds -> Nat] /\ lost \in [Seconds -> Nat]

\* What the ring holds: a slot is of a second that is its own, or still empty,
\* and of no second to come; it counts what that second counts, and a later
\* second that is the slot's too has counted nothing yet.
RingHolds ==
    /\ \A i \in DOMAIN slots :
          LET slot == slots[i]
          IN  /\ slot.timestamp <= last
              /\ \/ slot.timestamp % Slots = i
                 \/ slot.timestamp = 0 /\ slot.ack = 0 /\ slot.loss = 0
    /\ \A s \in Seconds :
          LET slot == slots[s % Slots]
          IN  /\ slot.timestamp = s => acked[s] = slot.ack /\ lost[s] = slot.loss
              /\ slot.timestamp < s => acked[s] = 0 /\ lost[s] = 0

BrutalInv == TypeOK /\ RingHolds /\ rate = RateOf(Recent(acked), Recent(lost))
=============================================================================
