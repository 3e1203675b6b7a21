-------------------------- MODULE ProtocolProofs --------------------------
(* That a reader of a proxied TCP connection gets exactly the proxied data,
   for every length of response and data, and every size of chunks and
   buffers; and that the two ends of the protocol understand each other, byte
   by byte, for every size of byte and every length of text. *)
EXTENDS TcpWire, WellFoundedInduction, SequenceTheorems, TLAPS

-----------------------------------------------------------------------------
(* The stream. *)


\* The units of the whole stream.
WireLen == IF answer = "ok" THEN HeaderLen + DataLen ELSE HeaderLen

\* Until the response is complete nothing is given out; what was read is the
\* stream from its start.
BufIsPrefix == \A i \in 1..Len(buf) : buf[i] = 0 + i

\* The leftover is what was read past the response.
LeftoverIsRest ==
    IF state = "ready"
    THEN /\ answer = "ok"
         /\ Len(buf) = HeaderLen + Len(leftover)
         /\ \A i \in 1..Len(leftover) : leftover[i] = HeaderLen + i
         /\ pos <= Len(leftover)
         /\ pos <= Len(got)
         /\ pos < Len(leftover) => Len(got) = pos
    ELSE leftover = << >> /\ pos = 0 /\ got = << >> /\ ended # "eof"

\* Nothing is read that has not arrived, and a finished stream has all of it.
TakenArrived ==
    /\ Taken <= arrived /\ arrived <= WireLen
    /\ fin = "finished" => arrived = WireLen

\* What was given out is the data, and all of it at the end.
GotIsData ==
    /\ \A i \in 1..Len(got) : got[i] = HeaderLen + i
    /\ ended = "eof" => Len(got) = DataLen

StreamInv == TypeOK /\ BufIsPrefix /\ LeftoverIsRest /\ TakenArrived /\ GotIsData

\* A run of consecutive numbers is a sequence.
LEMMA RunSeq ==
    ASSUME NEW a \in Nat, NEW n \in Nat
    PROVE  /\ [i \in 1..n |-> a + i] \in Seq(Nat)
           /\ Len([i \in 1..n |-> a + i]) = n
           /\ \A k \in 1..n : [i \in 1..n |-> a + i][k] = a + k
OBVIOUS

\* Two consecutive runs, one after the other, are one.
LEMMA ConcatRuns ==
    ASSUME NEW s \in Seq(Nat), NEW t \in Seq(Nat), NEW a \in Nat,
           \A i \in 1..Len(s) : s[i] = a + i,
           \A i \in 1..Len(t) : t[i] = a + Len(s) + i
    PROVE  /\ s \o t \in Seq(Nat)
           /\ Len(s \o t) = Len(s) + Len(t)
           /\ \A i \in 1..Len(s \o t) : (s \o t)[i] = a + i
OBVIOUS

\* A piece of a run is a run.
LEMMA SubRun ==
    ASSUME NEW s \in Seq(Nat), NEW a \in Nat, \A i \in 1..Len(s) : s[i] = a + i,
           NEW m \in Nat, NEW n \in Nat, m <= n, n <= Len(s)
    PROVE  /\ SubSeq(s, m + 1, n) \in Seq(Nat)
           /\ Len(SubSeq(s, m + 1, n)) = n - m
           /\ \A i \in 1..(n - m) : SubSeq(s, m + 1, n)[i] = a + m + i
OBVIOUS

\* The inductive invariant holds at first.
LEMMA StreamInit == Init => StreamInv
BY StreamAssumption
   DEF Init, StreamInv, TypeOK, BufIsPrefix, LeftoverIsRest, TakenArrived, GotIsData,
       WireLen, Taken

\* Every step preserves it, one case per action.
LEMMA StreamStep == StreamInv /\ [Next]_vars => StreamInv'
<1> SUFFICES ASSUME StreamInv, [Next]_vars PROVE StreamInv'
    OBVIOUS
<1> USE StreamAssumption
<1>1. CASE Tcp
    BY <1>1 DEF Tcp, StreamInv, TypeOK, BufIsPrefix, LeftoverIsRest, TakenArrived,
                GotIsData, WireLen, Taken
<1>2. CASE Arrive
    BY <1>2 DEF Arrive, Wire, StreamInv, TypeOK, BufIsPrefix, LeftoverIsRest,
                TakenArrived, GotIsData, WireLen, Taken
<1>3. CASE End
    <2>1. UNCHANGED <<answer, state, buf, leftover, pos, got, ended, fastOpen>>
        BY <1>3 DEF End
    <2>2. BufIsPrefix' /\ LeftoverIsRest' /\ GotIsData'
        BY <2>1 DEF StreamInv, BufIsPrefix, LeftoverIsRest, GotIsData
    <2>3. Taken' = Taken /\ WireLen' = WireLen /\ WireLen \in Nat /\ Taken \in Nat
        BY <2>1 DEF Taken, WireLen, StreamInv, TypeOK, LeftoverIsRest
    <2>4. /\ fin' \in {"no", "finished", "lost"} /\ arrived' \in Nat
          /\ Taken <= arrived' /\ arrived' <= WireLen
          /\ fin' = "finished" => arrived' = WireLen
        <3>1. arrived \in Nat /\ Taken <= arrived /\ arrived <= WireLen
            BY DEF StreamInv, TypeOK, TakenArrived
        <3>2. CASE arrived + 1 \notin Wire /\ fin' = "finished" /\ UNCHANGED arrived
            BY <2>3, <3>1, <3>2 DEF Wire, WireLen
        <3>3. CASE fin' = "lost" /\ arrived' \in Taken..arrived
            BY <2>3, <3>1, <3>3
        <3> QED
            BY <1>3, <3>2, <3>3 DEF End
    <2> QED
        BY <2>1, <2>2, <2>3, <2>4 DEF StreamInv, TypeOK, TakenArrived
<1>4. ASSUME NEW n \in 1..Chunk, ReadChunk(n) PROVE StreamInv'
    <2> DEFINE more == [i \in 1..n |-> Taken + i]
    <2>1. /\ state # "ready" /\ buf' = buf \o more
          /\ UNCHANGED <<fastOpen, answer, arrived, fin, state, leftover, pos, got, ended>>
          /\ Taken + n <= arrived
        BY <1>4 DEF ReadChunk, Reading
    <2>2. buf \in Seq(Nat) /\ got = << >> /\ pos = 0 /\ Taken = Len(buf) /\ n \in Nat
        BY <2>1 DEF StreamInv, TypeOK, LeftoverIsRest, Taken
    <2>3. /\ more \in Seq(Nat) /\ Len(more) = n
          /\ \A i \in 1..n : more[i] = Len(buf) + i
        BY <2>2, RunSeq
    <2>4. \A i \in 1..Len(buf) : buf[i] = 0 + i
        BY <2>2 DEF StreamInv, BufIsPrefix
    <2>5. \A i \in 1..Len(more) : more[i] = 0 + Len(buf) + i
        BY <2>2, <2>3
    <2> HIDE DEF more
    <2>6. /\ buf' \in Seq(Nat) /\ Len(buf') = Len(buf) + n
          /\ \A i \in 1..Len(buf') : buf'[i] = 0 + i
        <3>1. buf \in Seq(Nat) /\ more \in Seq(Nat) /\ 0 \in Nat
            BY <2>2, <2>3
        <3>2. /\ buf \o more \in Seq(Nat) /\ Len(buf \o more) = Len(buf) + Len(more)
              /\ \A i \in 1..Len(buf \o more) : (buf \o more)[i] = 0 + i
            BY ONLY <3>1, <2>4, <2>5, ConcatRuns
        <3> QED
            BY ONLY <2>1, <2>3, <3>2
    <2>7. BufIsPrefix'
        BY <2>6 DEF BufIsPrefix
    <2>8. LeftoverIsRest' /\ GotIsData' /\ TypeOK'
        BY <2>1, <2>6 DEF StreamInv, LeftoverIsRest, GotIsData, TypeOK
    <2>9. TakenArrived'
        BY <2>1, <2>2, <2>6 DEF StreamInv, TakenArrived, WireLen, Taken
    <2> QED
        BY <2>7, <2>8, <2>9 DEF StreamInv
<1>5. CASE ResponseOk
    <2>1. /\ Len(buf) >= HeaderLen /\ state' = "ready" /\ answer = "ok" /\ state # "ready"
          /\ leftover' = SubSeq(buf, HeaderLen + 1, Len(buf)) /\ pos' = 0
          /\ UNCHANGED <<fastOpen, answer, arrived, fin, buf, got, ended>>
        BY <1>5 DEF ResponseOk, ResponseEnd, Reading
    <2>2. buf \in Seq(Nat) /\ got = << >> /\ pos = 0 /\ Len(buf) \in Nat
        BY <2>1 DEF StreamInv, TypeOK, LeftoverIsRest
    <2>3. \A i \in 1..Len(buf) : buf[i] = 0 + i
        BY <2>2 DEF StreamInv, BufIsPrefix
    <2>4. /\ leftover' \in Seq(Nat) /\ Len(leftover') = Len(buf) - HeaderLen
          /\ \A i \in 1..(Len(buf) - HeaderLen) : leftover'[i] = 0 + HeaderLen + i
        BY <2>1, <2>2, <2>3, SubRun, SMTT(30)
    <2>5. LeftoverIsRest'
        <3>1. Len(buf') = HeaderLen + Len(leftover') /\ Len(leftover') \in Nat
            BY <2>1, <2>2, <2>4
        <3>2. \A i \in 1..Len(leftover') : leftover'[i] = HeaderLen + i
            BY <2>2, <2>4, <3>1
        <3>3. pos' <= Len(leftover') /\ pos' <= Len(got') /\ Len(got') = pos'
            BY <2>1, <2>2, <3>1
        <3>4. state' = "ready" /\ answer' = "ok"
            BY <2>1
        <3> QED
            BY ONLY <3>1, <3>2, <3>3, <3>4 DEF LeftoverIsRest
    <2> QED
        BY <2>1, <2>2, <2>4, <2>5
           DEF StreamInv, TypeOK, BufIsPrefix, TakenArrived, GotIsData, WireLen, Taken,
               LeftoverIsRest
<1>6. CASE ResponseFails
    BY <1>6 DEF ResponseFails, Reading, StreamInv, TypeOK, BufIsPrefix, LeftoverIsRest,
                TakenArrived, GotIsData, WireLen, Taken
<1>7. ASSUME NEW n \in 1..MaxBuf, ReadLeftover(n) PROVE StreamInv'
    <2> DEFINE rest == Len(leftover) - pos
               k    == IF rest < n THEN rest ELSE n
               part == SubSeq(leftover, pos + 1, pos + k)
    <2>1. /\ state = "ready" /\ pos < Len(leftover) /\ ended = "no"
          /\ got' = got \o part /\ pos' = pos + k
          /\ UNCHANGED <<fastOpen, answer, arrived, fin, state, buf, leftover, ended>>
        BY <1>7 DEF ReadLeftover
    <2>2. /\ leftover \in Seq(Nat) /\ got \in Seq(Nat) /\ pos \in Nat
          /\ Len(leftover) \in Nat /\ Len(got) = pos
        BY <2>1 DEF StreamInv, TypeOK, LeftoverIsRest
    <2>3. k \in Nat /\ k > 0 /\ pos + k <= Len(leftover) /\ pos + k \in Nat
        BY <2>1, <2>2
    <2>4. \A i \in 1..Len(leftover) : leftover[i] = HeaderLen + i
        BY <2>1, <2>2 DEF StreamInv, LeftoverIsRest
    <2>5. \A i \in 1..Len(got) : got[i] = HeaderLen + i
        BY <2>2 DEF StreamInv, GotIsData
    <2> HIDE DEF k
    <2>6. /\ part \in Seq(Nat) /\ Len(part) = (pos + k) - pos
          /\ \A i \in 1..((pos + k) - pos) : part[i] = HeaderLen + pos + i
        BY <2>2, <2>3, <2>4, SubRun, SMTT(30)
    <2> HIDE DEF part
    <2>7. Len(part) = k /\ \A i \in 1..Len(part) : part[i] = HeaderLen + Len(got) + i
        <3>1. (pos + k) - pos = k
            BY <2>2, <2>3
        <3> QED
            BY ONLY <2>2, <2>6, <3>1
    <2>8. /\ got' \in Seq(Nat) /\ Len(got') = pos + k
          /\ \A i \in 1..Len(got') : got'[i] = HeaderLen + i
        <3>1. got \in Seq(Nat) /\ part \in Seq(Nat) /\ HeaderLen \in Nat
            BY <2>2, <2>6
        <3>2. /\ got \o part \in Seq(Nat) /\ Len(got \o part) = Len(got) + Len(part)
              /\ \A i \in 1..Len(got \o part) : (got \o part)[i] = HeaderLen + i
            BY ONLY <3>1, <2>5, <2>7, ConcatRuns
        <3> QED
            BY ONLY <2>1, <2>2, <2>7, <3>2
    <2>9. LeftoverIsRest' /\ GotIsData' /\ TypeOK' /\ BufIsPrefix'
        <3>1. LeftoverIsRest'
            BY <2>1, <2>2, <2>3, <2>8 DEF StreamInv, LeftoverIsRest
        <3>2. GotIsData'
            BY <2>1, <2>8 DEF GotIsData
        <3>3. TypeOK'
            BY <2>1, <2>3, <2>8 DEF StreamInv, TypeOK
        <3>4. BufIsPrefix'
            BY <2>1 DEF StreamInv, BufIsPrefix
        <3> QED
            BY <3>1, <3>2, <3>3, <3>4
    <2>10. TakenArrived'
        BY <2>1, <2>2, <2>3, <2>8 DEF StreamInv, TypeOK, TakenArrived, WireLen, Taken
    <2> QED
        BY <2>9, <2>10 DEF StreamInv
<1>8. ASSUME NEW n \in 1..MaxBuf, ReadStream(n) PROVE StreamInv'
    <2> DEFINE more == [i \in 1..n |-> Taken + i]
    <2>1. /\ state = "ready" /\ pos = Len(leftover) /\ ended = "no"
          /\ UNCHANGED <<fastOpen, answer, arrived, fin, state, buf, leftover, pos>>
        BY <1>8 DEF ReadStream
    <2>2. /\ got \in Seq(Nat) /\ Len(got) \in Nat /\ pos \in Nat /\ arrived \in Nat
          /\ Taken = HeaderLen + Len(got) /\ Taken \in Nat /\ n \in Nat
          /\ answer = "ok"
        <3>1. /\ got \in Seq(Nat) /\ Len(got) \in Nat /\ pos \in Nat /\ arrived \in Nat
              /\ n \in Nat
            BY DEF StreamInv, TypeOK
        <3>2. answer = "ok" /\ Len(buf) = HeaderLen + pos
            BY <2>1 DEF StreamInv, LeftoverIsRest
        <3> QED
            BY <3>1, <3>2 DEF Taken
    <2>3. CASE got' = got \o more /\ Taken + n <= arrived /\ UNCHANGED ended
        <3>1. /\ more \in Seq(Nat) /\ Len(more) = n
              /\ \A i \in 1..n : more[i] = Taken + i
            BY <2>2, RunSeq
        <3>2. \A i \in 1..Len(got) : got[i] = HeaderLen + i
            BY <2>2 DEF StreamInv, GotIsData
        <3>3. \A i \in 1..Len(more) : more[i] = HeaderLen + Len(got) + i
            BY <2>2, <3>1
        <3> HIDE DEF more
        <3>4. /\ got' \in Seq(Nat) /\ Len(got') = Len(got) + n
              /\ \A i \in 1..Len(got') : got'[i] = HeaderLen + i
            <4>1. got \in Seq(Nat) /\ more \in Seq(Nat) /\ HeaderLen \in Nat
                BY <2>2, <3>1
            <4>2. /\ got \o more \in Seq(Nat) /\ Len(got \o more) = Len(got) + Len(more)
                  /\ \A i \in 1..Len(got \o more) : (got \o more)[i] = HeaderLen + i
                BY ONLY <4>1, <3>2, <3>3, ConcatRuns
            <4> QED
                BY ONLY <2>3, <3>1, <4>2
        <3>5. LeftoverIsRest' /\ GotIsData' /\ TypeOK' /\ BufIsPrefix'
            <4>1. LeftoverIsRest'
                BY <2>1, <2>2, <2>3, <3>4, SMTT(30) DEF StreamInv, LeftoverIsRest
            <4>2. GotIsData'
                BY <2>1, <2>3, <3>4 DEF GotIsData
            <4>3. TypeOK'
                BY <2>1, <2>3, <3>4 DEF StreamInv, TypeOK
            <4>4. BufIsPrefix'
                BY <2>1 DEF StreamInv, BufIsPrefix
            <4> QED
                BY <4>1, <4>2, <4>3, <4>4
        <3>6. TakenArrived'
            BY <2>1, <2>2, <2>3, <3>4 DEF StreamInv, TypeOK, TakenArrived, WireLen, Taken
        <3> QED
            BY <3>5, <3>6 DEF StreamInv
    <2>4. CASE /\ Taken = arrived /\ fin # "no" /\ UNCHANGED got
               /\ ended' = IF fin = "finished" THEN "eof" ELSE "error"
        <3>1. fin = "finished" => Len(got) = DataLen
            BY <2>2, <2>4 DEF StreamInv, TakenArrived, WireLen
        <3> QED
            BY <2>1, <2>2, <2>4, <3>1
               DEF StreamInv, TypeOK, BufIsPrefix, LeftoverIsRest, TakenArrived,
                   GotIsData, WireLen, Taken
    <2> QED
        BY <1>8, <2>3, <2>4 DEF ReadStream
<1>9. CASE UNCHANGED vars
    BY <1>9 DEF vars, StreamInv, TypeOK, BufIsPrefix, LeftoverIsRest, TakenArrived,
                GotIsData, WireLen, Taken
<1> QED
    BY <1>1, <1>2, <1>3, <1>4, <1>5, <1>6, <1>7, <1>8, <1>9 DEF Next, Network, Reader

\* poll_read returns the proxied data from its first unit on, in order, without
\* gap or repeat, nothing of a dial that was not accepted, and the end only
\* after all of it: for every length, chunk size and buffer size.
THEOREM ReadsExact == Spec => []DataExact
<1>1. StreamInv => DataExact
    <2>1. StreamInv => DOMAIN got = 1..Len(got)
        BY DEF StreamInv, TypeOK
    <2> QED
        BY <2>1 DEF StreamInv, LeftoverIsRest, GotIsData, DataExact
<1> QED
    BY StreamInit, StreamStep, <1>1, PTL DEF Spec

-----------------------------------------------------------------------------
(* Induction, with a set in place of a predicate. *)

LEMMA LeastNat ==
  ASSUME NEW T \in SUBSET Nat, T # {}
  PROVE  \E x \in T : \A y \in T : x <= y
  <1> DEFINE R == OpToRel(<, Nat)
  <1>1. IsWellFoundedOn(R, Nat)
      BY NatLessThanWellFounded
  <1>2. \A x, y \in Nat : x < y => <<x, y>> \in R
      BY DEF OpToRel
  <1> HIDE DEF R
  <1>3. \E x \in T : \A y \in T : ~(<<y, x>> \in R)
      BY <1>1, WFMin
  <1>4. PICK x \in T : \A y \in T : ~(<<y, x>> \in R)
      BY <1>3
  <1>5. \A y \in T : ~(y < x)
      BY <1>2, <1>4
  <1> QED BY <1>5

LEMMA Induct ==
  ASSUME NEW S, 0 \in S, \A n \in Nat : n \in S => n + 1 \in S
  PROVE  Nat \subseteq S
  <1> SUFFICES ASSUME NEW m \in Nat, m \notin S PROVE FALSE
      OBVIOUS
  <1> DEFINE T == {n \in Nat : n \notin S}
  <1>1. PICK x \in T : \A y \in T : x <= y
      BY LeastNat
  <1>2. x # 0 /\ x - 1 \in Nat /\ x - 1 \notin T
      BY <1>1
  <1>3. x - 1 \in S
      BY <1>2
  <1> QED BY <1>1, <1>2, <1>3

-----------------------------------------------------------------------------
(* Bytes. *)

Bytes == 0..(Byte - 1)

\* What the constants are.
LEMMA ByteFacts ==
  /\ Q \in Nat \ {0} /\ Byte \in Nat \ {0} /\ Byte = 4 * Q
  /\ MaxMessageLength \in Nat \ {0} /\ MaxPaddingLength \in Nat \ {0}
  BY WireAssumption DEF Byte

\* The recursive function Power.
LEMMA Powers ==
  /\ Power \in [0..7 -> Nat \ {0}]
  /\ Power[0] = 1
  /\ \A n \in 1..7 : Power[n] = Byte * Power[n - 1]
  <1> DEFINE F(t) == [n \in 0..7 |-> IF n = 0 THEN 1 ELSE Byte * t[n - 1]]
             p2 == Byte * Byte
             p3 == Byte * p2
             p4 == Byte * p3
             p5 == Byte * p4
             p6 == Byte * p5
             p7 == Byte * p6
             w == [n \in 0..7 |-> IF n = 0 THEN 1 ELSE IF n = 1 THEN Byte
                                  ELSE IF n = 2 THEN p2 ELSE IF n = 3 THEN p3
                                  ELSE IF n = 4 THEN p4 ELSE IF n = 5 THEN p5
                                  ELSE IF n = 6 THEN p6 ELSE p7]
  <1>1. Byte \in Nat \ {0}
      BY ByteFacts
  <1>2. ASSUME NEW p \in Nat \ {0} PROVE Byte * p \in Nat \ {0}
      BY <1>1
  <1>3. p2 \in Nat \ {0} /\ p3 \in Nat \ {0} /\ p4 \in Nat \ {0}
      BY <1>1, <1>2
  <1>4. p5 \in Nat \ {0} /\ p6 \in Nat \ {0} /\ p7 \in Nat \ {0}
      BY <1>2, <1>3
  <1>5. \A n \in 0..7 : w[n] = IF n = 0 THEN 1 ELSE Byte * w[n - 1]
    <2> SUFFICES ASSUME NEW n \in 0..7 PROVE w[n] = IF n = 0 THEN 1 ELSE Byte * w[n - 1]
        OBVIOUS
    <2>1. /\ w[0] = 1 /\ w[1] = Byte /\ w[2] = p2 /\ w[3] = p3
          /\ w[4] = p4 /\ w[5] = p5 /\ w[6] = p6 /\ w[7] = p7
        OBVIOUS
    <2>2. n \in {0, 1, 2, 3, 4, 5, 6, 7}
        OBVIOUS
    <2>3. Byte * 1 = Byte
        BY <1>1
    <2> HIDE DEF w
    <2> QED BY <2>1, <2>2, <2>3
  <1>6. w = F(w)
      BY <1>5
  <1>7. Power = CHOOSE t : t = F(t)
      BY DEF Power
  <1>8. Power = F(Power)
      BY <1>6, <1>7
  <1>9. Power[0] = 1 /\ \A n \in 1..7 : Power[n] = Byte * Power[n - 1]
      BY <1>8
  <1>10. /\ Power[0] = 1 /\ Power[1] \in Nat \ {0} /\ Power[2] \in Nat \ {0}
         /\ Power[3] \in Nat \ {0} /\ Power[4] \in Nat \ {0} /\ Power[5] \in Nat \ {0}
         /\ Power[6] \in Nat \ {0} /\ Power[7] \in Nat \ {0}
    <2>1. Power[1] \in Nat \ {0}
        BY <1>2, <1>9
    <2>2. Power[2] \in Nat \ {0}
        BY <1>2, <1>9, <2>1
    <2>3. Power[3] \in Nat \ {0}
        BY <1>2, <1>9, <2>2
    <2>4. Power[4] \in Nat \ {0}
        BY <1>2, <1>9, <2>3
    <2>5. Power[5] \in Nat \ {0}
        BY <1>2, <1>9, <2>4
    <2>6. Power[6] \in Nat \ {0}
        BY <1>2, <1>9, <2>5
    <2>7. Power[7] \in Nat \ {0}
        BY <1>2, <1>9, <2>6
    <2> QED BY <1>9, <2>1, <2>2, <2>3, <2>4, <2>5, <2>6, <2>7
  <1>11. \A n \in 0..7 : Power[n] \in Nat \ {0}
      BY <1>10
  <1> QED BY <1>8, <1>9, <1>11

-----------------------------------------------------------------------------
(* Numbers. *)

\* g holds the values of the beginnings of bytes.
Values(g, bytes) ==
    /\ g \in [0..Len(bytes) -> Nat]
    /\ g[0] = 0
    /\ \A k \in 1..Len(bytes) : g[k] = g[k - 1] * Byte + bytes[k]

\* Number is the last of them.
LEMMA NumberIs ==
  ASSUME NEW bytes \in Seq(Nat), NEW g, Values(g, bytes)
  PROVE  Number(bytes) = g[Len(bytes)]
  <1> DEFINE n == Len(bytes)
             F(t) == [k \in 0..n |-> IF k = 0 THEN 0 ELSE t[k - 1] * Byte + bytes[k]]
             f == CHOOSE t : t = F(t)
  <1>1. n \in Nat
      OBVIOUS
  <1>2. g = F(g)
      BY <1>1 DEF Values
  <1>3. f = F(f)
      BY <1>2
  <1>4. Number(bytes) = f[n]
      BY DEF Number
  <1> HIDE DEF f
  <1>5. f[0] = 0 /\ \A k \in 1..n : f[k] = f[k - 1] * Byte + bytes[k]
      BY <1>1, <1>3
  <1> DEFINE S == {k \in Nat : k <= n => f[k] = g[k]}
  <1>6. 0 \in S
      BY <1>5 DEF Values
  <1>7. ASSUME NEW k \in Nat, k \in S PROVE k + 1 \in S
    <2> SUFFICES ASSUME k + 1 <= n PROVE f[k + 1] = g[k + 1]
        OBVIOUS
    <2>1. f[k] = g[k] /\ k + 1 \in 1..n /\ (k + 1) - 1 = k
        BY <1>1, <1>7
    <2>2. f[k + 1] = f[k] * Byte + bytes[k + 1]
        BY <1>5, <2>1
    <2>3. g[k + 1] = g[k] * Byte + bytes[k + 1]
        BY <2>1 DEF Values
    <2> QED BY <2>1, <2>2, <2>3
  <1> HIDE DEF S
  <1>8. Nat \subseteq S
      BY <1>6, <1>7, Induct
  <1> QED BY <1>1, <1>4, <1>8 DEF S

\* Any bytes are a number.
LEMMA NumberType ==
  ASSUME NEW bytes \in Seq(Nat)
  PROVE  Number(bytes) \in Nat
  <1> DEFINE m == Len(bytes)
             Up(g, n) == /\ g \in [0..n -> Nat]
                         /\ g[0] = 0
                         /\ \A k \in 1..n : g[k] = g[k - 1] * Byte + bytes[k]
             S == {n \in Nat : n <= m => \E g : Up(g, n)}
  <1>1. m \in Nat /\ (\A k \in 1..m : bytes[k] \in Nat) /\ Byte \in Nat
      BY ByteFacts
  <1>2. 0 \in S
    <2>1. Up([k \in 0..0 |-> 0], 0)
        OBVIOUS
    <2> QED BY <2>1
  <1> HIDE DEF Up
  <1>3. ASSUME NEW n \in Nat, n \in S PROVE n + 1 \in S
    <2> SUFFICES ASSUME n + 1 <= m PROVE \E g : Up(g, n + 1)
        OBVIOUS
    <2>1. PICK g : Up(g, n)
        BY <1>1, <1>3
    <2> USE DEF Up
    <2>2. g[n] \in Nat /\ bytes[n + 1] \in Nat
        BY <1>1, <2>1
    <2>3. PICK v \in Nat : v = g[n] * Byte + bytes[n + 1]
      <3>1. g[n] * Byte \in Nat
          BY <1>1, <2>2
      <3> QED BY <2>2, <3>1
    <2> DEFINE h == [k \in 0..(n + 1) |-> IF k = n + 1 THEN v ELSE g[k]]
    <2>4. h \in [0..(n + 1) -> Nat]
        BY <2>1, <2>3
    <2>5. \A k \in 0..(n + 1) : h[k] = IF k = n + 1 THEN v ELSE g[k]
        OBVIOUS
    <2> HIDE DEF h
    <2>6. h[0] = 0
        BY <2>1, <2>5
    <2>7. ASSUME NEW k \in 1..(n + 1) PROVE h[k] = h[k - 1] * Byte + bytes[k]
      <3>1. CASE k = n + 1
        <4>1. h[k] = v /\ k - 1 = n /\ h[k - 1] = g[n]
            BY <2>5, <3>1
        <4> QED BY <2>3, <3>1, <4>1
      <3>2. CASE k # n + 1
        <4>1. k \in 1..n /\ k \in 0..(n + 1) /\ k - 1 \in 0..(n + 1) /\ k - 1 # n + 1
            BY <3>2
        <4>2. h[k] = g[k] /\ h[k - 1] = g[k - 1]
            BY <2>5, <3>2, <4>1, Zenon
        <4>3. g[k] = g[k - 1] * Byte + bytes[k]
            BY <2>1, <4>1
        <4> QED BY <4>2, <4>3
      <3> QED BY <3>1, <3>2
    <2> QED BY <2>4, <2>6, <2>7
  <1> HIDE DEF S
  <1>4. m \in S
      BY <1>1, <1>2, <1>3, Induct
  <1>5. PICK g : Up(g, m)
      BY <1>1, <1>4 DEF S
  <1>6. Values(g, bytes)
      BY <1>5 DEF Values, Up
  <1>7. Number(bytes) = g[m]
      BY <1>6, NumberIs
  <1> QED BY <1>1, <1>5, <1>7 DEF Up

\* Division: what it gives, twice in a row, and of what is less than a product.
LEMMA Digits2 ==
  ASSUME NEW b \in Nat \ {0}, NEW x \in Nat
  PROVE  /\ x \div b \in Nat /\ x % b \in 0..(b - 1)
         /\ x = (x \div b) * b + (x % b)
  OBVIOUS

LEMMA DivTwice ==
  ASSUME NEW b \in Nat \ {0}, NEW c \in Nat \ {0}, NEW x \in Nat
  PROVE  x \div (b * c) = (x \div c) \div b
  OBVIOUS

LEMMA DivBelow ==
  ASSUME NEW b \in Nat, NEW c \in Nat \ {0}, NEW x \in Nat, x < b * c
  PROVE  x \div c < b
  OBVIOUS

\* The digits are bytes, and mean the number they are of.
LEMMA BigEndianWhole ==
  ASSUME NEW n \in 1..8, NEW i \in Nat, i < Byte * Power[n - 1]
  PROVE  /\ BigEndian(i, n) \in Seq(Bytes) /\ Len(BigEndian(i, n)) = n
         /\ BigEndian(i, n)[1] = i \div Power[n - 1]
         /\ Number(BigEndian(i, n)) = i
  <1> DEFINE b == BigEndian(i, n)
             g == [k \in 0..n |-> IF k = 0 THEN 0 ELSE i \div Power[n - k]]
  <1>1. Byte \in Nat \ {0} /\ Bytes \subseteq Nat
      BY ByteFacts DEF Bytes
  <1>2. \A k \in 1..n : n - k \in 0..7 /\ Power[n - k] \in Nat \ {0}
      BY Powers
  <1>3. \A k \in 1..n : i \div Power[n - k] \in Nat
      BY <1>2, Digits2
  <1>4. \A k \in 1..n : (i \div Power[n - k]) % Byte \in Bytes
      BY <1>1, <1>3, Digits2 DEF Bytes
  <1>5. b = [k \in 1..n |-> (i \div Power[n - k]) % Byte]
      BY DEF BigEndian
  <1> HIDE DEF b
  <1>6. b \in Seq(Bytes) /\ Len(b) = n /\ \A k \in 1..n : b[k] = (i \div Power[n - k]) % Byte
      BY <1>4, <1>5
  <1>7. i \div Power[n - 1] < Byte
    <2>1. PICK p \in Nat \ {0} : p = Power[n - 1]
        BY <1>2
    <2>2. i < Byte * p
        BY <2>1
    <2> QED BY <1>1, <2>1, <2>2, DivBelow
  <1>8. b[1] = i \div Power[n - 1]
    <2>1. PICK d \in Nat : d = i \div Power[n - 1]
        BY <1>3
    <2>2. d < Byte
        BY <1>7, <2>1
    <2>3. d % Byte = d
        BY <1>1, <2>2
    <2>4. b[1] = (i \div Power[n - 1]) % Byte
        BY <1>6
    <2> QED BY <2>1, <2>3, <2>4
  <1>9. /\ g[0] = 0
        /\ \A k \in 1..n : g[k] = i \div Power[n - k]
        /\ g \in [0..n -> Nat]
      BY <1>3
  <1> HIDE DEF g
  <1>10. ASSUME NEW k \in 1..n PROVE g[k] = g[k - 1] * Byte + b[k]
    <2>1. CASE k = 1
      <3>1. g[k - 1] = 0 /\ g[k] = b[k]
          BY <1>8, <1>9, <2>1
      <3>2. 0 * Byte = 0
          BY <1>1
      <3>3. b[k] \in Bytes
          BY <1>6
      <3>4. b[k] \in Nat
          BY <1>1, <3>3
      <3> QED BY <3>1, <3>2, <3>4
    <2>2. CASE k # 1
      <3>1. PICK p \in Nat \ {0} : p = Power[n - k]
          BY <1>2
      <3>2. Power[n - (k - 1)] = Byte * p
        <4>1. n - (k - 1) \in 1..7 /\ (n - (k - 1)) - 1 = n - k
            BY <2>2
        <4> QED BY <3>1, <4>1, Powers
      <3>3. k - 1 \in 1..n
          BY <2>2
      <3>4. PICK x \in Nat : x = i \div p
          BY <1>3, <3>1
      <3>5. g[k] = x /\ g[k - 1] = x \div Byte /\ b[k] = x % Byte
        <4>1. g[k] = x
            BY <1>9, <3>1, <3>4
        <4>2. g[k - 1] = i \div (Byte * p)
            BY <1>9, <3>2, <3>3
        <4>3. i \div (Byte * p) = x \div Byte
            BY <1>1, <3>4, DivTwice
        <4> QED BY <1>6, <3>1, <3>4, <4>1, <4>2, <4>3
      <3> QED BY <1>1, <3>5, Digits2
    <2> QED BY <2>1, <2>2
  <1>11. b \in Seq(Nat)
      BY <1>1, <1>6, SeqMonotonic
  <1>12. Values(g, b)
      BY <1>6, <1>9, <1>10 DEF Values
  <1>13. Number(b) = g[n]
      BY <1>6, <1>11, <1>12, NumberIs
  <1>14. g[n] = i
    <2>1. n \in 1..n /\ n - n = 0
        OBVIOUS
    <2>2. g[n] = i \div 1
        BY <1>9, <2>1, Powers
    <2>3. i \div 1 = i
        OBVIOUS
    <2> QED BY <2>2, <2>3
  <1> QED BY <1>6, <1>8, <1>13, <1>14 DEF b

-----------------------------------------------------------------------------
(* Readers.  Each either asks for more, or has judged a beginning of its input
   and would judge it so whatever came after it. *)

\* Concatenation of bytes.
LEMMA Joined ==
  ASSUME NEW a \in Seq(Bytes), NEW b \in Seq(Bytes), NEW c \in Seq(Bytes)
  PROVE  /\ a \o b \in Seq(Bytes) /\ Len(a \o b) = Len(a) + Len(b)
         /\ (a \o b) \o c = a \o (b \o c)
         /\ a \o << >> = a /\ << >> \o a = a
         /\ a # << >> => a \o b # << >> /\ (a \o b)[1] = a[1]
         /\ Len(a) \in Nat /\ (a = << >> <=> Len(a) = 0)
  <1>1. a \o b \in Seq(Bytes) /\ Len(a \o b) = Len(a) + Len(b)
      BY ConcatProperties
  <1>2. (a \o b) \o c = a \o (b \o c)
      BY ConcatAssociative
  <1>3. a \o << >> = a /\ << >> \o a = a
      BY ConcatEmptySeq
  <1>4. a # << >> => a \o b # << >> /\ (a \o b)[1] = a[1]
      OBVIOUS
  <1>5. Len(a) \in Nat /\ (a = << >> <=> Len(a) = 0)
      OBVIOUS
  <1> QED BY <1>1, <1>2, <1>3, <1>4, <1>5

\* What may be read, and two parts of it in a row; the steps below need of them
\* no more than the three facts that follow.
Input == Seq(Bytes)
Then(a, b) == a \o b

LEMMA ThenTwo ==
  ASSUME NEW a \in Input, NEW b \in Input
  PROVE  Then(a, b) \in Input
  BY Joined DEF Input, Then

LEMMA ThenFirst ==
  ASSUME NEW a \in Input, NEW b \in Input, a # << >>
  PROVE  Then(a, b) # << >> /\ Then(a, b)[1] = a[1]
  BY Joined DEF Input, Then

LEMMA ThenThree ==
  ASSUME NEW a \in Input, NEW b \in Input, NEW c \in Input
  PROVE  Then(Then(a, b), c) = Then(a, Then(b, c))
  BY Joined DEF Input, Then

\* The fields of a result.
LEMMA ReadFields ==
  ASSUME NEW k, NEW v, NEW r
  PROVE  Read(k, v, r).kind = k /\ Read(k, v, r).value = v /\ Read(k, v, r).rest = r
  BY DEF Read

\* read_exact takes what it is asked for.
LEMMA ExactTakes ==
  ASSUME NEW a \in Input, NEW t \in Input
  PROVE  ReadExact(Then(a, t), Len(a)) = Read("ok", a, t)
  <1> USE DEF Input, Then
  <1> DEFINE n == Len(a)
             s == a \o t
  <1>1. n \in Nat /\ Len(t) \in Nat /\ s \in Input /\ Len(s) = n + Len(t)
      BY Joined
  <1>2. \A i \in 1..Len(s) : s[i] = IF i <= n THEN a[i] ELSE t[i - n]
      BY ConcatProperties
  <1>3. SubSeq(s, 1, n) = a
    <2>1. \A i \in 1..n : s[i] = a[i] /\ a[i] \in Bytes
        BY <1>1, <1>2
    <2>2. /\ SubSeq(s, 1, n) \in Input /\ Len(SubSeq(s, 1, n)) = n
          /\ \A i \in 1..n : SubSeq(s, 1, n)[i] = s[i]
        BY <1>1, <2>1
    <2> HIDE DEF s
    <2> QED BY <2>1, <2>2, SeqEqual
  <1>4. SubSeq(s, n + 1, Len(s)) = t
    <2>1. \A i \in 1..Len(t) : s[n + i] = t[i] /\ t[i] \in Bytes
        BY <1>1, <1>2
    <2>2. \A i \in (n + 1)..Len(s) : s[i] \in Bytes
        BY <1>1
    <2> DEFINE u == SubSeq(s, n + 1, Len(s))
    <2>3. u \in Input /\ Len(u) = Len(t)
        BY <1>1, <2>2
    <2>4. \A i \in 1..Len(t) : u[i] = s[n + i]
        BY <1>1, <2>2
    <2> HIDE DEF u, s
    <2>5. u = t
        BY <2>1, <2>3, <2>4, SeqEqual
    <2> QED BY <2>5 DEF u
  <1>5. ~ (Len(s) < n)
      BY <1>1
  <1> QED BY <1>3, <1>4, <1>5 DEF ReadExact

\* read_exact asks for more, or there is what it asks for.
LEMMA ExactSplits ==
  ASSUME NEW s \in Input, NEW n \in Nat
  PROVE  \/ Len(s) < n /\ ReadExact(s, n) = More
         \/ \E a, b \in Input : s = Then(a, b) /\ Len(a) = n
  <1> USE DEF Input, Then
  <1>1. CASE Len(s) < n
      BY <1>1 DEF ReadExact
  <1>2. CASE ~ (Len(s) < n)
    <2>1. Len(s) \in Nat /\ n <= Len(s)
        BY <1>2
    <2>2. 1 \in 1..(Len(s) + 1) /\ n \in (1 - 1)..Len(s) /\ Len(s) \in n..Len(s)
        BY <2>1
    <2>3. SubSeq(s, 1, n) \o SubSeq(s, n + 1, Len(s)) = SubSeq(s, 1, Len(s))
        BY <2>2, ConcatAdjacentSubSeq
    <2>4. SubSeq(s, 1, Len(s)) = s
        BY SubSeqFull
    <2>5. SubSeq(s, 1, n) \in Input /\ Len(SubSeq(s, 1, n)) = n
        BY <2>1
    <2>6. SubSeq(s, n + 1, Len(s)) \in Input
        BY <2>1
    <2> QED BY <2>3, <2>4, <2>5, <2>6
  <1> QED BY <1>1, <1>2

\* The number of bytes the first one tells.
Told(s) == Lengths[(s[1] \div Q) + 1]

\* It is one of the lengths.
LEMMA ToldIs ==
  ASSUME NEW s \in Input, s # << >>
  PROVE  Told(s) \in {1, 2, 4, 8} /\ s[1] \in Bytes
  <1>1. s[1] \in Bytes
      BY DEF Input
  <1>2. s[1] \in Nat /\ s[1] < 4 * Q /\ Q \in Nat \ {0}
      BY <1>1, ByteFacts DEF Bytes
  <1>3. PICK q : q = s[1] \div Q
      OBVIOUS
  <1>4. q \in Nat
      BY <1>2, <1>3, Digits2
  <1>5. q < 4
      BY <1>2, <1>3, DivBelow
  <1>6. q + 1 \in {1, 2, 3, 4}
      BY <1>4, <1>5
  <1> QED BY <1>1, <1>3, <1>6 DEF Told, Lengths

\* varint::read, of bytes that are as many as the first one tells.
LEMMA VarintTakes ==
  ASSUME NEW a \in Input, a # << >>, Len(a) = Told(a), NEW t \in Input
  PROVE  VarintRead(Then(a, t)) = Read("ok", Number([a EXCEPT ![1] = a[1] % Q]), t)
  <1>1. Then(a, t) # << >> /\ Then(a, t)[1] = a[1]
      BY ThenFirst
  <1>2. Told(Then(a, t)) = Len(a)
      BY <1>1 DEF Told
  <1>3. PICK r : r = ReadExact(Then(a, t), Told(Then(a, t)))
      OBVIOUS
  <1>4. r = Read("ok", a, t)
      BY <1>2, <1>3, ExactTakes
  <1>5. r.kind = "ok" /\ r.value = a /\ r.rest = t
      BY <1>4, ReadFields
  <1>6. VarintRead(Then(a, t)) = Read("ok", Number([r.value EXCEPT ![1] = r.value[1] % Q]), r.rest)
      BY <1>1, <1>3, <1>5 DEF VarintRead, Told
  <1> QED BY <1>5, <1>6

\* varint::read asks for more, or has read a number off a beginning.
LEMMA VarintSplits ==
  ASSUME NEW s \in Input
  PROVE  \/ VarintRead(s) = More
         \/ \E a, b \in Input, v \in Nat :
               /\ s = Then(a, b) /\ a # << >>
               /\ \A t \in Input : VarintRead(Then(a, t)) = Read("ok", v, t)
  <1>1. CASE s = << >>
      BY <1>1 DEF VarintRead
  <1>2. CASE s # << >> /\ ReadExact(s, Told(s)) = More
    <2>1. More.kind # "ok"
        BY ReadFields DEF More
    <2>2. ReadExact(s, Lengths[(s[1] \div Q) + 1]) = More
        BY <1>2 DEF Told
    <2> QED BY <1>2, <2>1, <2>2 DEF VarintRead
  <1>3. CASE s # << >> /\ ReadExact(s, Told(s)) # More
    <2>1. Told(s) \in Nat \ {0}
        BY <1>3, ToldIs
    <2>2. PICK a, b \in Input : s = Then(a, b) /\ Len(a) = Told(s)
        BY <1>3, <2>1, ExactSplits
    <2>3. a # << >> /\ s[1] = a[1]
      <3>1. a # << >>
          BY <2>1, <2>2
      <3> QED BY <2>2, <3>1, ThenFirst
    <2>4. Told(a) = Len(a)
        BY <2>2, <2>3 DEF Told
    <2>5. a[1] \in Bytes /\ a[1] % Q \in Nat
        BY <2>3, ToldIs, ByteFacts DEF Bytes
    <2>6. [a EXCEPT ![1] = a[1] % Q] \in Seq(Nat)
      <3>1. Bytes \subseteq Nat
          BY ByteFacts DEF Bytes
      <3>2. a \in Seq(Nat)
          BY <3>1, SeqMonotonic DEF Input
      <3>3. 1 \in 1..Len(a)
          BY <2>1, <2>2 DEF Input
      <3> QED BY <2>5, <3>2, <3>3, ExceptSeq
    <2>7. PICK v \in Nat : v = Number([a EXCEPT ![1] = a[1] % Q])
        BY <2>6, NumberType
    <2>8. \A t \in Input : VarintRead(Then(a, t)) = Read("ok", v, t)
        BY <2>3, <2>4, <2>7, VarintTakes
    <2> QED BY <2>2, <2>3, <2>8
  <1> QED BY <1>1, <1>2, <1>3

\* A varint and as many bytes.
LEMMA BlockSplits ==
  ASSUME NEW s \in Input, NEW max \in Nat
  PROVE  \/ ReadBlock(s, max) = More
         \/ \E a, b \in Input :
               /\ s = Then(a, b)
               /\ \A t \in Input : ReadBlock(Then(a, t), max) = Invalid
         \/ \E a, b, v \in Input :
               /\ s = Then(a, b) /\ a # << >>
               /\ \A t \in Input : ReadBlock(Then(a, t), max) = Read("ok", v, t)
  <1>1. CASE VarintRead(s) = More
    <2>1. More.kind # "ok"
        BY ReadFields DEF More
    <2> QED BY <1>1, <2>1 DEF ReadBlock
  <1>2. CASE VarintRead(s) # More
    <2>1. PICK a, b \in Input, n \in Nat :
             /\ s = Then(a, b) /\ a # << >>
             /\ \A t \in Input : VarintRead(Then(a, t)) = Read("ok", n, t)
        BY <1>2, VarintSplits
    <2>2. ASSUME NEW t \in Input
          PROVE  ReadBlock(Then(a, t), max) = IF n > max THEN Invalid ELSE ReadExact(t, n)
      <3>1. PICK r : r = VarintRead(Then(a, t))
          OBVIOUS
      <3>2. r.kind = "ok" /\ r.value = n /\ r.rest = t
          BY <2>1, <3>1, ReadFields
      <3> QED BY <3>1, <3>2 DEF ReadBlock
    <2>3. CASE n > max
        BY <2>1, <2>2, <2>3
    <2>4. CASE ~ (n > max)
      <3>1. ReadBlock(s, max) = ReadExact(b, n)
          BY <2>1, <2>2, <2>4
      <3>2. CASE ReadExact(b, n) = More
          BY <3>1, <3>2
      <3>3. CASE ReadExact(b, n) # More
        <4>1. PICK v, c \in Input : b = Then(v, c) /\ Len(v) = n
            BY <3>3, ExactSplits
        <4>2. Then(a, v) \in Input /\ Then(a, v) # << >> /\ s = Then(Then(a, v), c)
            BY <2>1, <4>1, ThenTwo, ThenFirst, ThenThree
        <4>3. ASSUME NEW t \in Input
              PROVE  ReadBlock(Then(Then(a, v), t), max) = Read("ok", v, t)
          <5>1. Then(Then(a, v), t) = Then(a, Then(v, t))
              BY ThenThree
          <5>2. PICK u \in Input : u = Then(v, t)
              BY ThenTwo
          <5>3. ReadBlock(Then(a, u), max) = ReadExact(u, n)
              BY <2>2, <2>4
          <5>4. ReadExact(Then(v, t), n) = Read("ok", v, t)
              BY <4>1, ExactTakes, Zenon
          <5> QED BY <5>1, <5>2, <5>3, <5>4, Zenon
        <4> QED BY <4>2, <4>3
      <3> QED BY <3>2, <3>3
    <2> QED BY <2>3, <2>4
  <1> QED BY <1>1, <1>2

\* read_tcp_response after its status byte.
LEMMA ResponseOf ==
  ASSUME NEW x \in Input, Len(x) = 1, NEW y \in Input
  PROVE  ReadTcpResponse(Then(x, y)) =
            LET m == ReadBlock(y, MaxMessageLength)
                p == ReadBlock(m.rest, MaxPaddingLength)
            IN  IF m.kind # "ok" THEN m
                ELSE IF p.kind # "ok" THEN p
                ELSE IF ~ Utf8(m.value) THEN Invalid
                ELSE Read("ok", [ok |-> x = <<0>>, message |-> m.value], p.rest)
  <1>1. ReadExact(Then(x, y), 1) = Read("ok", x, y)
      BY ExactTakes
  <1>2. PICK r : r = ReadExact(Then(x, y), 1)
      OBVIOUS
  <1>3. r.kind = "ok" /\ r.value = x /\ r.rest = y
      BY <1>1, <1>2, ReadFields
  <1>4. PICK m : m = ReadBlock(y, MaxMessageLength)
      OBVIOUS
  <1>5. PICK p : p = ReadBlock(m.rest, MaxPaddingLength)
      OBVIOUS
  <1> QED BY <1>2, <1>3, <1>4, <1>5 DEF ReadTcpResponse

\* What begins with a is refused; or is the answer v, and what follows a is left.
Refused(a) == \A t \in Input : ReadTcpResponse(Then(a, t)) = Invalid
Answered(a, v) == \A t \in Input : ReadTcpResponse(Then(a, t)) = Read("ok", v, t)

\* What begins with a begins with the message v.
Carries(a, v) ==
    \A t \in Input : ReadBlock(Then(a, t), MaxMessageLength) = Read("ok", v, t)

\* Once the message is read, the padding is left.
LEMMA PaddingSplits ==
  ASSUME NEW x \in Input, Len(x) = 1, NEW a \in Input, NEW b \in Input,
         NEW v \in Input, Carries(a, v)
  PROVE  \/ ReadTcpResponse(Then(x, Then(a, b))) = More
         \/ \E c, d \in Input :
               /\ Then(x, Then(a, b)) = Then(c, d)
               /\ Refused(c) \/ \E u : Answered(c, u)
  <1> DEFINE Verdict(p) ==
                IF p.kind # "ok" THEN p
                ELSE IF ~ Utf8(v) THEN Invalid
                ELSE Read("ok", [ok |-> x = <<0>>, message |-> v], p.rest)
  <1>1. /\ More.kind = "more" /\ Invalid.kind = "invalid"
        /\ MaxMessageLength \in Nat /\ MaxPaddingLength \in Nat
      BY ReadFields, ByteFacts DEF More, Invalid
  <1>2. ASSUME NEW t \in Input
        PROVE  ReadTcpResponse(Then(x, Then(a, t))) = Verdict(ReadBlock(t, MaxPaddingLength))
    <2>1. PICK y \in Input : y = Then(a, t)
        BY ThenTwo
    <2>2. PICK m : m = ReadBlock(y, MaxMessageLength)
        OBVIOUS
    <2>3. m.kind = "ok" /\ m.value = v /\ m.rest = t
        BY <2>1, <2>2, ReadFields DEF Carries
    <2>4. ReadTcpResponse(Then(x, y)) =
             LET p == ReadBlock(m.rest, MaxPaddingLength)
             IN  IF m.kind # "ok" THEN m
                 ELSE IF p.kind # "ok" THEN p
                 ELSE IF ~ Utf8(m.value) THEN Invalid
                 ELSE Read("ok", [ok |-> x = <<0>>, message |-> m.value], p.rest)
        BY <2>2, ResponseOf
    <2>5. ReadTcpResponse(Then(x, y)) = Verdict(ReadBlock(t, MaxPaddingLength))
        BY <2>3, <2>4
    <2> QED BY <2>1, <2>5
  <1> HIDE DEF Verdict
  <1>3. CASE ReadBlock(b, MaxPaddingLength) = More
    <2>1. Verdict(More) = More
        BY <1>1 DEF Verdict
    <2> QED BY <1>2, <1>3, <2>1
  <1>4. ASSUME NEW c \in Input, NEW d \in Input, b = Then(c, d)
        PROVE  \E e \in Input :
                  /\ Then(x, Then(a, b)) = Then(e, d)
                  /\ \A t \in Input :
                        ReadTcpResponse(Then(e, t)) = Verdict(ReadBlock(Then(c, t), MaxPaddingLength))
    <2>1. PICK e \in Input : e = Then(x, Then(a, c))
        BY ThenTwo
    <2>2. ASSUME NEW t \in Input PROVE Then(e, t) = Then(x, Then(a, Then(c, t)))
        BY <2>1, ThenTwo, ThenThree
    <2>4. Then(x, Then(a, b)) = Then(e, d)
        BY <1>4, <2>2
    <2>5. ASSUME NEW t \in Input
          PROVE  ReadTcpResponse(Then(e, t)) = Verdict(ReadBlock(Then(c, t), MaxPaddingLength))
      <3>1. PICK u \in Input : u = Then(c, t)
          BY ThenTwo
      <3>2. Then(e, t) = Then(x, Then(a, u))
          BY <2>2, <3>1
      <3>3. ReadTcpResponse(Then(x, Then(a, u))) = Verdict(ReadBlock(u, MaxPaddingLength))
          BY <1>2
      <3> QED BY <3>1, <3>2, <3>3, Zenon
    <2> QED BY <2>4, <2>5, Zenon
  <1>5. CASE \E c, d \in Input :
                /\ b = Then(c, d)
                /\ \A t \in Input : ReadBlock(Then(c, t), MaxPaddingLength) = Invalid
    <2>1. PICK c, d \in Input :
             /\ b = Then(c, d)
             /\ \A t \in Input : ReadBlock(Then(c, t), MaxPaddingLength) = Invalid
        BY <1>5, Zenon
    <2>2. PICK e \in Input :
             /\ Then(x, Then(a, b)) = Then(e, d)
             /\ \A t \in Input :
                   ReadTcpResponse(Then(e, t)) = Verdict(ReadBlock(Then(c, t), MaxPaddingLength))
        BY <1>4, <2>1, Zenon
    <2>3. Verdict(Invalid) = Invalid
        BY <1>1 DEF Verdict
    <2>4. Refused(e)
        BY <2>1, <2>2, <2>3, Zenon DEF Refused
    <2> QED BY <2>2, <2>4, Zenon
  <1>6. CASE \E c, d, w \in Input :
                /\ b = Then(c, d) /\ c # << >>
                /\ \A t \in Input : ReadBlock(Then(c, t), MaxPaddingLength) = Read("ok", w, t)
    <2>1. PICK c, d, w \in Input :
             /\ b = Then(c, d) /\ c # << >>
             /\ \A t \in Input : ReadBlock(Then(c, t), MaxPaddingLength) = Read("ok", w, t)
        BY <1>6, Zenon
    <2>2. PICK e \in Input :
             /\ Then(x, Then(a, b)) = Then(e, d)
             /\ \A t \in Input :
                   ReadTcpResponse(Then(e, t)) = Verdict(ReadBlock(Then(c, t), MaxPaddingLength))
        BY <1>4, <2>1, Zenon
    <2>3. PICK u : u = [ok |-> x = <<0>>, message |-> v]
        OBVIOUS
    <2>4. ASSUME NEW t \in Input
          PROVE  ReadTcpResponse(Then(e, t)) = IF Utf8(v) THEN Read("ok", u, t) ELSE Invalid
      <3>1. PICK p : p = ReadBlock(Then(c, t), MaxPaddingLength)
          OBVIOUS
      <3>2. p.kind = "ok" /\ p.rest = t
          BY <2>1, <3>1, ReadFields
      <3>3. ReadTcpResponse(Then(e, t)) = Verdict(p)
          BY <2>2, <3>1, Zenon
      <3>4. Verdict(p) = IF Utf8(v) THEN Read("ok", u, t) ELSE Invalid
          BY <2>3, <3>2 DEF Verdict
      <3> QED BY <3>3, <3>4, Zenon
    <2>5. CASE Utf8(v)
      <3>1. Answered(e, u)
          BY <2>4, <2>5, Zenon DEF Answered
      <3> QED BY <2>2, <3>1, Zenon
    <2>6. CASE ~ Utf8(v)
      <3>1. Refused(e)
          BY <2>4, <2>6, Zenon DEF Refused
      <3> QED BY <2>2, <3>1, Zenon
    <2> QED BY <2>5, <2>6
  <1> QED BY <1>1, <1>3, <1>5, <1>6, BlockSplits, Zenon

\* The parser of a response asks for more, or has judged a beginning.
LEMMA ResponseSplits ==
  ASSUME NEW s \in Input
  PROVE  \/ ReadTcpResponse(s) = More
         \/ \E a, b \in Input : s = Then(a, b) /\ (Refused(a) \/ \E v : Answered(a, v))
  <1>1. /\ More.kind = "more" /\ Invalid.kind = "invalid" /\ MaxMessageLength \in Nat
      BY ReadFields, ByteFacts DEF More, Invalid
  <1>2. CASE ReadExact(s, 1) = More
      BY <1>1, <1>2 DEF ReadTcpResponse
  <1>3. CASE ReadExact(s, 1) # More
    <2>1. PICK x, y \in Input : s = Then(x, y) /\ Len(x) = 1
        BY <1>3, ExactSplits
    <2>2. CASE ReadBlock(y, MaxMessageLength) = More
        BY <1>1, <2>1, <2>2, ResponseOf
    <2>3. CASE \E a, b \in Input :
                  /\ y = Then(a, b)
                  /\ \A t \in Input : ReadBlock(Then(a, t), MaxMessageLength) = Invalid
      <3>1. PICK a, b \in Input :
               /\ y = Then(a, b)
               /\ \A t \in Input : ReadBlock(Then(a, t), MaxMessageLength) = Invalid
          BY <2>3, Zenon
      <3>2. PICK e \in Input : e = Then(x, a)
          BY ThenTwo
      <3>3. ASSUME NEW t \in Input PROVE Then(e, t) = Then(x, Then(a, t))
          BY <3>2, ThenThree
      <3>4. s = Then(e, b)
          BY <2>1, <3>1, <3>3, Zenon
      <3>5. ASSUME NEW t \in Input PROVE ReadTcpResponse(Then(e, t)) = Invalid
        <4>1. PICK u \in Input : u = Then(a, t)
            BY ThenTwo
        <4>2. ReadBlock(u, MaxMessageLength) = Invalid
            BY <3>1, <4>1, Zenon
        <4>3. ReadTcpResponse(Then(x, u)) = Invalid
            BY <1>1, <2>1, <4>2, ResponseOf
        <4> QED BY <3>3, <4>1, <4>3, Zenon
      <3>6. Refused(e)
          BY <3>5 DEF Refused
      <3> QED BY <3>4, <3>6, Zenon
    <2>4. CASE \E a, b, v \in Input :
                  /\ y = Then(a, b) /\ a # << >>
                  /\ \A t \in Input : ReadBlock(Then(a, t), MaxMessageLength) = Read("ok", v, t)
      <3>1. PICK a, b, v \in Input : y = Then(a, b) /\ Carries(a, v)
          BY <2>4, Zenon DEF Carries
      <3>2. s = Then(x, Then(a, b))
          BY <2>1, <3>1, Zenon
      <3>3. \/ ReadTcpResponse(Then(x, Then(a, b))) = More
            \/ \E c, d \in Input :
                  /\ Then(x, Then(a, b)) = Then(c, d)
                  /\ Refused(c) \/ \E u : Answered(c, u)
          BY <2>1, <3>1, PaddingSplits
      <3> QED BY <3>2, <3>3, Zenon
    <2> QED BY <1>1, <2>2, <2>3, <2>4, BlockSplits, Zenon
  <1> QED BY <1>2, <1>3

-----------------------------------------------------------------------------
(* What was written. *)

\* The least length that holds a number; 2^62 - 1 is the largest there is.
LEMMA VarintLenIs ==
  ASSUME NEW i \in Nat, i < Q * Power[7]
  PROVE  \E t \in 1..4 : VarintLen(i) = Lengths[t] /\ i < Q * Power[Lengths[t] - 1]
  <1> DEFINE P(t) == /\ t = 4 \/ i < Q * Power[Lengths[t] - 1]
                     /\ \A s \in 1..(t - 1) : i >= Q * Power[Lengths[s] - 1]
  <1>1. /\ Lengths[1] = 1 /\ Lengths[2] = 2 /\ Lengths[3] = 4 /\ Lengths[4] = 8
      BY DEF Lengths
  <1>2. \A t \in 1..4 : Q * Power[Lengths[t] - 1] \in Nat
    <2> TAKE t \in 1..4
    <2>1. Lengths[t] - 1 \in 0..7
        BY <1>1
    <2> QED BY <2>1, ByteFacts, Powers
  <1>3. \E t \in 1..4 : P(t)
    <2> DEFINE B(t) == i < Q * Power[Lengths[t] - 1]
    <2>1. \A t \in 1..4 : ~ B(t) => i >= Q * Power[Lengths[t] - 1]
        BY <1>2
    <2> HIDE DEF B
    <2>2. CASE B(1)
        BY <2>2 DEF B
    <2>3. CASE ~ B(1) /\ B(2)
      <3>1. \A s \in 1..(2 - 1) : s = 1
          OBVIOUS
      <3> QED BY <2>1, <2>3, <3>1 DEF B
    <2>4. CASE ~ B(1) /\ ~ B(2) /\ B(3)
      <3>1. \A s \in 1..(3 - 1) : s = 1 \/ s = 2
          OBVIOUS
      <3> QED BY <2>1, <2>4, <3>1 DEF B
    <2>5. CASE ~ B(1) /\ ~ B(2) /\ ~ B(3)
      <3>1. \A s \in 1..(4 - 1) : s = 1 \/ s = 2 \/ s = 3
          OBVIOUS
      <3> QED BY <2>1, <2>5, <3>1 DEF B
    <2> QED BY <2>2, <2>3, <2>4, <2>5
  <1>4. VarintLen(i) = Lengths[CHOOSE t \in 1..4 : P(t)]
      BY DEF VarintLen
  <1>5. PICK t \in 1..4 : P(t) /\ VarintLen(i) = Lengths[t]
      BY <1>3, <1>4
  <1>6. i < Q * Power[Lengths[t] - 1]
      BY <1>1, <1>5
  <1> QED BY <1>5, <1>6

\* varint::read of a number, however long it is written.
LEMMA VarintAny ==
  ASSUME NEW k \in 1..4, NEW i \in Nat, i < Q * Power[Lengths[k] - 1], NEW t \in Input
  PROVE  /\ Varint(i, k) \in Input /\ Len(Varint(i, k)) = Lengths[k]
         /\ VarintRead(Then(Varint(i, k), t)) = Read("ok", i, t)
  <1>1. PICK n \in 1..8 : n = Lengths[k]
      BY DEF Lengths
  <1>4. PICK b : b = BigEndian(i, n)
      OBVIOUS
  <1>5. PICK p \in Nat \ {0} : p = Power[n - 1]
    <2>1. n - 1 \in 0..7
        OBVIOUS
    <2> QED BY <2>1, Powers
  <1>6. /\ i < Q * p /\ Q \in Nat \ {0} /\ Byte = 4 * Q
        /\ Bytes = 0..(4 * Q - 1)
      BY <1>1, <1>5, ByteFacts DEF Bytes
  <1>7. i < Byte * p
    <2>1. Byte * p = Q * p + Q * p + Q * p + Q * p /\ Q * p \in Nat
        BY <1>6
    <2> QED BY <1>6, <2>1
  <1>8. /\ b \in Seq(Bytes) /\ Len(b) = n
        /\ b[1] = i \div p /\ Number(b) = i
      BY <1>4, <1>5, <1>7, BigEndianWhole
  <1>9. b[1] \in 0..(Q - 1)
    <2>1. i \div p < Q
        BY <1>6, DivBelow
    <2>2. i \div p \in Nat
        BY Digits2
    <2> QED BY <1>6, <1>8, <2>1, <2>2
  <1>10. PICK h : h = b[1] + (k - 1) * Q
      OBVIOUS
  <1>11. h \in Bytes /\ h \div Q = k - 1 /\ h % Q = b[1]
    <2>1. k \in {1, 2, 3, 4}
        OBVIOUS
    <2>2. PICK d \in 0..(Q - 1) : d = b[1]
        BY <1>9
    <2>3. PICK e \in 0..3 : e = k - 1
        OBVIOUS
    <2>4. h = d + e * Q
        BY <1>10, <2>2, <2>3
    <2>5. h \div Q = e /\ h % Q = d
      <3>1. e * Q \in Nat /\ h \in Nat
          BY <1>6, <2>4
      <3>2. e = 0 \/ e = 1 \/ e = 2 \/ e = 3
          OBVIOUS
      <3>3. CASE e = 0
          BY <1>6, <2>4, <3>3
      <3>4. CASE e = 1
          BY <1>6, <2>4, <3>4
      <3>5. CASE e = 2
          BY <1>6, <2>4, <3>5
      <3>6. CASE e = 3
          BY <1>6, <2>4, <3>6
      <3> QED BY <3>2, <3>3, <3>4, <3>5, <3>6
    <2>6. h \in Bytes
        BY <1>6, <2>3, <2>4
    <2> QED BY <2>2, <2>3, <2>5, <2>6
  <1>12. PICK a : a = [b EXCEPT ![1] = h]
      OBVIOUS
  <1>13. Varint(i, k) = a
      BY <1>1, <1>4, <1>10, <1>12 DEF Varint
  <1>14. a \in Input /\ Len(a) = n /\ a[1] = h /\ a # << >>
    <2>1. 1 \in 1..Len(b)
        BY <1>8
    <2>2. a \in Seq(Bytes) /\ Len(a) = n /\ a[1] = h
        BY <1>8, <1>11, <1>12, <2>1, ExceptSeq
    <2> QED BY <2>2 DEF Input
  <1>15. Told(a) = Len(a)
      BY <1>1, <1>11, <1>14 DEF Told
  <1>16. [a EXCEPT ![1] = a[1] % Q] = b
    <2>1. 1 \in 1..Len(b) /\ DOMAIN b = 1..Len(b)
        BY <1>8
    <2>2. [a EXCEPT ![1] = a[1] % Q] = [b EXCEPT ![1] = b[1]]
        BY <1>11, <1>12, <1>14, <2>1
    <2>3. [b EXCEPT ![1] = b[1]] = b
        BY <1>8
    <2> QED BY <2>2, <2>3
  <1>17. VarintRead(Then(a, t)) = Read("ok", i, t)
      BY <1>8, <1>14, <1>15, <1>16, VarintTakes
  <1> QED BY <1>1, <1>13, <1>14, <1>17

\* varint::put, and varint::read of it.
LEMMA VarintWhole ==
  ASSUME NEW i \in Nat, i < Q * Power[7], NEW t \in Input
  PROVE  /\ VarintPut(i) \in Input /\ Len(VarintPut(i)) = VarintLen(i)
         /\ VarintRead(Then(VarintPut(i), t)) = Read("ok", i, t)
  <1>1. PICK k \in 1..4 : VarintLen(i) = Lengths[k] /\ i < Q * Power[Lengths[k] - 1]
      BY VarintLenIs
  <1>2. (CHOOSE c \in 1..4 : Lengths[c] = Lengths[k]) = k
    <2>1. \A c \in 1..4 : Lengths[c] = Lengths[k] => c = k
        BY DEF Lengths
    <2> QED BY <2>1
  <1>3. VarintPut(i) = Varint(i, k)
      BY <1>1, <1>2 DEF VarintPut, Varint
  <1> QED BY <1>1, <1>3, VarintAny

\* A block, however long its length is written.
LEMMA BlockAny ==
  ASSUME NEW v \in Input, NEW k \in 1..4, Len(v) < Q * Power[Lengths[k] - 1],
         NEW max \in Nat, Len(v) <= max, NEW t \in Input
  PROVE  /\ Then(Varint(Len(v), k), v) \in Input
         /\ ReadBlock(Then(Then(Varint(Len(v), k), v), t), max) = Read("ok", v, t)
  <1>1. Len(v) \in Nat
      BY DEF Input
  <1>2. PICK a \in Input : a = Varint(Len(v), k)
      BY <1>1, VarintAny
  <1>3. PICK u \in Input : u = Then(v, t)
      BY ThenTwo
  <1>4. PICK r : r = VarintRead(Then(a, u))
      OBVIOUS
  <1>5. r = Read("ok", Len(v), u)
      BY <1>1, <1>2, <1>4, VarintAny
  <1>6. r.kind = "ok" /\ r.value = Len(v) /\ r.rest = u
      BY <1>5, ReadFields
  <1>7. ReadBlock(Then(a, u), max) = ReadExact(u, Len(v))
      BY <1>1, <1>4, <1>6 DEF ReadBlock
  <1>8. ReadExact(u, Len(v)) = Read("ok", v, t)
      BY <1>3, ExactTakes, Zenon
  <1>9. Then(Then(a, v), t) = Then(a, u)
      BY <1>3, ThenThree
  <1> QED BY <1>2, <1>7, <1>8, <1>9, ThenTwo

\* A block as the client writes it.
LEMMA BlockWhole ==
  ASSUME NEW v \in Input, Len(v) < Q * Power[7],
         NEW max \in Nat, Len(v) <= max, NEW t \in Input
  PROVE  /\ Block(v) \in Input /\ Len(Block(v)) = VarintLen(Len(v)) + Len(v)
         /\ ReadBlock(Then(Block(v), t), max) = Read("ok", v, t)
  <1>1. Len(v) \in Nat
      BY DEF Input
  <1>2. PICK a \in Input : a = VarintPut(Len(v)) /\ Len(a) = VarintLen(Len(v))
      BY <1>1, VarintWhole
  <1>3. Block(v) = Then(a, v)
      BY <1>2 DEF Block, Then
  <1>4. Then(a, v) \in Input /\ Len(Then(a, v)) = Len(a) + Len(v)
      BY Joined DEF Input, Then
  <1>5. PICK u \in Input : u = Then(v, t)
      BY ThenTwo
  <1>6. PICK r : r = VarintRead(Then(a, u))
      OBVIOUS
  <1>7. r = Read("ok", Len(v), u)
      BY <1>1, <1>2, <1>6, VarintWhole
  <1>8. r.kind = "ok" /\ r.value = Len(v) /\ r.rest = u
      BY <1>7, ReadFields
  <1>9. ReadBlock(Then(a, u), max) = ReadExact(u, Len(v))
      BY <1>1, <1>6, <1>8 DEF ReadBlock
  <1>10. ReadExact(u, Len(v)) = Read("ok", v, t)
      BY <1>5, ExactTakes, Zenon
  <1>11. Then(Then(a, v), t) = Then(a, u)
      BY <1>5, ThenThree
  <1> QED BY <1>2, <1>3, <1>4, <1>9, <1>10, <1>11

\* A verdict stands: read_tcp_response runs its parser again after each chunk.
\* What it has made of the bytes so far it makes of them whatever comes after,
\* and what comes after is left for the connection's reader.
THEOREM VerdictStands ==
  ASSUME NEW s \in Input, NEW t \in Input
  PROVE  \/ ReadTcpResponse(s) = More
         \/ ReadTcpResponse(s) = Invalid /\ ReadTcpResponse(s \o t) = Invalid
         \/ \E v : \E rest \in Input :
               /\ ReadTcpResponse(s) = Read("ok", v, rest)
               /\ ReadTcpResponse(s \o t) = Read("ok", v, rest \o t)
  <1>1. CASE ReadTcpResponse(s) = More
      BY <1>1
  <1>2. CASE ReadTcpResponse(s) # More
    <2>1. PICK a, b \in Input : s = Then(a, b) /\ (Refused(a) \/ \E v : Answered(a, v))
        BY <1>2, ResponseSplits
    <2>2. PICK c \in Input : c = Then(b, t)
        BY ThenTwo
    <2>3. Then(s, t) = Then(a, c)
        BY <2>1, <2>2, ThenThree
    <2>4. CASE Refused(a)
        BY <2>1, <2>3, <2>4 DEF Refused, Then
    <2>5. CASE \E v : Answered(a, v)
      <3>1. PICK v : Answered(a, v)
          BY <2>5
      <3>2. /\ ReadTcpResponse(s) = Read("ok", v, b)
            /\ ReadTcpResponse(Then(s, t)) = Read("ok", v, Then(b, t))
          BY <2>1, <2>2, <2>3, <3>1, Zenon DEF Answered
      <3>3. /\ ReadTcpResponse(s) = Read("ok", v, b)
            /\ ReadTcpResponse(s \o t) = Read("ok", v, b \o t)
          BY <3>2 DEF Then
      <3> QED BY <3>3, Zenon
    <2> QED BY <2>1, <2>4, <2>5
  <1> QED BY <1>1, <1>2

\* A response as any peer may write it: km and kp say how its lengths are written.
Response(status, message, km, padding, kp) ==
    <<status>> \o (Varint(Len(message), km) \o message)
               \o (Varint(Len(padding), kp) \o padding)

\* What a peer may write.
Answerable(status, message, km, padding, kp) ==
    /\ status \in Bytes /\ message \in Input /\ padding \in Input
    /\ km \in 1..4 /\ Len(message) < Q * Power[Lengths[km] - 1]
    /\ kp \in 1..4 /\ Len(padding) < Q * Power[Lengths[kp] - 1]
    /\ Len(message) <= MaxMessageLength /\ Len(padding) <= MaxPaddingLength
    /\ Utf8(message)

\* The whole of a response is judged.
LEMMA ResponseAnswered ==
  ASSUME NEW x, NEW m, NEW km, NEW p, NEW kp, Answerable(x, m, km, p, kp)
  PROVE  /\ Response(x, m, km, p, kp) \in Input
         /\ Answered(Response(x, m, km, p, kp), [ok |-> x = 0, message |-> m])
  <1> USE DEF Answerable
  <1>1. MaxMessageLength \in Nat /\ MaxPaddingLength \in Nat
      BY ByteFacts
  <1>2. PICK y \in Input : y = <<x>> /\ Len(y) = 1 /\ (y = <<0>> <=> x = 0)
    <2>1. <<x>> \in Input
        BY DEF Input
    <2>2. Len(<<x>>) = 1 /\ <<x>>[1] = x /\ <<0>>[1] = 0
        OBVIOUS
    <2>3. <<x>> = <<0>> <=> x = 0
        BY <2>2
    <2> QED BY <2>1, <2>2, <2>3, Zenon
  <1>3. PICK a \in Input :
           /\ a = Then(Varint(Len(m), km), m)
           /\ \A t \in Input : ReadBlock(Then(a, t), MaxMessageLength) = Read("ok", m, t)
    <2>1. \A t \in Input :
             /\ Then(Varint(Len(m), km), m) \in Input
             /\ ReadBlock(Then(Then(Varint(Len(m), km), m), t), MaxMessageLength)
                   = Read("ok", m, t)
        BY <1>1, BlockAny
    <2> QED BY <1>2, <2>1, Zenon
  <1>4. PICK b \in Input :
           /\ b = Then(Varint(Len(p), kp), p)
           /\ \A t \in Input : ReadBlock(Then(b, t), MaxPaddingLength) = Read("ok", p, t)
    <2>1. \A t \in Input :
             /\ Then(Varint(Len(p), kp), p) \in Input
             /\ ReadBlock(Then(Then(Varint(Len(p), kp), p), t), MaxPaddingLength)
                   = Read("ok", p, t)
        BY <1>1, BlockAny
    <2> QED BY <1>2, <2>1, Zenon
  <1>5. PICK r \in Input : r = Then(Then(y, a), b)
      BY ThenTwo
  <1>6. Response(x, m, km, p, kp) = r
      BY <1>2, <1>3, <1>4, <1>5, Zenon DEF Response, Then
  <1>7. PICK v : v = [ok |-> x = 0, message |-> m]
      OBVIOUS
  <1>8. ASSUME NEW t \in Input PROVE ReadTcpResponse(Then(r, t)) = Read("ok", v, t)
    <2>1. PICK c \in Input : c = Then(b, t)
        BY ThenTwo
    <2>2. PICK d \in Input : d = Then(a, c)
        BY ThenTwo
    <2>3. Then(r, t) = Then(y, d)
      <3>1. PICK z \in Input : z = Then(y, a)
          BY ThenTwo
      <3>2. Then(Then(z, b), t) = Then(z, c)
          BY <2>1, ThenThree
      <3>3. Then(z, c) = Then(y, d)
          BY <2>2, <3>1, ThenThree
      <3> QED BY <1>5, <3>1, <3>2, <3>3, Zenon
    <2>4. PICK f : f = ReadBlock(d, MaxMessageLength)
        OBVIOUS
    <2>5. f.kind = "ok" /\ f.value = m /\ f.rest = c
        BY <1>3, <2>2, <2>4, ReadFields
    <2>6. PICK g : g = ReadBlock(c, MaxPaddingLength)
        OBVIOUS
    <2>7. g.kind = "ok" /\ g.rest = t
        BY <1>4, <2>1, <2>6, ReadFields
    <2>8. ReadTcpResponse(Then(y, d)) =
             IF f.kind # "ok" THEN f
             ELSE IF g.kind # "ok" THEN g
             ELSE IF ~ Utf8(f.value) THEN Invalid
             ELSE Read("ok", [ok |-> y = <<0>>, message |-> f.value], g.rest)
        BY <1>2, <2>4, <2>5, <2>6, ResponseOf
    <2>9. [ok |-> y = <<0>>, message |-> m] = v
        BY <1>2, <1>7
    <2> QED BY <2>3, <2>5, <2>7, <2>8, <2>9
  <1>9. Answered(r, v)
      BY <1>8 DEF Answered
  <1> QED BY <1>6, <1>7, <1>9

\* read_tcp_response runs its parser after each chunk.  On a beginning p of any
\* response, with the lengths of its message and its padding written in any of
\* the four lengths of a varint, it asks for more; on the whole of it, whatever
\* data d follows, it gives the status and the message, and d is left.
THEOREM ResponseParsed ==
  ASSUME NEW x, NEW m, NEW km, NEW pad, NEW kp, Answerable(x, m, km, pad, kp)
  PROVE  LET r == Response(x, m, km, pad, kp)
         IN  /\ \A p, u \in Input : r = p \o u /\ u # << >> => ReadTcpResponse(p) = More
             /\ \A d \in Input : ReadTcpResponse(r \o d)
                                     = Read("ok", [ok |-> x = 0, message |-> m], d)
  <1>1. PICK v : v = [ok |-> x = 0, message |-> m]
      OBVIOUS
  <1>2. PICK r \in Input : r = Response(x, m, km, pad, kp) /\ Answered(r, v)
      BY <1>1, ResponseAnswered
  <1>3. \A d \in Input : ReadTcpResponse(r \o d) = Read("ok", v, d)
      BY <1>2 DEF Answered, Then
  <1>4. ASSUME NEW p \in Input, NEW u \in Input, r = p \o u, u # << >>
        PROVE  ReadTcpResponse(p) = More
    <2>1. PICK e \in Input : e = << >>
      <3>1. << >> \in Input
          BY DEF Input
      <3> QED BY <3>1, Zenon
    <2>2. r \o e = r
        BY <2>1, Joined DEF Input
    <2>3. ReadTcpResponse(p \o u) = Read("ok", v, << >>)
        BY <1>3, <1>4, <2>1, <2>2
    <2>4. ASSUME ReadTcpResponse(p \o u) = Invalid PROVE FALSE
        BY <2>3, <2>4, ReadFields DEF Invalid
    <2>5. ASSUME NEW w, NEW rest \in Input, ReadTcpResponse(p \o u) = Read("ok", w, rest \o u)
          PROVE  FALSE
      <3>1. rest \o u = << >>
        <4>1. PICK z : z = rest \o u
            OBVIOUS
        <4>2. Read("ok", w, z) = Read("ok", v, << >>)
            BY <2>3, <2>5, <4>1, Zenon
        <4>3. Read("ok", w, z).rest = z /\ Read("ok", v, << >>).rest = << >>
            BY DEF Read
        <4> QED BY <4>1, <4>2, <4>3, Zenon
      <3>2. Len(rest \o u) = Len(rest) + Len(u) /\ Len(rest) \in Nat /\ Len(u) \in Nat
          BY Joined DEF Input
      <3>3. Len(u) > 0
          BY <1>4, <3>2 DEF Input
      <3> QED BY <3>1, <3>2, <3>3
    <2> QED BY <2>4, <2>5, VerdictStands
  <1> QED BY <1>1, <1>2, <1>3, <1>4

-----------------------------------------------------------------------------
(* The request. *)

\* The frame type is a varint.
LEMMA TypeFits == FrameTypeTcpRequest < Q * Power[7]
  <1>1. Q \in Nat \ {0} /\ Byte = 4 * Q
      BY ByteFacts
  <1>2. ASSUME NEW n \in 1..7
        PROVE  Power[n] \in Nat \ {0} /\ Power[n - 1] \in Nat \ {0} /\ Power[n] >= 4 * Power[n - 1]
    <2>1. PICK p \in Nat \ {0} : p = Power[n - 1]
        BY Powers
    <2>2. PICK r \in Nat \ {0} : r = Power[n] /\ r = Byte * p
        BY <2>1, Powers
    <2>3. Q * p >= p
        BY <1>1
    <2>4. r = 4 * (Q * p)
        BY <1>1, <2>2
    <2> QED BY <1>1, <2>1, <2>2, <2>3, <2>4
  <1>3. Power[1] = 4 * Q
    <2>1. 1 \in 1..7 /\ 1 - 1 = 0
        OBVIOUS
    <2> QED BY <1>1, <2>1, Powers
  <1>4. Power[2] >= 4 * Power[1] /\ Power[2] \in Nat
      BY <1>2
  <1>5. Power[3] >= 4 * Power[2] /\ Power[3] \in Nat
      BY <1>2
  <1>6. Power[4] >= 4 * Power[3] /\ Power[4] \in Nat
      BY <1>2
  <1>7. Power[5] >= 4 * Power[4] /\ Power[5] \in Nat
      BY <1>2
  <1>8. Power[6] >= 4 * Power[5] /\ Power[6] \in Nat
      BY <1>2
  <1>9. Power[7] >= 4 * Power[6] /\ Power[7] \in Nat
      BY <1>2
  <1>10. Power[7] >= 64 * Q
      BY <1>1, <1>3, <1>4, <1>5, <1>6, <1>7, <1>8, <1>9
  <1>11. PICK p \in Nat : p = Power[7]
      BY <1>9
  <1>12. Q * p >= p
      BY <1>1, <1>11
  <1>13. FrameTypeTcpRequest = 16 * Q + 1
      BY <1>1 DEF FrameTypeTcpRequest
  <1> QED BY <1>1, <1>10, <1>11, <1>12, <1>13

\* What write_tcp_request wrote, read as the server reads it: a number that is
\* the frame type, the address and the padding, and nothing is left.
THEOREM RequestRead ==
  ASSUME NEW addr \in Input, NEW pad \in Input, NEW max \in Nat,
         Len(addr) <= max, Len(pad) <= max, max < Q * Power[7]
  PROVE  LET type    == VarintRead(WriteTcpRequest(addr, pad))
             address == ReadBlock(type.rest, max)
         IN  /\ type.kind = "ok" /\ type.value = FrameTypeTcpRequest
             /\ address.kind = "ok" /\ address.value = addr
             /\ ReadBlock(address.rest, max) = Read("ok", pad, << >>)
  <1>1. /\ Len(addr) \in Nat /\ Len(pad) \in Nat
        /\ Q \in Nat \ {0} /\ Power[7] \in Nat \ {0} /\ FrameTypeTcpRequest \in Nat
    <2>1. Q \in Nat \ {0} /\ Power[7] \in Nat \ {0}
        BY ByteFacts, Powers
    <2>2. FrameTypeTcpRequest \in Nat
        BY ByteFacts DEF FrameTypeTcpRequest
    <2> QED BY <2>1, <2>2 DEF Input
  <1>2. PICK e \in Input : e = << >>
    <2>1. << >> \in Input
        BY DEF Input
    <2> QED BY <2>1, Zenon
  <1>3. Len(addr) < Q * Power[7] /\ Len(pad) < Q * Power[7]
    <2>1. PICK top \in Nat : top = Q * Power[7]
        BY <1>1
    <2> QED BY <1>1, <2>1
  <1>4. PICK a \in Input : a = Block(addr)
      BY <1>2, <1>3, BlockWhole
  <1>5. PICK b \in Input : b = Block(pad)
      BY <1>2, <1>3, BlockWhole
  <1>6. PICK f \in Input : f = VarintPut(FrameTypeTcpRequest)
      BY <1>1, <1>2, TypeFits, VarintWhole
  <1>7. PICK c \in Input : c = Then(a, b)
      BY ThenTwo
  <1>8. WriteTcpRequest(addr, pad) = Then(f, c)
    <2>1. WriteTcpRequest(addr, pad) = Then(Then(f, a), b)
        BY <1>4, <1>5, <1>6, Zenon DEF WriteTcpRequest, Then
    <2> QED BY <1>7, <2>1, ThenThree
  <1>9. b = Then(b, e)
      BY <1>2, Joined DEF Then, Input
  <1>10. PICK type : type = VarintRead(Then(f, c))
      OBVIOUS
  <1>11. type = Read("ok", FrameTypeTcpRequest, c)
      BY <1>1, <1>6, <1>10, TypeFits, VarintWhole
  <1>12. type.kind = "ok" /\ type.value = FrameTypeTcpRequest /\ type.rest = c
      BY <1>11, ReadFields
  <1>13. PICK address : address = ReadBlock(c, max)
      OBVIOUS
  <1>14. address = Read("ok", addr, b)
      BY <1>3, <1>4, <1>7, <1>13, BlockWhole
  <1>15. address.kind = "ok" /\ address.value = addr /\ address.rest = b
      BY <1>14, ReadFields
  <1>16. ReadBlock(b, max) = Read("ok", pad, << >>)
    <2>1. ReadBlock(Then(b, e), max) = Read("ok", pad, e)
        BY <1>3, <1>5, BlockWhole
    <2> QED BY <1>2, <1>9, <2>1
  <1> QED BY <1>8, <1>10, <1>12, <1>13, <1>15, <1>16

-----------------------------------------------------------------------------
(* The datagram. *)

\* What a UDP message may be.
UdpMessage ==
    {m \in [session : 0..(Byte * Power[3] - 1), packet : 0..(Byte * Power[1] - 1),
            fragId : Bytes, fragCount : Bytes, addr : Input, data : Input] :
        /\ Len(m.addr) \in 1..MaxMessageLength /\ Utf8(m.addr)
        /\ Len(m.addr) < Q * Power[7]}

\* s is n bytes of a and then those of b.
Laid(s, a, n, b) ==
    /\ s \in Input /\ Len(s) = n + Len(b) /\ Len(b) \in Nat
    /\ \A k \in 1..n : s[k] = a[k]
    /\ \A k \in 1..Len(b) : s[n + k] = b[k]

\* The bytes of two parts, by their places.
LEMMA Places ==
  ASSUME NEW a \in Input, NEW b \in Input, NEW n \in Nat, Len(a) = n
  PROVE  Laid(Then(a, b), a, n, b)
  <1> USE DEF Input, Then
  <1>1. /\ a \o b \in Seq(Bytes) /\ Len(a \o b) = n + Len(b) /\ Len(b) \in Nat
      BY Joined
  <1>2. \A k \in 1..(n + Len(b)) : (a \o b)[k] = IF k <= n THEN a[k] ELSE b[k - n]
      BY ConcatProperties
  <1>3. ASSUME NEW k \in 1..n PROVE (a \o b)[k] = a[k]
      BY <1>1, <1>2
  <1>4. ASSUME NEW k \in 1..Len(b) PROVE (a \o b)[n + k] = b[k]
    <2>1. n + k \in 1..(n + Len(b)) /\ ~ (n + k <= n) /\ (n + k) - n = k
        BY <1>1
    <2> QED BY <1>2, <2>1
  <1> QED BY <1>1, <1>3, <1>4 DEF Laid

\* A part that is b, byte by byte.
LEMMA PartIs ==
  ASSUME NEW s \in Input, NEW b \in Input, NEW n \in Nat, NEW k \in Nat,
         Len(b) = k, n + k <= Len(s), \A i \in 1..k : s[n + i] = b[i]
  PROVE  SubSeq(s, n + 1, n + k) = b
  <1> USE DEF Input
  <1>1. n + 1 \in 1..(Len(s) + 1) /\ n + k \in ((n + 1) - 1)..Len(s)
      OBVIOUS
  <1>2. PICK u : u = SubSeq(s, n + 1, n + k)
      OBVIOUS
  <1>3. /\ u \in Seq(Bytes) /\ Len(u) = ((n + k) - (n + 1)) + 1
        /\ \A i \in 1..(((n + k) - (n + 1)) + 1) : u[i] = s[((n + 1) + i) - 1]
      BY <1>1, <1>2, SubSeqProperties
  <1>4. ((n + k) - (n + 1)) + 1 = k
      OBVIOUS
  <1>5. Len(u) = Len(b)
      BY <1>3, <1>4
  <1>6. ASSUME NEW i \in 1..Len(u) PROVE u[i] = b[i]
    <2>1. i \in 1..k /\ ((n + 1) + i) - 1 = n + i
        BY <1>3, <1>4
    <2> QED BY <1>3, <1>4, <2>1
  <1>7. u = b
      BY <1>3, <1>5, <1>6, SeqEqual
  <1> QED BY <1>2, <1>7

\* The fields of the fixed part, by their places.
LEMMA Header ==
  ASSUME NEW a \in Input, Len(a) = 4, NEW b \in Input, Len(b) = 2,
         NEW d \in Input, Len(d) = 2, NEW t \in Input
  PROVE  LET h == Then(Then(a, b), d)
             s == Then(h, t)
         IN  /\ h \in Input /\ Len(h) = 8 /\ s \in Input
             /\ SubSeq(s, 1, 4) = a /\ SubSeq(s, 5, 6) = b
             /\ s[7] = d[1] /\ s[8] = d[2]
  <1>1. PICK e \in Input : /\ e = Then(a, b) /\ Len(e) = 6
                           /\ \A k \in 1..4 : e[k] = a[k]
                           /\ \A k \in 1..2 : e[4 + k] = b[k]
    <2>1. /\ Then(a, b) \in Input /\ Len(Then(a, b)) = 4 + 2
          /\ \A k \in 1..4 : Then(a, b)[k] = a[k]
          /\ \A k \in 1..2 : Then(a, b)[4 + k] = b[k]
      <3>1. PICK n \in Nat : n = 4
          OBVIOUS
      <3>2. Laid(Then(a, b), a, n, b)
          BY <3>1, Places
      <3> QED BY <3>1, <3>2 DEF Laid
    <2>2. 4 + 2 = 6
        OBVIOUS
    <2> QED BY <2>1, <2>2, Zenon
  <1>2. PICK h \in Input : /\ h = Then(e, d) /\ Len(h) = 8
                           /\ \A k \in 1..6 : h[k] = e[k]
                           /\ \A k \in 1..2 : h[6 + k] = d[k]
    <2>1. /\ Then(e, d) \in Input /\ Len(Then(e, d)) = 6 + 2
          /\ \A k \in 1..6 : Then(e, d)[k] = e[k]
          /\ \A k \in 1..2 : Then(e, d)[6 + k] = d[k]
      <3>1. PICK n \in Nat : n = 6
          OBVIOUS
      <3>2. Laid(Then(e, d), e, n, d)
          BY <1>1, <3>1, Places
      <3> QED BY <3>1, <3>2 DEF Laid
    <2>2. 6 + 2 = 8
        OBVIOUS
    <2> QED BY <2>1, <2>2, Zenon
  <1>3. PICK s \in Input : /\ s = Then(h, t) /\ Len(s) = 8 + Len(t) /\ Len(t) \in Nat
                           /\ \A k \in 1..8 : s[k] = h[k]
    <2>1. /\ Then(h, t) \in Input /\ Len(Then(h, t)) = 8 + Len(t) /\ Len(t) \in Nat
          /\ \A k \in 1..8 : Then(h, t)[k] = h[k]
      <3>1. PICK n \in Nat : n = 8
          OBVIOUS
      <3>2. Laid(Then(h, t), h, n, t)
          BY <1>2, <3>1, Places
      <3> QED BY <3>1, <3>2 DEF Laid
    <2> QED BY <2>1, Zenon
  <1>4. SubSeq(s, 0 + 1, 0 + 4) = a
    <2>1. \A k \in 1..4 : s[0 + k] = a[k]
        BY <1>1, <1>2, <1>3
    <2>2. 0 + 4 <= Len(s) /\ 0 \in Nat /\ 4 \in Nat
        BY <1>3
    <2> QED BY <2>1, <2>2, PartIs, Zenon
  <1>5. SubSeq(s, 4 + 1, 4 + 2) = b
    <2>1. \A k \in 1..2 : s[4 + k] = b[k]
        BY <1>1, <1>2, <1>3
    <2>2. 4 + 2 <= Len(s) /\ 4 \in Nat /\ 2 \in Nat
        BY <1>3
    <2> QED BY <2>1, <2>2, PartIs, Zenon
  <1>6. s[7] = d[1] /\ s[8] = d[2]
    <2>1. h[6 + 1] = d[1] /\ h[6 + 2] = d[2]
        BY <1>2
    <2> QED BY <1>3, <2>1
  <1>7. 0 + 1 = 1 /\ 0 + 4 = 4 /\ 4 + 1 = 5 /\ 4 + 2 = 6
      OBVIOUS
  <1>8. SubSeq(s, 1, 4) = a /\ SubSeq(s, 5, 6) = b
      BY <1>4, <1>5, <1>7
  <1> QED BY <1>1, <1>2, <1>3, <1>6, <1>8

\* parse_udp_message reads of a datagram what serialize wrote, whatever the
\* message's fields, and size is the number of bytes it took; a message without
\* payload it refuses.
THEOREM MessageRead ==
  ASSUME NEW m \in UdpMessage
  PROVE  /\ Len(Serialize(m)) = MessageSize(m)
         /\ ParseUdpMessage(Serialize(m)) = IF m.data = << >> THEN Invalid
                                             ELSE Read("ok", m, << >>)
  <1>1. /\ m = [session |-> m.session, packet |-> m.packet, fragId |-> m.fragId,
                fragCount |-> m.fragCount, addr |-> m.addr, data |-> m.data]
        /\ m.session \in 0..(Byte * Power[3] - 1) /\ m.packet \in 0..(Byte * Power[1] - 1)
        /\ m.fragId \in Bytes /\ m.fragCount \in Bytes
        /\ m.addr \in Input /\ m.data \in Input /\ Utf8(m.addr)
        /\ Len(m.addr) \in 1..MaxMessageLength
        /\ Len(m.addr) < Q * Power[7]
      BY DEF UdpMessage
  <1>2. /\ Power[3] \in Nat \ {0} /\ Power[1] \in Nat \ {0} /\ Byte \in Nat \ {0}
        /\ MaxMessageLength \in Nat
      BY Powers, ByteFacts
  <1>3. m.session \in Nat /\ m.session < Byte * Power[3]
    <2>1. PICK top \in Nat : top = Byte * Power[3]
        BY <1>2
    <2> QED BY <1>1, <2>1
  <1>4. m.packet \in Nat /\ m.packet < Byte * Power[1]
    <2>1. PICK top \in Nat : top = Byte * Power[1]
        BY <1>2
    <2> QED BY <1>1, <2>1
  <1>5. PICK a \in Input : a = BigEndian(m.session, 4) /\ Len(a) = 4 /\ Number(a) = m.session
    <2>1. 4 \in 1..8 /\ 4 - 1 = 3
        OBVIOUS
    <2> QED BY <1>3, <2>1, BigEndianWhole DEF Input
  <1>6. PICK b \in Input : b = BigEndian(m.packet, 2) /\ Len(b) = 2 /\ Number(b) = m.packet
    <2>1. 2 \in 1..8 /\ 2 - 1 = 1
        OBVIOUS
    <2> QED BY <1>4, <2>1, BigEndianWhole DEF Input
  <1>7. PICK v \in Input : /\ v = VarintPut(Len(m.addr)) /\ Len(v) = VarintLen(Len(m.addr))
                           /\ \A t \in Input : VarintRead(Then(v, t)) = Read("ok", Len(m.addr), t)
    <2>1. Len(m.addr) \in Nat
        BY <1>2, <1>1
    <2>2. \A t \in Input :
             /\ VarintPut(Len(m.addr)) \in Input
             /\ Len(VarintPut(Len(m.addr))) = VarintLen(Len(m.addr))
             /\ VarintRead(Then(VarintPut(Len(m.addr)), t)) = Read("ok", Len(m.addr), t)
        BY <1>1, <2>1, VarintWhole
    <2> QED BY <1>1, <2>2, Zenon
  <1>8. PICK u \in Input : u = Then(m.addr, m.data)
      BY <1>1, ThenTwo
  <1>9. PICK t \in Input : t = Then(v, u)
      BY ThenTwo
  <1>10. PICK d \in Input : /\ d = <<m.fragId, m.fragCount>> /\ Len(d) = 2
                           /\ d[1] = m.fragId /\ d[2] = m.fragCount
    <2>1. ASSUME NEW i \in Bytes, NEW c \in Bytes
          PROVE  <<i, c>> \in Seq(Bytes) /\ Len(<<i, c>>) = 2 /\ <<i, c>>[1] = i /\ <<i, c>>[2] = c
        OBVIOUS
    <2>2. PICK i \in Bytes, c \in Bytes : i = m.fragId /\ c = m.fragCount
        BY <1>1, Zenon
    <2>3. PICK d : d = <<i, c>>
        OBVIOUS
    <2>4. d \in Seq(Bytes) /\ Len(d) = 2 /\ d[1] = i /\ d[2] = c
        BY <2>1, <2>3, Zenon
    <2> QED BY <2>2, <2>3, <2>4, Zenon DEF Input
  <1>11. PICK h \in Input : h = Then(Then(a, b), d) /\ Len(h) = 8
      BY <1>5, <1>6, <1>10, <1>9, Header
  <1>12. PICK s \in Input :
            /\ s = Then(h, t)
            /\ SubSeq(s, 1, 4) = a /\ SubSeq(s, 5, 6) = b
            /\ s[7] = m.fragId /\ s[8] = m.fragCount
      BY <1>5, <1>6, <1>11, <1>10, Header
  <1>13. Serialize(m) = s
    <2>1. Serialize(m) = Then(Then(h, Then(v, m.addr)), m.data)
        BY <1>5, <1>6, <1>7, <1>10, <1>11, Zenon DEF Serialize, Block, Then
    <2>2. PICK w \in Input : w = Then(v, m.addr)
        BY <1>1, ThenTwo
    <2>3. Then(Then(h, w), m.data) = Then(h, Then(w, m.data))
        BY <1>1, ThenThree
    <2>4. Then(w, m.data) = t
        BY <1>1, <1>8, <1>9, <2>2, ThenThree
    <2> QED BY <1>12, <2>1, <2>2, <2>3, <2>4, Zenon
  <1>14. /\ Len(u) = Len(m.addr) + Len(m.data) /\ Len(t) = Len(v) + Len(u)
         /\ Len(s) = 8 + Len(t)
         /\ Len(m.addr) \in Nat /\ Len(m.data) \in Nat /\ Len(v) \in Nat
         /\ m.data = << >> <=> Len(m.data) = 0
    <2>1. /\ Len(m.addr) \in Nat /\ Len(m.data) \in Nat /\ Len(v) \in Nat
          /\ m.data = << >> <=> Len(m.data) = 0
        BY <1>1 DEF Input
    <2>2. Len(u) = Len(m.addr) + Len(m.data)
        BY <1>1, <1>8, Joined DEF Input, Then
    <2>3. Len(t) = Len(v) + Len(u)
        BY <1>9, Joined DEF Input, Then
    <2>4. Len(s) = 8 + Len(t)
      <3>1. PICK n \in Nat : n = 8
          OBVIOUS
      <3>2. Laid(Then(h, t), h, n, t)
          BY <1>11, <3>1, Places
      <3> QED BY <1>12, <3>1, <3>2 DEF Laid
    <2> QED BY <2>1, <2>2, <2>3, <2>4
  <1>15. Len(Serialize(m)) = MessageSize(m)
    <2>1. PICK x \in Nat, y \in Nat, z \in Nat :
             x = VarintLen(Len(m.addr)) /\ y = Len(m.addr) /\ z = Len(m.data)
        BY <1>7, <1>14
    <2>2. Len(s) = 8 + (x + (y + z))
        BY <1>7, <1>14, <2>1
    <2>3. MessageSize(m) = 4 + 2 + 1 + 1 + x + y + z
        BY <2>1 DEF MessageSize, HeaderSize
    <2> QED BY <1>13, <2>2, <2>3
  <1>16. PICK header : header = ReadExact(s, 8)
      OBVIOUS
  <1>17. header.kind = "ok" /\ header.rest = t
    <2>1. header = Read("ok", h, t)
        BY <1>11, <1>12, <1>16, ExactTakes
    <2> QED BY <2>1, ReadFields
  <1>18. PICK length : length = VarintRead(t)
      OBVIOUS
  <1>19. length.kind = "ok" /\ length.value = Len(m.addr) /\ length.rest = u
      BY <1>7, <1>9, <1>18, ReadFields
  <1>20. PICK addr : addr = ReadExact(u, Len(m.addr))
      OBVIOUS
  <1>21. addr.value = m.addr /\ addr.rest = m.data
    <2>1. addr = Read("ok", m.addr, m.data)
        BY <1>1, <1>8, <1>20, ExactTakes
    <2> QED BY <2>1, ReadFields
  <1>22. Len(u) <= Len(m.addr) <=> m.data = << >>
    <2>1. PICK y \in Nat, z \in Nat : y = Len(m.addr) /\ z = Len(m.data)
        BY <1>14
    <2>2. Len(u) = y + z
        BY <1>14, <2>1
    <2>3. y + z <= y <=> z = 0
        OBVIOUS
    <2> QED BY <1>14, <2>1, <2>2, <2>3, Zenon
  <1>23. CASE m.data = << >>
    <2>1. ParseUdpMessage(s) = Invalid
        BY <1>1, <1>16, <1>17, <1>18, <1>19, <1>22, <1>23 DEF ParseUdpMessage
    <2> QED BY <1>13, <1>15, <1>23, <2>1
  <1>24. CASE m.data # << >>
    <2>1. ParseUdpMessage(s) =
             Read("ok", [session |-> Number(SubSeq(s, 1, 4)), packet |-> Number(SubSeq(s, 5, 6)),
                         fragId |-> s[7], fragCount |-> s[8],
                         addr |-> addr.value, data |-> addr.rest], << >>)
        BY <1>1, <1>16, <1>17, <1>18, <1>19, <1>20, <1>21, <1>22, <1>24 DEF ParseUdpMessage
    <2>2. ParseUdpMessage(s) = Read("ok", m, << >>)
        BY <1>1, <1>5, <1>6, <1>12, <1>21, <2>1
    <2> QED BY <1>13, <1>15, <1>24, <2>2
  <1> QED BY <1>23, <1>24

-----------------------------------------------------------------------------
(* What the reader makes of every response, whole or not. *)

\* Nothing is an input.
LEMMA NoInput ==
  ASSUME NEW a \in Input
  PROVE  << >> \in Input /\ Then(a, << >>) = a /\ Then(<< >>, a) = a
         /\ Len(a) \in Nat /\ (a = << >> <=> Len(a) = 0)
  <1>1. << >> \in Input
      BY DEF Input
  <1> QED BY <1>1, Joined DEF Input, Then

\* Two ways of cutting an input after as many bytes are one.
LEMMA SameFirst ==
  ASSUME NEW a \in Input, NEW b \in Input, NEW c \in Input, NEW d \in Input,
         Then(a, b) = Then(c, d), Len(a) = Len(c)
  PROVE  a = c /\ b = d
  <1>1. ReadExact(Then(a, b), Len(a)) = Read("ok", a, b)
      BY ExactTakes
  <1>2. ReadExact(Then(c, d), Len(c)) = Read("ok", c, d)
      BY ExactTakes
  <1>3. Read("ok", a, b) = Read("ok", c, d)
      BY <1>1, <1>2
  <1> QED BY <1>3, ReadFields

\* c is a and something, which b begins with.
Extends(c, d, a, b) == \E e \in Input : c = Then(a, e) /\ b = Then(e, d)

\* The longer first part is the shorter one and something.
LEMMA LongerFirst ==
  ASSUME NEW a \in Input, NEW b \in Input, NEW c \in Input, NEW d \in Input,
         Then(a, b) = Then(c, d), Len(a) <= Len(c)
  PROVE  Extends(c, d, a, b)
  <1>1. Len(a) \in Nat /\ Len(c) \in Nat
      BY NoInput
  <1>2. PICK f, e \in Input : c = Then(f, e) /\ Len(f) = Len(a)
      BY <1>1, ExactSplits
  <1>3. PICK g \in Input : g = Then(e, d)
      BY ThenTwo
  <1>4. Then(c, d) = Then(f, g)
      BY <1>2, <1>3, ThenThree
  <1>5. f = a /\ g = b
      BY <1>2, <1>4, SameFirst
  <1> QED BY <1>2, <1>3, <1>5 DEF Extends

\* p is a beginning of s and not all of it; on every such beginning the reader
\* of a block with a limit, or of a response, asks for more.
ProperOf(p, s) == \E u \in Input : s = Then(p, u) /\ u # << >>
AsksBlock(s, max) == \A p \in Input : ProperOf(p, s) => ReadBlock(p, max) = More
Asks(s) == \A p \in Input : ProperOf(p, s) => ReadTcpResponse(p) = More

\* Nothing that is followed by something is left over.
LEMMA LeftOver ==
  ASSUME NEW b \in Input, NEW u \in Input, u # << >>
  PROVE  Then(b, u) # << >>
  <1>1. Len(Then(b, u)) = Len(b) + Len(u) /\ Len(b) \in Nat /\ Len(u) \in Nat
      BY Joined DEF Input, Then
  <1>2. Len(u) # 0
      BY NoInput
  <1> QED BY <1>1, <1>2

\* A block is not read before its last byte.
LEMMA BlockAsks ==
  ASSUME NEW s \in Input, NEW max \in Nat, NEW v, ReadBlock(s, max) = Read("ok", v, << >>)
  PROVE  AsksBlock(s, max)
  <1> SUFFICES ASSUME NEW p \in Input, ProperOf(p, s), ReadBlock(p, max) # More PROVE FALSE
      BY DEF AsksBlock
  <1>1. PICK u \in Input : s = Then(p, u) /\ u # << >>
      BY DEF ProperOf
  <1>2. ASSUME NEW a \in Input, NEW b \in Input, p = Then(a, b)
        PROVE  \E c \in Input : s = Then(a, c) /\ c # << >>
    <2>1. PICK c \in Input : c = Then(b, u) /\ c # << >>
        BY <1>1, ThenTwo, LeftOver
    <2> QED BY <1>1, <1>2, <2>1, ThenThree
  <1>3. CASE \E a, b \in Input :
                /\ p = Then(a, b)
                /\ \A t \in Input : ReadBlock(Then(a, t), max) = Invalid
    <2>1. PICK a \in Input, c \in Input : s = Then(a, c) /\ ReadBlock(Then(a, c), max) = Invalid
        BY <1>2, <1>3
    <2>2. Read("ok", v, << >>) = Invalid
        BY <2>1
    <2> QED BY <2>2, ReadFields DEF Invalid
  <1>4. CASE \E a, b, w \in Input :
                /\ p = Then(a, b) /\ a # << >>
                /\ \A t \in Input : ReadBlock(Then(a, t), max) = Read("ok", w, t)
    <2>1. PICK a \in Input, c \in Input, w \in Input :
             s = Then(a, c) /\ c # << >> /\ ReadBlock(Then(a, c), max) = Read("ok", w, c)
        BY <1>2, <1>4
    <2>2. Read("ok", v, << >>) = Read("ok", w, c)
        BY <2>1
    <2> QED BY <2>1, <2>2, ReadFields
  <1> QED BY <1>3, <1>4, BlockSplits

\* A length that is too large is refused with its last byte, and not before.
LEMMA LengthAsks ==
  ASSUME NEW k \in 1..4, NEW i \in Nat, i < Q * Power[Lengths[k] - 1],
         NEW max \in Nat, i > max
  PROVE  /\ Varint(i, k) \in Input
         /\ AsksBlock(Varint(i, k), max)
         /\ \A t \in Input : ReadBlock(Then(Varint(i, k), t), max) = Invalid
  <1>1. << >> \in Input
      BY DEF Input
  <1>2. PICK s \in Input : s = Varint(i, k)
      BY <1>1, VarintAny
  <1>3. ASSUME NEW t \in Input PROVE VarintRead(Then(s, t)) = Read("ok", i, t)
      BY <1>2, VarintAny
  <1>4. ASSUME NEW t \in Input PROVE ReadBlock(Then(s, t), max) = Invalid
    <2>1. PICK r : r = VarintRead(Then(s, t))
        OBVIOUS
    <2>2. r.kind = "ok" /\ r.value = i
        BY <1>3, <2>1, ReadFields
    <2> QED BY <2>1, <2>2 DEF ReadBlock
  <1>5. AsksBlock(s, max)
    <2> SUFFICES ASSUME NEW p \in Input, ProperOf(p, s) PROVE ReadBlock(p, max) = More
        BY DEF AsksBlock
    <2>1. PICK u \in Input : s = Then(p, u) /\ u # << >>
        BY DEF ProperOf
    <2>2. CASE VarintRead(p) = More
      <3>1. More.kind # "ok"
          BY ReadFields DEF More
      <3> QED BY <2>2, <3>1 DEF ReadBlock
    <2>3. CASE VarintRead(p) # More
      <3>1. PICK a, b \in Input, n \in Nat :
               /\ p = Then(a, b) /\ a # << >>
               /\ \A t \in Input : VarintRead(Then(a, t)) = Read("ok", n, t)
          BY <2>3, VarintSplits
      <3>2. PICK c \in Input : c = Then(b, u) /\ c # << >>
          BY <2>1, ThenTwo, LeftOver
      <3>3. s = Then(a, c)
          BY <2>1, <3>1, <3>2, ThenThree
      <3>4. VarintRead(s) = Read("ok", n, c)
          BY <3>1, <3>3
      <3>5. VarintRead(s) = Read("ok", i, << >>)
        <4>1. Then(s, << >>) = s
            BY NoInput
        <4> QED BY <1>1, <1>3, <4>1
      <3>6. c = << >>
          BY <3>4, <3>5, ReadFields
      <3> QED BY <3>2, <3>6
    <2> QED BY <2>2, <2>3
  <1> QED BY <1>2, <1>4, <1>5

\* A response whose message is not read, and one whose message is.
LEMMA MessageAsks ==
  ASSUME NEW x \in Input, Len(x) = 1, NEW a \in Input, AsksBlock(a, MaxMessageLength)
  PROVE  Asks(Then(x, a))
  <1> SUFFICES ASSUME NEW p \in Input, ProperOf(p, Then(x, a)) PROVE ReadTcpResponse(p) = More
      BY DEF Asks
  <1>1. PICK u \in Input : Then(x, a) = Then(p, u) /\ u # << >>
      BY DEF ProperOf
  <1>2. Len(p) \in Nat /\ (p = << >> <=> Len(p) = 0) /\ More.kind # "ok"
      BY NoInput, ReadFields DEF More
  <1>3. CASE Len(p) < 1
    <2>1. ReadExact(p, 1) = More
        BY <1>3 DEF ReadExact
    <2> QED BY <1>2, <2>1 DEF ReadTcpResponse
  <1>4. CASE Len(x) <= Len(p)
    <2>1. PICK e \in Input : p = Then(x, e) /\ a = Then(e, u)
      <3>1. Extends(p, u, x, a)
          BY <1>1, <1>4, LongerFirst
      <3> QED BY <3>1 DEF Extends
    <2>2. ReadBlock(e, MaxMessageLength) = More
        BY <1>1, <2>1 DEF AsksBlock, ProperOf
    <2> QED BY <1>2, <2>1, <2>2, ResponseOf
  <1> QED BY <1>2, <1>3, <1>4

LEMMA PaddingAsks ==
  ASSUME NEW x \in Input, Len(x) = 1, NEW a \in Input, NEW b \in Input, NEW v \in Input,
         Carries(a, v), AsksBlock(a, MaxMessageLength), AsksBlock(b, MaxPaddingLength)
  PROVE  Asks(Then(Then(x, a), b))
  <1>1. PICK y \in Input : y = Then(x, a)
      BY ThenTwo
  <1> SUFFICES ASSUME NEW p \in Input, ProperOf(p, Then(y, b)) PROVE ReadTcpResponse(p) = More
      BY <1>1 DEF Asks
  <1>2. PICK u \in Input : Then(y, b) = Then(p, u) /\ u # << >>
      BY DEF ProperOf
  <1>3. Len(p) \in Nat /\ Len(y) \in Nat /\ More.kind # "ok"
      BY NoInput, ReadFields DEF More
  <1>4. CASE Len(p) < Len(y)
    <2>1. PICK e \in Input : y = Then(p, e) /\ u = Then(e, b)
      <3>1. Extends(y, b, p, u)
          BY <1>2, <1>3, <1>4, LongerFirst
      <3> QED BY <3>1 DEF Extends
    <2>2. e # << >>
      <3>1. Then(p, << >>) = p
          BY NoInput
      <3> QED BY <1>3, <1>4, <2>1, <3>1
    <2>3. ProperOf(p, y)
        BY <2>1, <2>2 DEF ProperOf
    <2>4. Asks(y)
        BY <1>1, MessageAsks
    <2> QED BY <2>3, <2>4 DEF Asks
  <1>5. CASE Len(y) <= Len(p)
    <2>1. PICK e \in Input : p = Then(y, e) /\ b = Then(e, u)
      <3>1. Extends(p, u, y, b)
          BY <1>2, <1>5, LongerFirst
      <3> QED BY <3>1 DEF Extends
    <2>2. ReadBlock(e, MaxPaddingLength) = More
        BY <1>2, <2>1 DEF AsksBlock, ProperOf
    <2>3. PICK z \in Input : z = Then(a, e)
        BY ThenTwo
    <2>4. p = Then(x, z)
        BY <1>1, <2>1, <2>3, ThenThree
    <2>5. PICK m : m = ReadBlock(z, MaxMessageLength)
        OBVIOUS
    <2>6. m.kind = "ok" /\ m.rest = e
        BY <2>3, <2>5, ReadFields DEF Carries
    <2>7. ReadTcpResponse(Then(x, z)) =
             LET q == ReadBlock(m.rest, MaxPaddingLength)
             IN  IF m.kind # "ok" THEN m
                 ELSE IF q.kind # "ok" THEN q
                 ELSE IF ~ Utf8(m.value) THEN Invalid
                 ELSE Read("ok", [ok |-> x = <<0>>, message |-> m.value], q.rest)
        BY <2>5, ResponseOf
    <2> QED BY <1>3, <2>2, <2>4, <2>6, <2>7
  <1> QED BY <1>3, <1>4, <1>5

\* What begins with a begins with a block of v, which is not read before.
Holds(a, max, v) ==
    /\ v \in Input /\ a \in Input /\ AsksBlock(a, max)
    /\ \A t \in Input : ReadBlock(Then(a, t), max) = Read("ok", v, t)

\* What a block of a text is, to its reader.
LEMMA BlocksRead ==
  ASSUME NEW set, set \subseteq Texts, NEW max \in Nat, NEW a \in Blocks(set, max)
  PROVE  \E v \in set : Holds(a, max, v)
  <1>1. PICK v \in set : Len(v) <= max /\ a \in {w \o v : w \in Varints(Len(v))}
      BY DEF Blocks
  <1>2. v \in Input
      BY <1>1, TextAssumption DEF Input, Bytes
  <1>3. PICK k \in 1..4 : /\ Len(v) < Q * Power[Lengths[k] - 1]
                          /\ a = Varint(Len(v), k) \o v
      BY <1>1 DEF Varints
  <1>4. PICK w : w = Varint(Len(v), k)
      OBVIOUS
  <1>5. a = Then(w, v)
      BY <1>3, <1>4 DEF Then
  <1>6. ASSUME NEW t \in Input
        PROVE  Then(w, v) \in Input /\ ReadBlock(Then(Then(w, v), t), max) = Read("ok", v, t)
      BY <1>1, <1>2, <1>3, <1>4, BlockAny
  <1>7. a \in Input /\ Then(a, << >>) = a
      BY <1>2, <1>5, <1>6, NoInput
  <1>8. << >> \in Input
      BY <1>2, NoInput
  <1>9. ReadBlock(a, max) = Read("ok", v, << >>)
      BY <1>5, <1>6, <1>7, <1>8
  <1>10. AsksBlock(a, max)
      BY <1>7, <1>9, BlockAsks
  <1>11. Holds(a, max, v)
      BY <1>2, <1>5, <1>6, <1>7, <1>10 DEF Holds
  <1> QED BY <1>1, <1>11, Zenon

\* What a length that is too large is to it.
LEMMA TooLongRead ==
  ASSUME NEW max \in Nat, NEW a \in TooLong(max)
  PROVE  /\ a \in Input /\ AsksBlock(a, max)
         /\ \A t \in Input : ReadBlock(Then(a, t), max) = Invalid
  <1>1. max + 1 \in Int /\ Byte + max + 1 \in Int /\ Q * Power[3] - 1 \in Int
    <2>1. PICK p \in Nat : p = Power[3]
        BY Powers
    <2>2. Q * p \in Nat /\ Byte \in Nat
        BY ByteFacts
    <2> QED BY <2>1, <2>2
  <1>2. PICK i \in Int : i > max /\ a \in Varints(i)
      BY <1>1 DEF TooLong
  <1>3. i \in Nat
      BY <1>2
  <1>4. PICK k \in 1..4 : i < Q * Power[Lengths[k] - 1] /\ a = Varint(i, k)
      BY <1>2 DEF Varints
  <1> QED BY <1>2, <1>3, <1>4, LengthAsks

\* The verdicts on the beginnings of a response r: until it is whole more is asked
\* for, and then it is the answer ok, or an error.
Judged(r, v) ==
    /\ r \in Input /\ Asks(r)
    /\ \A d \in Input : ReadTcpResponse(Then(r, d)) = Read("ok", v, d)

Rejected(r) ==
    /\ r \in Input /\ Asks(r)
    /\ \A d \in Input : ReadTcpResponse(Then(r, d)) = Invalid

\* Whatever the status, the message and the padding.
LEMMA PartsJudged ==
  ASSUME NEW s \in Bytes, NEW a \in Input, NEW b \in Input, NEW v \in Input,
         Carries(a, v), AsksBlock(a, MaxMessageLength), AsksBlock(b, MaxPaddingLength)
  PROVE  LET r == Then(Then(<<s>>, a), b)
         IN  /\ (\A t \in Input : ReadBlock(Then(b, t), MaxPaddingLength) = Invalid)
                   => Rejected(r)
             /\ (\E w : \A t \in Input : ReadBlock(Then(b, t), MaxPaddingLength) = Read("ok", w, t))
                   => IF Utf8(v) THEN Judged(r, [ok |-> s = 0, message |-> v]) ELSE Rejected(r)
  <1>1. PICK x \in Input : x = <<s>> /\ Len(x) = 1 /\ (x = <<0>> <=> s = 0)
    <2>1. <<s>> \in Input
        BY DEF Input
    <2>2. Len(<<s>>) = 1 /\ <<s>>[1] = s /\ <<0>>[1] = 0
        OBVIOUS
    <2>3. <<s>> = <<0>> <=> s = 0
        BY <2>2
    <2> QED BY <2>1, <2>2, <2>3, Zenon
  <1>2. PICK r \in Input : r = Then(Then(x, a), b)
      BY ThenTwo
  <1>3. Asks(r)
      BY <1>1, <1>2, PaddingAsks
  <1>4. Invalid.kind = "invalid"
      BY ReadFields DEF Invalid
  <1>5. PICK w : w = [ok |-> x = <<0>>, message |-> v]
      OBVIOUS
  <1>6. w = [ok |-> s = 0, message |-> v]
      BY <1>1, <1>5
  <1>7. ASSUME NEW t \in Input, NEW q, q = ReadBlock(Then(b, t), MaxPaddingLength)
        PROVE  ReadTcpResponse(Then(r, t)) =
                  IF q.kind # "ok" THEN q
                  ELSE IF ~ Utf8(v) THEN Invalid ELSE Read("ok", w, q.rest)
    <2>1. PICK c \in Input : c = Then(b, t)
        BY ThenTwo
    <2>2. PICK d \in Input : d = Then(a, c)
        BY ThenTwo
    <2>3. Then(r, t) = Then(x, d)
      <3>1. PICK z \in Input : z = Then(x, a)
          BY ThenTwo
      <3>2. Then(Then(z, b), t) = Then(z, c)
          BY <2>1, ThenThree
      <3>3. Then(z, c) = Then(x, d)
          BY <2>2, <3>1, ThenThree
      <3> QED BY <1>2, <3>1, <3>2, <3>3, Zenon
    <2>4. PICK m : m = ReadBlock(d, MaxMessageLength)
        OBVIOUS
    <2>5. m.kind = "ok" /\ m.value = v /\ m.rest = c
        BY <2>2, <2>4, ReadFields DEF Carries
    <2>6. q = ReadBlock(m.rest, MaxPaddingLength)
        BY <1>7, <2>1, <2>5
    <2>7. ReadTcpResponse(Then(x, d)) =
             IF m.kind # "ok" THEN m
             ELSE IF q.kind # "ok" THEN q
             ELSE IF ~ Utf8(m.value) THEN Invalid
             ELSE Read("ok", [ok |-> x = <<0>>, message |-> m.value], q.rest)
        BY <1>1, <2>4, <2>6, ResponseOf
    <2> QED BY <1>5, <2>3, <2>5, <2>7
  <1>8. ASSUME \A t \in Input : ReadBlock(Then(b, t), MaxPaddingLength) = Invalid
        PROVE  Rejected(r)
    <2>1. ASSUME NEW t \in Input PROVE ReadTcpResponse(Then(r, t)) = Invalid
      <3>1. Invalid = ReadBlock(Then(b, t), MaxPaddingLength)
          BY <1>8
      <3> QED BY <1>4, <1>7, <3>1
    <2> QED BY <1>3, <2>1 DEF Rejected
  <1>9. ASSUME NEW e, \A t \in Input : ReadBlock(Then(b, t), MaxPaddingLength) = Read("ok", e, t)
        PROVE  IF Utf8(v) THEN Judged(r, w) ELSE Rejected(r)
    <2>1. ASSUME NEW t \in Input
          PROVE  ReadTcpResponse(Then(r, t)) = IF ~ Utf8(v) THEN Invalid ELSE Read("ok", w, t)
      <3>1. PICK q : q = ReadBlock(Then(b, t), MaxPaddingLength)
          OBVIOUS
      <3>2. q.kind = "ok" /\ q.rest = t
          BY <1>9, <3>1, ReadFields
      <3> QED BY <1>7, <3>1, <3>2
    <2> QED BY <1>3, <2>1 DEF Judged, Rejected
  <1> QED BY <1>1, <1>2, <1>6, <1>8, <1>9

\* A response is its parts.
HasParts(r, S, A, B) == \E s \in S, a \in A, b \in B : r = Then(Then(<<s>>, a), b)

LEMMA OfParts ==
  ASSUME NEW S, NEW A, NEW B, NEW r \in Of(S, A, B)
  PROVE  Len(r) = HeaderLen /\ HasParts(r, S, A, B)
  <1>1. PICK t \in S \X A \X B : r = <<t[1]>> \o t[2] \o t[3] /\ Len(r) = HeaderLen
      BY DEF Of
  <1>2. PICK s \in S, a \in A, b \in B : s = t[1] /\ a = t[2] /\ b = t[3]
      BY <1>1
  <1>3. r = Then(Then(<<s>>, a), b)
      BY <1>1, <1>2, Zenon DEF Then
  <1> QED BY <1>1, <1>3, Zenon DEF HasParts

\* What the blocks hold.
LEMMA DecodableHolds ==
  ASSUME NEW a \in Decodable
  PROVE  \E v : Holds(a, MaxMessageLength, v) /\ Utf8(v)
  <1>1. {m \in Texts : Utf8(m)} \subseteq Texts /\ MaxMessageLength \in Nat
      BY ByteFacts
  <1>2. PICK v \in {m \in Texts : Utf8(m)} : Holds(a, MaxMessageLength, v)
      BY <1>1, BlocksRead DEF Decodable
  <1> QED BY <1>2

LEMMA UndecodableHolds ==
  ASSUME NEW a \in Undecodable
  PROVE  \E v : Holds(a, MaxMessageLength, v) /\ ~ Utf8(v)
  <1>1. {m \in Texts : ~ Utf8(m)} \subseteq Texts /\ MaxMessageLength \in Nat
      BY ByteFacts
  <1>2. PICK v \in {m \in Texts : ~ Utf8(m)} : Holds(a, MaxMessageLength, v)
      BY <1>1, BlocksRead DEF Undecodable
  <1> QED BY <1>2

LEMMA PaddingHolds ==
  ASSUME NEW b \in Paddings
  PROVE  \E w : Holds(b, MaxPaddingLength, w)
  <1>1. Texts \subseteq Texts /\ MaxPaddingLength \in Nat
      BY ByteFacts
  <1> QED BY <1>1, BlocksRead DEF Paddings

\* Responses that carry an answer, which is the status.
Answers(r, S) ==
    \E v : Judged(r, v) /\ v.ok \in BOOLEAN /\ \E s \in S : v.ok <=> s = 0

LEMMA DecodableJudged ==
  ASSUME NEW S, S \subseteq Bytes, NEW r \in Of(S, Decodable, Paddings)
  PROVE  Answers(r, S)
  <1>1. PICK s \in S, a \in Decodable, b \in Paddings : r = Then(Then(<<s>>, a), b)
    <2>1. HasParts(r, S, Decodable, Paddings)
        BY OfParts
    <2> QED BY <2>1 DEF HasParts
  <1>2. MaxMessageLength \in Nat /\ MaxPaddingLength \in Nat /\ s \in Bytes
      BY ByteFacts
  <1>3. PICK v : Holds(a, MaxMessageLength, v) /\ Utf8(v)
      BY <1>2, DecodableHolds
  <1>4. PICK w : Holds(b, MaxPaddingLength, w)
      BY PaddingHolds
  <1>5. Judged(r, [ok |-> s = 0, message |-> v])
      BY <1>1, <1>2, <1>3, <1>4, PartsJudged DEF Holds, Carries
  <1>6. PICK u : u = [ok |-> s = 0, message |-> v]
      OBVIOUS
  <1>7. u.ok \in BOOLEAN /\ (u.ok <=> s = 0)
      BY <1>6
  <1> QED BY <1>5, <1>6, <1>7 DEF Answers

\* Responses that do not.
LEMMA LongMessageRejected ==
  ASSUME NEW S, S \subseteq Bytes, NEW r \in Of(S, TooLong(MaxMessageLength), {<< >>})
  PROVE  Rejected(r)
  <1>1. PICK s \in S, a \in TooLong(MaxMessageLength) : r = Then(Then(<<s>>, a), << >>)
    <2>1. HasParts(r, S, TooLong(MaxMessageLength), {<< >>})
        BY OfParts
    <2> QED BY <2>1 DEF HasParts
  <1>2. MaxMessageLength \in Nat
      BY ByteFacts
  <1>3. /\ a \in Input /\ AsksBlock(a, MaxMessageLength)
        /\ \A t \in Input : ReadBlock(Then(a, t), MaxMessageLength) = Invalid
      BY <1>2, TooLongRead
  <1>4. PICK x \in Input : x = <<s>> /\ Len(x) = 1
    <2>1. <<s>> \in Input
        BY DEF Input
    <2> QED BY <2>1
  <1>5. r = Then(x, a) /\ r \in Input
      BY <1>1, <1>3, <1>4, NoInput, ThenTwo
  <1>6. Asks(r)
      BY <1>3, <1>4, <1>5, MessageAsks
  <1>7. ASSUME NEW t \in Input PROVE ReadTcpResponse(Then(r, t)) = Invalid
    <2>1. PICK y \in Input : y = Then(a, t)
        BY <1>3, ThenTwo
    <2>2. Then(r, t) = Then(x, y)
        BY <1>3, <1>5, <2>1, ThenThree
    <2>3. PICK m : m = ReadBlock(y, MaxMessageLength)
        OBVIOUS
    <2>4. m = Invalid /\ m.kind # "ok"
        BY <1>3, <2>1, <2>3, ReadFields DEF Invalid
    <2>5. ReadTcpResponse(Then(x, y)) =
             LET p == ReadBlock(m.rest, MaxPaddingLength)
             IN  IF m.kind # "ok" THEN m
                 ELSE IF p.kind # "ok" THEN p
                 ELSE IF ~ Utf8(m.value) THEN Invalid
                 ELSE Read("ok", [ok |-> x = <<0>>, message |-> m.value], p.rest)
        BY <1>4, <2>3, ResponseOf
    <2> QED BY <2>2, <2>4, <2>5
  <1> QED BY <1>5, <1>6, <1>7 DEF Rejected

LEMMA LongPaddingRejected ==
  ASSUME NEW S, S \subseteq Bytes,
         NEW r \in Of(S, Decodable \cup Undecodable, TooLong(MaxPaddingLength))
  PROVE  Rejected(r)
  <1>1. PICK s \in S, a \in Decodable \cup Undecodable, b \in TooLong(MaxPaddingLength) :
           r = Then(Then(<<s>>, a), b)
    <2>1. HasParts(r, S, Decodable \cup Undecodable, TooLong(MaxPaddingLength))
        BY OfParts
    <2> QED BY <2>1 DEF HasParts
  <1>2. MaxMessageLength \in Nat /\ MaxPaddingLength \in Nat /\ s \in Bytes
      BY ByteFacts
  <1>3. PICK v : Holds(a, MaxMessageLength, v)
      BY <1>1, <1>2, DecodableHolds, UndecodableHolds, Zenon
  <1>4. /\ b \in Input /\ AsksBlock(b, MaxPaddingLength)
        /\ \A t \in Input : ReadBlock(Then(b, t), MaxPaddingLength) = Invalid
      BY <1>2, TooLongRead
  <1> QED BY <1>1, <1>2, <1>3, <1>4, PartsJudged DEF Holds, Carries

LEMMA UndecodableRejected ==
  ASSUME NEW S, S \subseteq Bytes, NEW r \in Of(S, Undecodable, Paddings)
  PROVE  Rejected(r)
  <1>1. PICK s \in S, a \in Undecodable, b \in Paddings : r = Then(Then(<<s>>, a), b)
    <2>1. HasParts(r, S, Undecodable, Paddings)
        BY OfParts
    <2> QED BY <2>1 DEF HasParts
  <1>2. MaxMessageLength \in Nat /\ MaxPaddingLength \in Nat /\ s \in Bytes
      BY ByteFacts
  <1>3. PICK v : Holds(a, MaxMessageLength, v) /\ ~ Utf8(v)
      BY <1>2, UndecodableHolds
  <1>4. PICK w : Holds(b, MaxPaddingLength, w)
      BY PaddingHolds
  <1> QED BY <1>1, <1>2, <1>3, <1>4, PartsJudged DEF Holds, Carries

\* What the response means, by the answer it is of.
LEMMA ResponsesJudged ==
  ASSUME NEW kind \in {"ok", "refused", "invalid"}, NEW r \in Responses[kind]
  PROVE  /\ Len(r) = HeaderLen
         /\ IF kind = "invalid" THEN Rejected(r)
            ELSE \E v : Judged(r, v) /\ v.ok = (kind = "ok")
  <1>1. {0} \subseteq Bytes /\ {0, 1} \subseteq Bytes /\ {1, Byte - 1} \subseteq Bytes
      BY ByteFacts DEF Bytes
  <1>2. Byte - 1 # 0
      BY ByteFacts
  <1>3. CASE kind = "ok"
    <2>1. r \in Of({0}, Decodable, Paddings)
        BY <1>3 DEF Responses
    <2>2. Answers(r, {0})
        BY <1>1, <2>1, DecodableJudged
    <2>3. PICK v : Judged(r, v) /\ v.ok = TRUE
        BY <2>2 DEF Answers
    <2> QED BY <1>3, <2>1, <2>3, OfParts
  <1>4. CASE kind = "refused"
    <2>1. r \in Of({1, Byte - 1}, Decodable, Paddings)
        BY <1>4 DEF Responses
    <2>2. Answers(r, {1, Byte - 1})
        BY <1>1, <2>1, DecodableJudged
    <2>3. PICK v : Judged(r, v) /\ v.ok = FALSE
      <3>1. ASSUME NEW s \in {1, Byte - 1} PROVE s # 0
          BY ByteFacts
      <3> QED BY <2>2, <3>1 DEF Answers
    <2> QED BY <1>4, <2>1, <2>3, OfParts
  <1>5. CASE kind = "invalid"
    <2>1. \/ r \in Of({0, 1}, TooLong(MaxMessageLength), {<< >>})
          \/ r \in Of({0, 1}, Decodable \cup Undecodable, TooLong(MaxPaddingLength))
          \/ r \in Of({0, 1}, Undecodable, Paddings)
        BY <1>5 DEF Responses
    <2> QED BY <1>1, <1>5, <2>1, OfParts, LongMessageRejected, LongPaddingRejected,
               UndecodableRejected
  <1> QED BY <1>3, <1>4, <1>5

\* The first n bytes are a beginning of the response, or the response and some data.
Adds(p, r, n) == \E e \in Input : p = Then(r, e) /\ Len(e) = n - Len(r)

LEMMA FirstBytes ==
  ASSUME NEW r \in Input, NEW d \in Input, NEW n \in Nat, n <= Len(r) + Len(d),
         NEW p, p = SubSeq(r \o d, 1, n)
  PROVE  /\ n < Len(r) => p \in Input /\ ProperOf(p, r)
         /\ n >= Len(r) => Adds(p, r, n)
  <1>1. PICK s \in Input : s = Then(r, d) /\ s = r \o d /\ Len(s) = Len(r) + Len(d)
    <2>1. Then(r, d) \in Input /\ Then(r, d) = r \o d /\ Len(Then(r, d)) = Len(r) + Len(d)
        BY Joined DEF Input, Then
    <2> QED BY <2>1, Zenon
  <1>2. Len(r) \in Nat /\ Len(d) \in Nat
      BY NoInput
  <1>3. PICK q, u \in Input : s = Then(q, u) /\ Len(q) = n
    <2>1. ~ (Len(s) < n)
        BY <1>1, <1>2
    <2> QED BY <2>1, ExactSplits, Zenon
  <1>4. p = q
    <2>1. ReadExact(s, n) = Read("ok", q, u)
        BY <1>3, ExactTakes, Zenon
    <2>2. ReadExact(s, n) = Read("ok", SubSeq(s, 1, n), SubSeq(s, n + 1, Len(s)))
        BY <1>1, <1>2 DEF ReadExact
    <2>3. PICK z : z = SubSeq(s, n + 1, Len(s))
        OBVIOUS
    <2>4. p = SubSeq(s, 1, n)
        BY <1>1
    <2>5. Read("ok", q, u) = Read("ok", p, z)
        BY <2>1, <2>2, <2>3, <2>4, Zenon
    <2>6. Read("ok", q, u).value = q /\ Read("ok", p, z).value = p
        BY DEF Read
    <2> QED BY <2>5, <2>6, Zenon
  <1>5. ASSUME n < Len(r) PROVE p \in Input /\ ProperOf(p, r)
    <2>1. Extends(r, d, q, u)
      <3>1. Len(q) <= Len(r) /\ Then(q, u) = Then(r, d)
          BY <1>1, <1>2, <1>3, <1>5
      <3> QED BY <3>1, LongerFirst
    <2>2. PICK e \in Input : r = Then(q, e)
        BY <2>1 DEF Extends
    <2>3. e # << >>
      <3>1. Then(q, << >>) = q
          BY NoInput
      <3> QED BY <1>2, <1>3, <1>5, <2>2, <3>1
    <2>4. ProperOf(q, r)
        BY <2>2, <2>3 DEF ProperOf
    <2> QED BY <1>4, <2>4
  <1>6. ASSUME n >= Len(r) PROVE Adds(p, r, n)
    <2>1. Extends(q, u, r, d)
      <3>1. Len(r) <= Len(q) /\ Then(r, d) = Then(q, u)
          BY <1>1, <1>2, <1>3, <1>6
      <3> QED BY <3>1, LongerFirst
    <2>2. PICK e \in Input : q = Then(r, e)
        BY <2>1 DEF Extends
    <2>3. Len(q) = Len(r) + Len(e) /\ Len(e) \in Nat
        BY <2>2, Joined DEF Input, Then
    <2>4. Len(e) = n - Len(r)
        BY <1>2, <1>3, <2>3
    <2> QED BY <1>4, <2>2, <2>4, Zenon DEF Adds
  <1> QED BY <1>5, <1>6

\* The verdicts, by how much of the response is there.
LEMMA VerdictsAre ==
  ASSUME NEW kind \in {"ok", "refused", "invalid"}, NEW n \in 0..(HeaderLen + DataLen),
         NEW v \in Verdicts[kind][n]
  PROVE  /\ n < HeaderLen => v = More
         /\ n >= HeaderLen /\ kind = "invalid" => v = Invalid
         /\ n >= HeaderLen /\ kind # "invalid" =>
               /\ v.kind = "ok" /\ v.value.ok = (kind = "ok")
               /\ n - Len(v.rest) = HeaderLen
  <1>1. DOMAIN Responses = {"ok", "refused", "invalid"} /\ HeaderLen \in Nat /\ DataLen \in Nat
      BY StreamAssumption DEF Responses
  <1>2. PICK t \in Responses[kind] \X Follow : v = ReadTcpResponse(SubSeq(t[1] \o t[2], 1, n))
      BY <1>1 DEF Verdicts
  <1>3. PICK r \in Responses[kind], d \in Follow : r = t[1] /\ d = t[2]
      BY <1>2
  <1>4. PICK p : p = SubSeq(r \o d, 1, n) /\ v = ReadTcpResponse(p)
      BY <1>2, <1>3, Zenon
  <1>5. d \in Input /\ Len(d) = DataLen
    <2>1. PICK b \in Bytes : d = [i \in 1..DataLen |-> b]
        BY <1>2, ByteFacts DEF Follow, Bytes
    <2> QED BY <1>1, <2>1 DEF Input
  <1>6. /\ Len(r) = HeaderLen
        /\ IF kind = "invalid" THEN Rejected(r)
           ELSE \E w : Judged(r, w) /\ w.ok = (kind = "ok")
      BY ResponsesJudged
  <1>7. r \in Input /\ Asks(r)
      BY <1>6 DEF Rejected, Judged
  <1>8. n \in Nat /\ n <= Len(r) + Len(d)
      BY <1>1, <1>5, <1>6
  <1>9. CASE n < HeaderLen
    <2>1. p \in Input /\ ProperOf(p, r)
        BY <1>4, <1>5, <1>6, <1>7, <1>8, <1>9, FirstBytes
    <2>2. v = More
        BY <1>4, <1>7, <2>1 DEF Asks
    <2> QED BY <1>1, <1>8, <1>9, <2>2
  <1>10. CASE n >= HeaderLen
    <2>1. PICK e \in Input : p = Then(r, e) /\ Len(e) = n - HeaderLen
      <3>1. Adds(p, r, n)
          BY <1>4, <1>5, <1>6, <1>7, <1>8, <1>10, FirstBytes
      <3> QED BY <1>6, <3>1 DEF Adds
    <2>2. v = ReadTcpResponse(Then(r, e))
        BY <1>4, <2>1
    <2>3. CASE kind = "invalid"
        BY <1>1, <1>6, <1>8, <1>10, <2>2, <2>3 DEF Rejected
    <2>4. CASE kind # "invalid"
      <3>1. PICK w : Judged(r, w) /\ w.ok = (kind = "ok")
          BY <1>6, <2>4
      <3>2. v = Read("ok", w, e)
          BY <2>2, <3>1 DEF Judged
      <3>3. v.kind = "ok" /\ v.value = w /\ v.rest = e
          BY <3>2, ReadFields
      <3>4. n - Len(v.rest) = HeaderLen
          BY <1>1, <1>8, <2>1, <3>3
      <3> QED BY <1>1, <1>8, <1>10, <2>4, <3>1, <3>3, <3>4
    <2> QED BY <2>3, <2>4
  <1> QED BY <1>1, <1>8, <1>9, <1>10

\* The requests of the run are requests.
LEMMA RequestsAre == RequestsRead
  <1> SUFFICES ASSUME NEW n \in 0..MaxRequest, NEW k \in 0..MaxRequest
               PROVE  ReadTcpRequest(WriteTcpRequest([i \in 1..n |-> i % Byte], [i \in 1..k |-> 1]))
                        = Read("ok", <<FrameTypeTcpRequest, [i \in 1..n |-> i % Byte]>>, << >>)
      BY DEF RequestsRead
  <1>1. MaxRequest \in Nat /\ MaxRequest < Q * Power[7] /\ n \in Nat /\ k \in Nat
      BY TextAssumption
  <1>2. PICK a \in Input : a = [i \in 1..n |-> i % Byte] /\ Len(a) = n
    <2>1. \A i \in 1..n : i % Byte \in Bytes
        BY ByteFacts DEF Bytes
    <2>2. [i \in 1..n |-> i % Byte] \in Seq(Bytes) /\ Len([i \in 1..n |-> i % Byte]) = n
        BY <1>1, <2>1
    <2> QED BY <2>2 DEF Input
  <1>3. PICK b \in Input : b = [i \in 1..k |-> 1] /\ Len(b) = k
    <2>1. 1 \in Bytes
        BY ByteFacts DEF Bytes
    <2>2. [i \in 1..k |-> 1] \in Seq(Bytes) /\ Len([i \in 1..k |-> 1]) = k
        BY <1>1, <2>1
    <2> QED BY <2>2 DEF Input
  <1>4. PICK type : type = VarintRead(WriteTcpRequest(a, b))
      OBVIOUS
  <1>5. PICK addr : addr = ReadBlock(type.rest, MaxRequest)
      OBVIOUS
  <1>6. PICK pad : pad = ReadBlock(addr.rest, MaxRequest)
      OBVIOUS
  <1>7. Len(a) <= MaxRequest /\ Len(b) <= MaxRequest
      BY <1>1, <1>2, <1>3
  <1>8. /\ type.kind = "ok" /\ type.value = FrameTypeTcpRequest
        /\ addr.kind = "ok" /\ addr.value = a
        /\ pad = Read("ok", b, << >>)
      BY <1>1, <1>4, <1>5, <1>6, <1>7, RequestRead
  <1>9. pad.kind = "ok" /\ pad.rest = << >>
      BY <1>8, ReadFields
  <1>10. ReadTcpRequest(WriteTcpRequest(a, b)) = Read("ok", <<FrameTypeTcpRequest, a>>, << >>)
      BY <1>4, <1>5, <1>6, <1>8, <1>9 DEF ReadTcpRequest
  <1> QED BY <1>2, <1>3, <1>10

\* The client's reader and the server's writer agree, whatever the texts, the
\* limits and the size of chunks: tcp's request is read as it was meant, and in
\* every state of the response reader the parser's verdict on what it has read
\* is the one that the state machine of the connection goes by.
THEOREM ParserMeans == Spec => []ParserAgrees
  <1>1. ASSUME StreamInv PROVE ParserAgrees
    <2>1. answer \in {"ok", "refused", "invalid"} /\ Len(buf) \in Nat /\ HeaderLen \in Nat \ {0}
        BY <1>1, StreamAssumption DEF StreamInv, TypeOK
    <2>2. Len(buf) \in 0..(HeaderLen + DataLen)
        BY <1>1, StreamAssumption
           DEF StreamInv, TypeOK, LeftoverIsRest, TakenArrived, Taken, WireLen
    <2>3. ASSUME NEW v \in Verdicts[answer][Len(buf)]
          PROVE  /\ v.kind = "invalid" <=> ResponseInvalid
                 /\ v.kind = "ok" <=> ResponseEnd > 0
                 /\ v.kind = "ok" =>
                       /\ v.value.ok = (answer = "ok")
                       /\ Len(buf) - Len(v.rest) = ResponseEnd
      <3>1. More.kind = "more" /\ Invalid.kind = "invalid"
          BY ReadFields DEF More, Invalid
      <3>2. /\ Len(buf) < HeaderLen => v = More
            /\ Len(buf) >= HeaderLen /\ answer = "invalid" => v = Invalid
            /\ Len(buf) >= HeaderLen /\ answer # "invalid" =>
                  /\ v.kind = "ok" /\ v.value.ok = (answer = "ok")
                  /\ Len(buf) - Len(v.rest) = HeaderLen
          BY <2>1, <2>2, <2>3, VerdictsAre
      <3> QED BY <2>1, <3>1, <3>2 DEF ResponseInvalid, ResponseEnd
    <2> QED BY <2>3, RequestsAre DEF ParserAgrees
  <1> QED BY <1>1, StreamInit, StreamStep, PTL DEF Spec
=============================================================================
