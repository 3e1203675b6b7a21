---------------------------- MODULE DefragProofs ----------------------------
(* Theorems about Defrag, Frag and UdpWire, for every number of messages,   *)
(* fragments and packet ids, every width of the count, and every size of    *)
(* payloads, headers and paths.                                             *)
EXTENDS UdpWire, FiniteSetTheorems, SequenceTheorems, TLAPS

\* The theorems about the bytes of a message, which say nothing of a TCP stream.
P == INSTANCE ProtocolProofs WITH
        HeaderLen <- 1, DataLen <- 0, Chunk <- 1, MaxBuf <- 1,
        Texts <- {}, MaxRequest <- MaxMessageLength,
        fastOpen <- FALSE, answer <- "ok", arrived <- 0, fin <- "no",
        state <- "new", buf <- << >>, leftover <- << >>, pos <- 0,
        got <- << >>, ended <- "no"

\* What they assume.
LEMMA WireHolds == P!WireAssumption
  BY UdpAssumption DEF P!WireAssumption, W!WireAssumption

LEMMA StreamHolds == P!StreamAssumption
  BY DEF P!StreamAssumption

LEMMA TextHolds == P!TextAssumption
  BY UdpAssumption DEF P!TextAssumption, W!WireAssumption, W!Power, P!Power, W!Byte, P!Byte

USE DefragAssumption

\* The positions of a message of n fragments: there are n of them.
LEMMA PositionsFacts ==
  ASSUME NEW n \in Nat
  PROVE  /\ IsFiniteSet(Positions(n))
         /\ Cardinality(Positions(n)) = n
  <1>1. IsFiniteSet(0 .. n - 1) /\ Cardinality(0 .. n - 1) = n
      BY FS_Interval
  <1> QED BY <1>1 DEF Positions

\* What an arriving fragment leaves alone, and the type of its history.
LEMMA ArrivesFacts ==
  ASSUME TypeOK, NEW m \in Msgs, NEW i \in Positions(Pieces[m]), Arrives(m, i)
  PROVE  /\ copies' \in [Msgs -> [Positions(U8) -> 0 .. MaxCopies]]
         /\ Pieces[m] \in Positions(U8) /\ Pieces[m] \in Nat /\ i \in Nat /\ i < Pieces[m]
         /\ i \in Positions(U8) /\ <<m, i>> \in Payload /\ <<m, i>> # None
         /\ sent[m] \in PktIds
  <1>1. /\ Pieces[m] \in 1 .. U8 - 1 /\ i \in 0 .. Pieces[m] - 1
        /\ U8 \in Nat
      BY DEF Positions
  <1>2. i \in Positions(U8) /\ Pieces[m] \in Positions(U8)
      BY <1>1 DEF Positions
  <1>3. copies' \in [Msgs -> [Positions(U8) -> 0 .. MaxCopies]]
    <2>1. copies[m][i] + 1 \in 0 .. MaxCopies
        BY <1>2 DEF Arrives, TypeOK
    <2> QED BY <1>2, <2>1 DEF Arrives, TypeOK
  <1>4. <<m, i>> \in Payload /\ <<m, i>> # None
      BY <1>2 DEF Payload, Positions
  <1>5. sent[m] \in PktIds
      BY DEF Arrives, IsSent, TypeOK
  <1> QED BY <1>1, <1>2, <1>3, <1>4, <1>5

\* The empty Defragger satisfies the invariant.
LEMMA InitInv == Init => DefragInv
  <1> SUFFICES ASSUME Init PROVE DefragInv
      OBVIOUS
  <1>1. 0 \in Positions(U8) /\ Positions(0) = {}
      BY DEF Positions
  <1> QED BY <1>1 DEF Init, DefragInv, TypeOK, Holds, Counted, NeverMixed
\* Sending a message changes nothing the Defragger holds, and can only make
\* packet ids collide.
LEMMA SendStep ==
  ASSUME DefragInv, NEW m \in Msgs, Send(m)
  PROVE  DefragInv'
  <1> USE DEF DefragInv
  <1>1. PICK p \in PktIds : sent' = [sent EXCEPT ![m] = p]
      BY DEF Send
  <1>2. UNCHANGED <<defragger, out, history>> /\ sent[m] = None
      BY DEF Send, IsSent
  <1>3. /\ sent' \in [Msgs -> PktIds \cup {None}]
        /\ \A n \in Msgs : sent[n] # None => sent'[n] = sent[n]
      BY <1>1, <1>2 DEF TypeOK
  <1>4. TypeOK'
      BY <1>2, <1>3 DEF TypeOK, defragger, history
  <1>5. Holds'
      BY <1>2, <1>3 DEF Holds, IsSent, Foreign, defragger, history
  <1>6. Counted'
      BY <1>2 DEF Counted, defragger, history
  <1>7. NeverMixed'
    <2>1. NoCollision' => NoCollision
        BY <1>3 DEF NoCollision, IsSent
    <2> QED BY <1>2, <1>3, <2>1 DEF NeverMixed, IsSent, Whole
  <1> QED BY <1>4, <1>5, <1>6, <1>7

\* A message that fits is returned as it was sent.
LEMMA WholeStep ==
  ASSUME DefragInv, NEW m \in Msgs, FeedWhole(m)
  PROVE  DefragInv'
  <1> USE DEF DefragInv
  <1>1. 0 \in Positions(Pieces[m])
      BY DEF FeedWhole, Arrives
  <1>2. copies' \in [Msgs -> [Positions(U8) -> 0 .. MaxCopies]]
      BY <1>1, ArrivesFacts DEF FeedWhole
  <1>3. times' \in [Msgs -> Nat]
      BY DEF FeedWhole, TypeOK
  <1>4. TypeOK'
      BY <1>2, <1>3 DEF FeedWhole, TypeOK, defragger
  <1>5. Holds' /\ Counted'
      BY DEF FeedWhole, Holds, Counted, IsSent, Foreign, defragger
  <1>6. NeverMixed'
      BY DEF FeedWhole, Arrives, NeverMixed, IsSent, Whole
  <1> QED BY <1>4, <1>5, <1>6

\* The first fragment of another message starts a new collection.
LEMMA NewStep ==
  ASSUME DefragInv, NEW m \in Msgs, NEW i \in Positions(Pieces[m]), FeedNew(m, i)
  PROVE  DefragInv'
  <1> USE DEF DefragInv
  <1> DEFINE n == Pieces[m]
  <1>1. /\ copies' \in [Msgs -> [Positions(U8) -> 0 .. MaxCopies]]
        /\ n \in Positions(U8) /\ n \in Nat /\ i \in Nat /\ i < n
        /\ <<m, i>> \in Payload /\ <<m, i>> # None /\ sent[m] \in PktIds /\ n > 1
      BY ArrivesFacts DEF FeedNew
  <1>2. /\ pktId' = sent[m] /\ total' = n /\ count' = 1 /\ out' = None
        /\ since' = {i} /\ runs' = 0 /\ sent' = sent /\ times' = times
        /\ frags' = [j \in Positions(n) |-> IF j = i THEN <<m, i>> ELSE None]
      BY DEF FeedNew
  <1> HIDE DEF n
  <1>3. TypeOK'
    <2>1. count' \in Positions(U8)
        BY <1>1, <1>2 DEF Positions
    <2>2. frags' \in [Positions(n) -> Payload \cup {None}]
        BY <1>1, <1>2
    <2>3. since' \subseteq Positions(n)
        BY <1>2 DEF n
    <2> QED BY <1>1, <1>2, <2>1, <2>2, <2>3 DEF TypeOK
  <1>4. Holds'
    <2> SUFFICES ASSUME NEW j \in Positions(n), frags'[j] # None
                 PROVE  /\ j \in since'
                        /\ \E k \in Msgs : IsSent(k)' /\ ~Foreign(k)' /\ frags'[j] = <<k, j>>
        BY <1>2 DEF Holds
    <2>1. j = i
        BY <1>2
    <2>2. IsSent(m)' /\ ~Foreign(m)'
        BY <1>2 DEF FeedNew, Arrives, IsSent, Foreign, n
    <2> QED BY <1>2, <2>1, <2>2
  <1>5. Counted'
    <2>1. since' = {j \in Positions(n) : frags'[j] # None}
        BY <1>1, <1>2 DEF n
    <2>2. Cardinality(since') = 1
        BY <1>2, FS_Singleton
    <2>3. since' # Positions(n)
        BY <1>1, <2>2, PositionsFacts
    <2> QED BY <1>1, <1>2, <2>1, <2>2, <2>3 DEF Counted
  <1>6. NeverMixed'
      BY <1>2 DEF NeverMixed
  <1> QED BY <1>3, <1>4, <1>5, <1>6

\* Filling a free position: before the message was returned it is a new one,
\* and afterwards it is the one position that was left free.
LEMMA FillsFacts ==
  ASSUME DefragInv, NEW m \in Msgs, NEW i \in Positions(Pieces[m]), Fills(m, i)
  PROVE  /\ total = Pieces[m] /\ total \in Nat /\ total > 1 /\ total \in Positions(U8)
         /\ sent[m] = pktId /\ IsSent(m) /\ sent' = sent /\ i \in Positions(total)
         /\ <<m, i>> \in Payload /\ <<m, i>> # None
         /\ since' = since \cup {i} /\ since' \subseteq Positions(total)
         /\ count' \in Positions(U8)
         /\ copies' \in [Msgs -> [Positions(U8) -> 0 .. MaxCopies]]
         /\ runs = 0 => /\ i \notin since
                        /\ count' = Cardinality(since')
                        /\ (count' = total <=> since' = Positions(total))
         /\ runs = 1 => /\ since = Positions(total)
                        /\ count' # total
                        /\ \A j \in Positions(total) : frags[j] = None => j = i
  <1> USE DEF DefragInv
  <1>1. /\ copies' \in [Msgs -> [Positions(U8) -> 0 .. MaxCopies]]
        /\ Pieces[m] \in Positions(U8) /\ Pieces[m] \in Nat /\ i \in Nat /\ i < Pieces[m]
        /\ <<m, i>> \in Payload /\ <<m, i>> # None /\ Pieces[m] > 1
      BY ArrivesFacts DEF Fills
  <1>2. /\ total = Pieces[m] /\ sent[m] = pktId /\ IsSent(m) /\ sent' = sent
        /\ since' = since \cup {i} /\ frags[i] = None /\ count' = (count + 1) % U8
        /\ count \in Nat /\ count < U8 /\ U8 \in Nat /\ total < U8
      BY <1>1 DEF Fills, Foreign, Arrives, TypeOK, Positions
  <1>3. i \in Positions(total) /\ since' \subseteq Positions(total)
      BY <1>2 DEF TypeOK
  <1>4. count' \in Positions(U8) /\ (count + 1 < U8 => count' = count + 1)
        /\ (count + 1 = U8 => count' = 0)
      BY <1>2 DEF Positions
  <1>5. ASSUME runs = 0
        PROVE  /\ i \notin since /\ count' = Cardinality(since')
               /\ (count' = total <=> since' = Positions(total))
    <2>1. /\ since = {j \in Positions(total) : frags[j] # None}
          /\ since # Positions(total) /\ count = Cardinality(since)
        BY <1>1, <1>2, <1>5 DEF Counted
    <2>2. i \notin since
        BY <2>1, <1>2
    <2>3. /\ IsFiniteSet(since') /\ Cardinality(since') <= total
          /\ (Cardinality(since') = total => since' = Positions(total))
          /\ IsFiniteSet(since) /\ Cardinality(Positions(total)) = total
        BY <1>1, <1>2, <1>3, <2>1, PositionsFacts, FS_Subset
    <2>4. Cardinality(since') = count + 1
        BY <1>2, <2>1, <2>2, <2>3, FS_AddElement
    <2>5. count' = count + 1
        BY <1>1, <1>2, <1>4, <2>3, <2>4
    <2> QED BY <2>2, <2>3, <2>4, <2>5
  <1>6. ASSUME runs = 1
        PROVE  /\ since = Positions(total) /\ count' # total
               /\ \A j \in Positions(total) : frags[j] = None => j = i
    <2>1. /\ since = Positions(total) /\ count = total
          /\ \A j \in Positions(total) : frags[j] = None => j = i
        BY <1>1, <1>2, <1>3, <1>6 DEF Counted
    <2>2. count' # total
        BY <1>1, <1>2, <1>4, <2>1
    <2> QED BY <2>1, <2>2
  <1> QED BY <1>1, <1>2, <1>3, <1>4, <1>5, <1>6

\* An incomplete message keeps its pieces and gets one more; a repeated one
\* is put back into the position it was taken from.
LEMMA FillsStep ==
  ASSUME DefragInv, NEW m \in Msgs, NEW i \in Positions(Pieces[m]), FeedFills(m, i)
  PROVE  DefragInv'
  <1> USE DEF DefragInv
  <1>1. /\ total = Pieces[m] /\ total \in Nat /\ total > 1 /\ total \in Positions(U8)
        /\ sent[m] = pktId /\ IsSent(m) /\ sent' = sent /\ i \in Positions(total)
        /\ <<m, i>> \in Payload /\ <<m, i>> # None
        /\ since' = since \cup {i} /\ since' \subseteq Positions(total)
        /\ count' \in Positions(U8)
        /\ copies' \in [Msgs -> [Positions(U8) -> 0 .. MaxCopies]]
      BY FillsFacts DEF FeedFills
  <1>2. /\ pktId' = pktId /\ total' = total /\ times' = times /\ runs' = runs
        /\ out' = None /\ count' # total
        /\ frags' = [frags EXCEPT ![i] = <<m, i>>]
      BY DEF FeedFills, Fills
  <1>3. frags \in [Positions(total) -> Payload \cup {None}]
      BY DEF TypeOK
  <1>4. \A j \in Positions(total) : frags'[j] = IF j = i THEN <<m, i>> ELSE frags[j]
      BY <1>1, <1>2, <1>3
  <1>5. TypeOK'
    <2>1. frags' \in [Positions(total) -> Payload \cup {None}]
        BY <1>1, <1>2, <1>3
    <2> QED BY <1>1, <1>2, <2>1 DEF TypeOK
  <1>6. Holds'
    <2> SUFFICES ASSUME NEW j \in Positions(total), frags'[j] # None
                 PROVE  /\ j \in since'
                        /\ \E k \in Msgs : IsSent(k)' /\ ~Foreign(k)' /\ frags'[j] = <<k, j>>
        BY <1>2 DEF Holds
    <2>1. \A k \in Msgs : (IsSent(k)' <=> IsSent(k)) /\ (Foreign(k)' <=> Foreign(k))
        BY <1>1, <1>2 DEF IsSent, Foreign
    <2>2. CASE j = i
      <3>1. ~Foreign(m)
          BY <1>1 DEF Foreign
      <3> QED BY <2>1, <2>2, <3>1, <1>1, <1>4
    <2>3. CASE j # i
        BY <2>1, <2>3, <1>1, <1>4 DEF Holds
    <2> QED BY <2>2, <2>3
  <1>7. Counted'
    <2>1. CASE runs = 0
      <3>1. since = {j \in Positions(total) : frags[j] # None}
          BY <1>1, <2>1 DEF Counted
      <3>2. since' = {j \in Positions(total) : frags'[j] # None}
          BY <1>1, <1>4, <3>1
      <3>3. count' = Cardinality(since') /\ since' # Positions(total)
          BY <1>2, <2>1, FillsFacts DEF FeedFills
      <3> QED BY <1>1, <1>2, <2>1, <3>2, <3>3 DEF Counted
    <2>2. CASE runs = 1
      <3>1. /\ since = Positions(total)
            /\ \A j \in Positions(total) : frags[j] = None => j = i
          BY <2>2, FillsFacts DEF FeedFills
      <3>2. since' = Positions(total) /\ \A j \in Positions(total) : frags'[j] # None
          BY <1>1, <1>4, <3>1
      <3> QED BY <1>1, <1>2, <2>2, <3>2 DEF Counted
    <2> QED BY <2>1, <2>2 DEF TypeOK
  <1>8. NeverMixed'
      BY <1>2 DEF NeverMixed
  <1> QED BY <1>5, <1>6, <1>7, <1>8

\* The fragment that completes a message: all positions hold pieces of the
\* current packet id, which without a collision are pieces of one message.
LEMMA CompletesStep ==
  ASSUME DefragInv, NEW m \in Msgs, NEW i \in Positions(Pieces[m]), FeedCompletes(m, i)
  PROVE  DefragInv'
  <1> USE DEF DefragInv
  <1>1. /\ total = Pieces[m] /\ total \in Nat /\ total > 1 /\ total \in Positions(U8)
        /\ sent[m] = pktId /\ IsSent(m) /\ sent' = sent /\ i \in Positions(total)
        /\ <<m, i>> \in Payload /\ <<m, i>> # None
        /\ since' = since \cup {i} /\ since' \subseteq Positions(total)
        /\ count' \in Positions(U8)
        /\ copies' \in [Msgs -> [Positions(U8) -> 0 .. MaxCopies]]
      BY FillsFacts DEF FeedCompletes
  <1>2. /\ pktId' = pktId /\ total' = total /\ runs' = runs + 1 /\ frags' = frags
        /\ out' = [frags EXCEPT ![i] = <<m, i>>] /\ count' = total
      BY DEF FeedCompletes, Fills
  <1>3. frags \in [Positions(total) -> Payload \cup {None}]
      BY DEF TypeOK
  <1>4. runs = 0 /\ since' = Positions(total)
    <2>1. runs # 1
        BY <1>2, FillsFacts DEF FeedCompletes
    <2>2. runs = 0
        BY <2>1 DEF TypeOK
    <2> QED BY <1>2, <2>2, FillsFacts DEF FeedCompletes
  <1>5. \A j \in Positions(total) : j # i => frags[j] # None
    <2>1. since = {j \in Positions(total) : frags[j] # None}
        BY <1>1, <1>4 DEF Counted
    <2> QED BY <1>1, <1>4, <2>1
  <1>6. TypeOK'
    <2>1. times' \in [Msgs -> Nat]
        BY DEF FeedCompletes, TypeOK
    <2>2. runs' \in {0, 1}
        BY <1>2, <1>4
    <2> QED BY <1>1, <1>2, <1>3, <2>1, <2>2 DEF TypeOK
  <1>7. Holds'
    <2>1. \A k \in Msgs : (IsSent(k)' <=> IsSent(k)) /\ (Foreign(k)' <=> Foreign(k))
        BY <1>1, <1>2 DEF IsSent, Foreign
    <2> QED BY <1>1, <1>2, <2>1 DEF Holds
  <1>8. Counted'
    <2>1. runs' = 1
        BY <1>2, <1>4
    <2> QED BY <1>1, <1>2, <1>4, <1>5, <2>1 DEF Counted
  <1>9. NeverMixed'
    <2> SUFFICES ASSUME NoCollision PROVE \E n \in Msgs : IsSent(n)' /\ out' = Whole(n)'
        BY <1>1 DEF NeverMixed, NoCollision, IsSent
    <2>1. ASSUME NEW j \in Positions(total) PROVE out'[j] = <<m, j>>
      <3>1. CASE j = i
          BY <1>1, <1>2, <1>3, <3>1
      <3>2. CASE j # i
        <4>1. PICK n \in Msgs : IsSent(n) /\ ~Foreign(n) /\ frags[j] = <<n, j>>
            BY <1>5, <3>2 DEF Holds
        <4>2. n = m
            BY <1>1, <4>1 DEF NoCollision, Foreign
        <4> QED BY <1>1, <1>2, <1>3, <3>2, <4>1, <4>2
      <3> QED BY <3>1, <3>2
    <2>2. out' = Whole(m)
      <3>1. out' = [j \in Positions(total) |-> out'[j]]
          BY <1>2, <1>3
      <3> QED BY <1>1, <2>1, <3>1 DEF Whole
    <2> QED BY <1>1, <2>2 DEF IsSent, Whole
  <1> QED BY <1>6, <1>7, <1>8, <1>9

\* A fragment whose position is taken changes nothing.
LEMMA DuplicateStep ==
  ASSUME DefragInv, NEW m \in Msgs, NEW i \in Positions(Pieces[m]), FeedDuplicate(m, i)
  PROVE  DefragInv'
  <1> USE DEF DefragInv
  <1>1. copies' \in [Msgs -> [Positions(U8) -> 0 .. MaxCopies]]
      BY ArrivesFacts DEF FeedDuplicate
  <1>2. i \in since /\ since' = since
    <2>1. i \in Positions(total) /\ frags[i] # None /\ since' = since \cup {i}
        BY DEF FeedDuplicate, Foreign
    <2> QED BY <2>1 DEF Holds
  <1>3. UNCHANGED <<sent, defragger, times, runs>> /\ out' = None
      BY DEF FeedDuplicate
  <1>4. TypeOK'
      BY <1>1, <1>2, <1>3 DEF TypeOK, defragger
  <1>5. Holds' /\ Counted' /\ NeverMixed'
      BY <1>2, <1>3 DEF Holds, Counted, NeverMixed, IsSent, Foreign, defragger
  <1> QED BY <1>4, <1>5

\* The invariant of the Defragger, for every order, loss and repetition of
\* fragments.
THEOREM DefragInvariant == Spec => []DefragInv
  <1>1. DefragInv /\ [Next]_vars => DefragInv'
    <2> SUFFICES ASSUME DefragInv, [Next]_vars PROVE DefragInv'
        OBVIOUS
    <2>1. CASE FeedMalformed
        BY <2>1 DEF FeedMalformed, DefragInv, TypeOK, Holds, Counted, NeverMixed, IsSent, Foreign,
                    defragger, history
    <2>2. CASE UNCHANGED vars
        BY <2>2 DEF vars, DefragInv, TypeOK, Holds, Counted, NeverMixed, NoCollision, IsSent,
                    Foreign, Whole, defragger, history
    <2> QED BY <2>1, <2>2, SendStep, WholeStep, NewStep, FillsStep, CompletesStep, DuplicateStep
            DEF Next
  <1> QED BY <1>1, InitInv, PTL DEF Spec

\* Without a collision of packet ids, feed returns only messages as they were
\* sent.
THEOREM Integrity == Spec => []NeverMixed
  <1>1. DefragInv => NeverMixed
      BY DEF DefragInv
  <1> QED BY <1>1, DefragInvariant, PTL

\* A message is returned once, with its last position, and never for a part
\* of it; the wrapping of the count cannot return it again.
THEOREM Completion == Spec => []ReturnedWhenComplete
  <1>1. DefragInv => ReturnedWhenComplete
      BY DEF DefragInv, TypeOK, Counted, ReturnedWhenComplete
  <1> QED BY <1>1, DefragInvariant, PTL

-----------------------------------------------------------------------------

\* A step cannot undo a collision.
LEMMA CollisionStays ==
  ASSUME TypeOK, \A m \in Msgs : IsSent(m) => sent'[m] = sent[m], NoCollision'
  PROVE  NoCollision
  BY DEF NoCollision, IsSent

\* What one arriving fragment does to the history of copies.
LEMMA CopiesOf ==
  ASSUME TypeOK, NEW m \in Msgs, NEW i \in Positions(Pieces[m]), Arrives(m, i)
  PROVE  \A n \in Msgs : \A j \in Positions(Pieces[n]) :
            /\ copies[n][j] \in Nat
            /\ copies'[n][j] = IF n = m /\ j = i THEN copies[n][j] + 1 ELSE copies[n][j]
  <1> SUFFICES ASSUME NEW n \in Msgs, NEW j \in Positions(Pieces[n])
               PROVE  /\ copies[n][j] \in Nat
                      /\ copies'[n][j] = IF n = m /\ j = i THEN copies[n][j] + 1 ELSE copies[n][j]
      OBVIOUS
  <1>1. i \in Positions(U8) /\ j \in Positions(U8)
    <2>1. Pieces[m] \in 1 .. U8 - 1 /\ Pieces[n] \in 1 .. U8 - 1
        OBVIOUS
    <2> QED BY <2>1 DEF Positions
  <1>2. copies[n] \in [Positions(U8) -> 0 .. MaxCopies] /\ copies[m] \in [Positions(U8) -> 0 .. MaxCopies]
      BY DEF TypeOK
  <1>3. copies' = [copies EXCEPT ![m] = [copies[m] EXCEPT ![i] = copies[m][i] + 1]]
      BY DEF Arrives
  <1> QED BY <1>1, <1>2, <1>3 DEF TypeOK

\* Sending: the fragments held are those of a message that was sent before.
LEMMA SendCovers ==
  ASSUME DefragInv, CopiesCover, NEW m \in Msgs, Send(m)
  PROVE  CopiesCover'
  <1> USE DEF DefragInv
  <1>1. PICK p \in PktIds : sent' = [sent EXCEPT ![m] = p]
      BY DEF Send
  <1>2. UNCHANGED <<defragger, out, history>> /\ sent[m] = None
      BY DEF Send, IsSent
  <1>3. \A n \in Msgs : n # m => sent'[n] = sent[n]
      BY <1>1 DEF TypeOK
  <1> SUFFICES ASSUME NoCollision', NEW n \in Msgs, NEW i \in Positions(Pieces[n])
               PROVE  /\ times[n] <= copies[n][i]
                      /\ Unspent(n, i)' => times[n] < copies[n][i]
      BY <1>2 DEF CopiesCover, history
  <1>4. NoCollision
      BY <1>2, <1>3, CollisionStays DEF IsSent
  <1>5. CASE n # m
      BY <1>2, <1>3, <1>4, <1>5 DEF CopiesCover, Unspent, IsSent, Foreign, defragger, history
  <1>6. CASE n = m
    <2>1. ~Unspent(m, i)'
      <3> SUFFICES ASSUME runs = 0, i \in since, sent'[m] = pktId, Pieces[m] = total
                   PROVE  FALSE
          BY <1>2 DEF Unspent, Foreign, defragger, history
      <3>1. total > 1 /\ frags[i] # None
          BY <1>6 DEF Counted, TypeOK, Positions
      <3>2. PICK k \in Msgs : IsSent(k) /\ sent[k] = pktId /\ Pieces[k] = total
          BY <1>6, <3>1 DEF Holds, Foreign
      <3>3. k # m /\ IsSent(k)' /\ sent'[k] = pktId
          BY <1>2, <1>3, <3>2 DEF IsSent
      <3>4. IsSent(m)'
          BY <3>3 DEF IsSent
      <3> QED BY <3>1, <3>2, <3>3, <3>4 DEF NoCollision
    <2> QED BY <1>4, <1>6, <2>1 DEF CopiesCover
  <1> QED BY <1>5, <1>6

\* A fragment that returns nothing is one more copy, whether it is held or not.
LEMMA HeldCovers ==
  ASSUME DefragInv, CopiesCover, NEW m \in Msgs, NEW i \in Positions(Pieces[m]),
         FeedNew(m, i) \/ FeedFills(m, i) \/ FeedDuplicate(m, i)
  PROVE  CopiesCover'
  <1> USE DEF DefragInv
  <1>1. Arrives(m, i) /\ sent' = sent /\ times' = times
      BY DEF FeedNew, FeedFills, FeedDuplicate, Fills
  <1> SUFFICES ASSUME NoCollision, NEW n \in Msgs, NEW j \in Positions(Pieces[n])
               PROVE  /\ times[n] <= copies'[n][j]
                      /\ Unspent(n, j)' => times[n] < copies'[n][j]
      BY <1>1 DEF CopiesCover, NoCollision, IsSent
  <1>2. /\ copies[n][j] \in Nat /\ times[n] \in Nat
        /\ copies'[n][j] = IF n = m /\ j = i THEN copies[n][j] + 1 ELSE copies[n][j]
      BY <1>1, CopiesOf DEF TypeOK
  <1>3. /\ times[n] <= copies[n][j]
        /\ Unspent(n, j) => times[n] < copies[n][j]
      BY DEF CopiesCover
  <1>4. Unspent(n, j)' => Unspent(n, j) \/ (n = m /\ j = i)
    <2>1. CASE FeedNew(m, i)
      <3>1. Unspent(n, j)' => j = i /\ IsSent(n) /\ sent[n] = sent[m] /\ Pieces[n] = Pieces[m]
          BY <2>1 DEF FeedNew, Unspent, IsSent, Foreign
      <3> QED BY <2>1, <3>1 DEF FeedNew, Arrives, NoCollision
    <2>2. CASE FeedFills(m, i) \/ FeedDuplicate(m, i)
      <3>1. /\ pktId' = pktId /\ total' = total /\ runs' = runs /\ since' = since \cup {i}
            /\ ~Foreign(m) /\ Pieces[m] > 1
          BY <2>2 DEF FeedFills, FeedDuplicate, Fills, defragger
      <3>2. Unspent(n, j)' /\ ~Unspent(n, j) => j = i /\ IsSent(n) /\ ~Foreign(n)
          BY <1>1, <3>1 DEF Unspent, IsSent, Foreign
      <3> QED BY <1>1, <3>1, <3>2 DEF Arrives, NoCollision, Foreign
    <2> QED BY <2>1, <2>2
  <1> QED BY <1>2, <1>3, <1>4

\* Returning a message spends one copy of each of its pieces.
LEMMA ReturnCovers ==
  ASSUME DefragInv, CopiesCover, NEW m \in Msgs, NEW i \in Positions(Pieces[m]),
         FeedCompletes(m, i)
  PROVE  CopiesCover'
  <1> USE DEF DefragInv
  <1>1. /\ Fills(m, i) /\ Arrives(m, i) /\ sent' = sent /\ ~Foreign(m) /\ Pieces[m] > 1
        /\ count' = total /\ runs' = runs + 1 /\ total = Pieces[m]
      BY DEF FeedCompletes, Fills, Foreign
  <1>2. runs = 0 /\ since \cup {i} = Positions(total)
    <2>1. runs = 0
        BY <1>1, FillsFacts DEF TypeOK
    <2> QED BY <1>1, <2>1, FillsFacts
  <1> SUFFICES ASSUME NoCollision, NEW n \in Msgs, NEW j \in Positions(Pieces[n])
               PROVE  times'[n] <= copies'[n][j]
      BY <1>1, <1>2 DEF CopiesCover, NoCollision, IsSent, Unspent
  <1>3. /\ copies[n][j] \in Nat /\ times[n] \in Nat
        /\ copies'[n][j] = IF n = m /\ j = i THEN copies[n][j] + 1 ELSE copies[n][j]
        /\ times'[n] = IF out' = Whole(n) THEN times[n] + 1 ELSE times[n]
    <2>1. times'[n] = IF out' = Whole(n) THEN times[n] + 1 ELSE times[n]
        BY DEF FeedCompletes
    <2>2. TypeOK /\ times[n] \in Nat
        BY DEF TypeOK
    <2>3. /\ copies[n][j] \in Nat
          /\ copies'[n][j] = IF n = m /\ j = i THEN copies[n][j] + 1 ELSE copies[n][j]
        BY <1>1, <2>2, CopiesOf
    <2> QED BY <2>1, <2>2, <2>3
  <1>4. /\ times[n] <= copies[n][j]
        /\ Unspent(n, j) => times[n] < copies[n][j]
      BY DEF CopiesCover
  <1>5. out' = Whole(n) => n = m
    <2> SUFFICES ASSUME out' = Whole(n) PROVE n = m
        OBVIOUS
    <2>1. frags \in [Positions(total) -> Payload \cup {None}] /\ i \in Positions(total)
        BY <1>1 DEF TypeOK
    <2>2. out' = [frags EXCEPT ![i] = <<m, i>>]
        BY DEF FeedCompletes
    <2>3. DOMAIN out' = Positions(total) /\ out'[i] = <<m, i>>
        BY <2>1, <2>2
    <2>4. i \in Positions(Pieces[n])
        BY <2>1, <2>3 DEF Whole
    <2> QED BY <2>3, <2>4 DEF Whole
  <1>6. n = m => j = i \/ Unspent(n, j)
      BY <1>1, <1>2 DEF Unspent, Arrives
  <1> QED BY <1>3, <1>4, <1>5, <1>6

\* A message that fits is returned once for its one copy.
LEMMA WholeCovers ==
  ASSUME DefragInv, CopiesCover, NEW m \in Msgs, FeedWhole(m)
  PROVE  CopiesCover'
  <1> USE DEF DefragInv
  <1>1. /\ Arrives(m, 0) /\ Pieces[m] = 1 /\ Positions(Pieces[m]) = {0}
        /\ UNCHANGED <<sent, pktId, total, since, runs>>
        /\ times' = [times EXCEPT ![m] = times[m] + 1]
    <2>1. Pieces[m] \in 1 .. U8 - 1
        OBVIOUS
    <2>2. Pieces[m] = 1
        BY <2>1 DEF FeedWhole
    <2>3. 0 .. 1 - 1 = {0}
        OBVIOUS
    <2> QED BY <2>2, <2>3 DEF FeedWhole, Positions, defragger
  <1>2. Foreign(m)
      BY <1>1 DEF Counted, Foreign
  <1> SUFFICES ASSUME NoCollision, NEW n \in Msgs, NEW j \in Positions(Pieces[n])
               PROVE  /\ times'[n] <= copies'[n][j]
                      /\ Unspent(n, j)' => times'[n] < copies'[n][j]
      BY <1>1 DEF CopiesCover, NoCollision, IsSent
  <1>3. /\ copies[n][j] \in Nat /\ times[n] \in Nat
        /\ copies'[n][j] = IF n = m /\ j = 0 THEN copies[n][j] + 1 ELSE copies[n][j]
        /\ times'[n] = IF n = m THEN times[n] + 1 ELSE times[n]
      BY <1>1, CopiesOf DEF TypeOK
  <1>4. /\ times[n] <= copies[n][j]
        /\ Unspent(n, j) => times[n] < copies[n][j]
      BY DEF CopiesCover
  <1>5. (Unspent(n, j)' <=> Unspent(n, j)) /\ ~Unspent(m, j)
      BY <1>1, <1>2 DEF Unspent, IsSent, Foreign
  <1> QED BY <1>1, <1>3, <1>4, <1>5

\* Without a collision of packet ids, no message is returned more often than
\* each of its fragments arrived, however often and in whatever order.
THEOREM Copies == Spec => []NoPhantom
  <1>1. Init => CopiesCover
    <2> SUFFICES ASSUME Init, NEW m \in Msgs, NEW i \in Positions(Pieces[m])
                 PROVE  times[m] = 0 /\ copies[m][i] = 0 /\ ~Unspent(m, i)
        BY DEF CopiesCover
    <2>1. Pieces[m] \in 1 .. U8 - 1
        OBVIOUS
    <2>2. i \in Positions(U8)
        BY <2>1 DEF Positions
    <2> QED BY <2>2 DEF Init, Unspent
  <1>2. DefragInv /\ CopiesCover /\ [Next]_vars => CopiesCover'
    <2> SUFFICES ASSUME DefragInv, CopiesCover, [Next]_vars PROVE CopiesCover'
        OBVIOUS
    <2>1. CASE FeedMalformed \/ UNCHANGED vars
        BY <2>1 DEF FeedMalformed, vars, CopiesCover, Unspent, NoCollision, IsSent, Foreign,
                    defragger, history
    <2> QED BY <2>1, SendCovers, WholeCovers, HeldCovers, ReturnCovers DEF Next
  <1>3. CopiesCover => NoPhantom
      BY DEF CopiesCover, NoPhantom
  <1> QED BY <1>1, <1>2, <1>3, DefragInvariant, PTL DEF Spec

-----------------------------------------------------------------------------
(* How messages are cut (Frag), for every payload, header and path. *)

\* The fragments, in the order of their ids, are consecutive runs of the payload
\* from its first byte to its last: end[k] is where the k-th one ends.
Sliced(wire, d) ==
    \E end \in [0 .. Len(wire) -> 0 .. Len(d)] :
        /\ end[0] = 0 /\ end[Len(wire)] = Len(d)
        /\ \A k \in 1 .. Len(wire) :
              /\ end[k - 1] <= end[k]
              /\ wire[k].fragId = k - 1
              /\ wire[k].data = SubSeq(d, end[k - 1] + 1, end[k])

\* The fragments are a sequence, and each can be written: its id and its count
\* fit a byte.
Written(wire, Data) ==
    /\ Len(wire) \in Nat
    /\ wire = [k \in 1 .. Len(wire) |-> wire[k]]
    /\ \A k \in 1 .. Len(wire) :
          /\ wire[k].fragId \in 0 .. U8 - 1
          /\ wire[k].fragCount \in (0 .. U8 - 1) \cup {1}
          /\ wire[k].data \in Seq(Data)

\* Join is the last of the joined beginnings.
LEMMA JoinIs ==
  ASSUME NEW wire, Len(wire) \in Nat, NEW g,
         DOMAIN g = 0 .. Len(wire), g = [k \in DOMAIN g |-> g[k]],
         g[0] = << >>, \A k \in 1 .. Len(wire) : g[k] = g[k - 1] \o wire[k].data
  PROVE  F!Join(wire) = g[Len(wire)]
  <1> DEFINE n == Len(wire)
             G(t) == [k \in 0 .. n |-> IF k = 0 THEN << >> ELSE t[k - 1] \o wire[k].data]
             f == CHOOSE t : t = G(t)
  <1>1. n \in Nat
      OBVIOUS
  <1>2. g = G(g)
    <2>1. \A k \in 0 .. n : g[k] = IF k = 0 THEN << >> ELSE g[k - 1] \o wire[k].data
        BY <1>1
    <2> QED BY <2>1, Zenon
  <1>3. f = G(f)
      BY <1>2, Zenon
  <1>4. F!Join(wire) = f[n]
      BY DEF F!Join
  <1> HIDE DEF f
  <1>5. f[0] = << >> /\ \A k \in 1 .. n : f[k] = f[k - 1] \o wire[k].data
      BY <1>1, <1>3
  <1> DEFINE S == {k \in Nat : k <= n => f[k] = g[k]}
  <1>6. 0 \in S
      BY <1>5
  <1>7. ASSUME NEW k \in Nat, k \in S PROVE k + 1 \in S
    <2> SUFFICES ASSUME k + 1 <= n PROVE f[k + 1] = g[k + 1]
        OBVIOUS
    <2>1. f[k] = g[k] /\ k + 1 \in 1 .. n /\ (k + 1) - 1 = k
        BY <1>1, <1>7
    <2>2. f[k + 1] = f[k] \o wire[k + 1].data
        BY <1>5, <2>1
    <2>3. g[k + 1] = g[k] \o wire[k + 1].data
        BY <2>1
    <2> QED BY <2>1, <2>2, <2>3
  <1> HIDE DEF S
  <1>8. Nat \subseteq S
      BY <1>6, <1>7, StreamHolds, TextHolds, WireHolds, P!Induct
  <1> QED BY <1>1, <1>4, <1>8 DEF S

\* Consecutive runs of a payload, joined, are the payload.
LEMMA SlicesJoin ==
  ASSUME NEW Data, NEW d \in Seq(Data), NEW wire, Len(wire) \in Nat, Sliced(wire, d)
  PROVE  F!Join(wire) = d
  <1> DEFINE n == Len(wire)
  <1>1. PICK end \in [0 .. n -> 0 .. Len(d)] :
           /\ end[0] = 0 /\ end[n] = Len(d)
           /\ \A k \in 1 .. n : /\ end[k - 1] <= end[k]
                              /\ wire[k].data = SubSeq(d, end[k - 1] + 1, end[k])
      BY DEF Sliced
  <1> DEFINE g == [k \in 0 .. n |-> SubSeq(d, 1, end[k])]
  <1>2. g[0] = << >>
    <2>1. SubSeq(d, 1, 0) = << >>
        BY SubSeqEmpty
    <2> QED BY <1>1, <2>1
  <1>3. ASSUME NEW k \in 1 .. n PROVE g[k] = g[k - 1] \o wire[k].data
    <2>1. k - 1 \in 0 .. n /\ k \in 0 .. n
        OBVIOUS
    <2>2. PICK i \in 0 .. Len(d), j \in 0 .. Len(d) : i = end[k - 1] /\ j = end[k] /\ i <= j
        BY <1>1, <2>1
    <2>3. Len(d) \in Nat /\ 1 \in 1 .. Len(d) + 1 /\ i \in 1 - 1 .. Len(d) /\ j \in i .. Len(d)
        BY <2>2
    <2>4. SubSeq(d, 1, i) \o SubSeq(d, i + 1, j) = SubSeq(d, 1, j)
        BY <2>3, ConcatAdjacentSubSeq
    <2>5. wire[k].data = SubSeq(d, i + 1, j)
        BY <1>1, <2>2
    <2>6. g[k] = SubSeq(d, 1, j) /\ g[k - 1] = SubSeq(d, 1, i)
        BY <2>1, <2>2
    <2> QED BY <2>4, <2>5, <2>6, Zenon
  <1>4. g[n] = d
      BY <1>1, SubSeqFull
  <1>5. DOMAIN g = 0 .. n /\ g = [k \in DOMAIN g |-> g[k]]
      OBVIOUS
  <1> HIDE DEF g
  <1>6. F!Join(wire) = g[n]
      BY <1>2, <1>3, <1>5, JoinIs
  <1> QED BY <1>4, <1>6

\* Each fragment is where its id places it.
LEMMA SlicesPlaced ==
  ASSUME NEW Data, NEW d, NEW wire, Written(wire, Data), Sliced(wire, d)
  PROVE  F!Placed(wire) = wire
  <1> DEFINE n == Len(wire)
  <1>1. /\ n \in Nat /\ wire = [k \in 1 .. n |-> wire[k]] /\ DOMAIN wire = 1 .. n
        /\ \A k \in 1 .. n : wire[k].fragId = k - 1
      BY DEF Written, Sliced
  <1>2. ASSUME NEW k \in 1 .. n
        PROVE  (CHOOSE i \in DOMAIN wire : wire[i].fragId = k - 1) = k
    <2>1. k \in DOMAIN wire /\ wire[k].fragId = k - 1
        BY <1>1
    <2>2. \A i \in DOMAIN wire : wire[i].fragId = k - 1 => i = k
        BY <1>1
    <2> QED BY <2>1, <2>2
  <1>3. F!Placed(wire) = [k \in 1 .. n |-> wire[k]]
      BY <1>1, <1>2 DEF F!Placed
  <1> QED BY <1>1, <1>3

LEMMA SmallMod ==
  ASSUME NEW n \in Nat \ {0}, NEW s \in 0 .. n - 1
  PROVE  s % n = s
  <1>1. (n * 0 + s) % n = s
      OBVIOUS
  <1> QED BY <1>1

LEMMA MinOfTwo ==
  ASSUME NEW x \in Int, NEW y \in Int
  PROVE  F!Min({x, y}) = IF x <= y THEN x ELSE y
  <1> DEFINE z == IF x <= y THEN x ELSE y
  <1>1. z \in {x, y} /\ \A w \in {x, y} : z <= w
      OBVIOUS
  <1>2. \A w \in {x, y} : (\A v \in {x, y} : w <= v) => w = z
      OBVIOUS
  <1> QED BY <1>1, <1>2 DEF F!Min

\* The last of the fragments begins inside the payload, and reaches its end.
LEMMA CountFits ==
  ASSUME NEW len \in Nat \ {0}, NEW p \in Nat \ {0}, NEW n, n = F!Needed(len, p)
  PROVE  /\ n \in Nat \ {0}
         /\ (n - 1) * p < len
         /\ len <= n * p
  <1>1. PICK x \in Nat : x = len + p - 1
      OBVIOUS
  <1>2. n = x \div p
      BY <1>1 DEF F!Needed, F!CeilDiv
  <1>3. PICK r \in Nat : n \in Nat /\ r < p /\ x = p * n + r
    <2>1. x \div p \in Nat /\ x % p \in Nat /\ x % p < p /\ x = p * (x \div p) + (x % p)
        OBVIOUS
    <2> QED BY <1>2, <2>1
  <1>4. n # 0
      BY <1>1, <1>3
  <1>5. (n - 1) * p = p * n - p /\ n * p = p * n
      BY <1>3
  <1> QED BY <1>1, <1>3, <1>4, <1>5

\* Where the k-th fragment begins and ends.
LEMMA SliceFits ==
  ASSUME NEW len \in Nat \ {0}, NEW p \in Nat \ {0}, NEW n \in Nat \ {0},
         (n - 1) * p < len, len <= n * p, NEW k \in 1 .. n
  PROVE  /\ (k - 1) * p \in Nat /\ (k - 1) * p < len
         /\ k * p = (k - 1) * p + p
         /\ k = n => len <= k * p
  <1>1. PICK q \in Nat, j \in Nat : k = q + 1 /\ n = q + 1 + j
    <2>1. k - 1 \in Nat /\ n - k \in Nat /\ k = (k - 1) + 1 /\ n = (k - 1) + 1 + (n - k)
        OBVIOUS
    <2> QED BY <2>1
  <1>2. (n - 1) * p = q * p + j * p /\ j * p \in Nat /\ q * p \in Nat
      BY <1>1
  <1>3. k - 1 = q /\ k * p = q * p + p
      BY <1>1
  <1> QED BY <1>2, <1>3

\* A run of at most p bytes has room after the header.
LEMMA RunFits ==
  ASSUME NEW h \in Nat, NEW p \in Nat, NEW m, h + p = m,
         NEW x \in Nat, NEW y \in Nat, x < y, y <= x + p, NEW l, l = y - x
  PROVE  l > 0 /\ h + l <= m
  OBVIOUS

\* A message that fits goes out as it is.
LEMMA OneWhole ==
  ASSUME NEW Data, NEW d \in Seq(Data), NEW h \in Nat, NEW m \in Nat, h + Len(d) <= m,
         NEW wire, wire = << F!Unfragmented(d) >>
  PROVE  /\ F!Fitting(wire, d, h, m) /\ F!Numbered(wire) /\ Sliced(wire, d)
         /\ Written(wire, Data)
  <1>1. /\ Len(wire) = 1 /\ DOMAIN wire = {1} /\ 1 .. Len(wire) = {1} /\ 0 .. Len(wire) - 1 = {0}
        /\ wire[1].fragId = 0 /\ wire[1].fragCount = 1 /\ wire[1].data = d
      BY DEF F!Unfragmented
  <1>2. F!Fitting(wire, d, h, m)
      BY <1>1 DEF F!Fitting, F!Size
  <1>3. F!Numbered(wire)
      BY <1>1 DEF F!Numbered
  <1>4. Sliced(wire, d)
    <2> DEFINE end == [k \in 0 .. 1 |-> IF k = 0 THEN 0 ELSE Len(d)]
    <2>1. Len(d) \in Nat /\ SubSeq(d, 1, Len(d)) = d
        OBVIOUS
    <2>2. /\ end \in [0 .. Len(wire) -> 0 .. Len(d)]
          /\ end[0] = 0 /\ end[1] = Len(d)
        BY <1>1, <2>1
    <2> HIDE DEF end
    <2>3. \A k \in 1 .. Len(wire) : /\ end[k - 1] <= end[k]
                                    /\ wire[k].fragId = k - 1
                                    /\ wire[k].data = SubSeq(d, end[k - 1] + 1, end[k])
        BY <1>1, <2>1, <2>2
    <2> QED BY <1>1, <2>2, <2>3 DEF Sliced
  <1>5. Written(wire, Data)
    <2>1. wire = [k \in 1 .. 1 |-> wire[k]]
        OBVIOUS
    <2> QED BY <1>1, <2>1 DEF Written
  <1> QED BY <1>2, <1>3, <1>4, <1>5

\* One that does not is cut into slices of equal size, the last perhaps shorter.
LEMMA CutSlices ==
  ASSUME NEW Data, NEW d \in Seq(Data), NEW h \in Nat, NEW m \in Nat,
         h + Len(d) > m, m > h, NEW wire, wire = F!FragUdpMessage(d, h, m)
  PROVE  /\ F!Fitting(wire, d, h, m)
         /\ Written(wire, Data)
         /\ Len(wire) < U8 => F!Numbered(wire) /\ Sliced(wire, d)
  <1> DEFINE p == m - h
             n == F!Needed(Len(d), p)
             piece(k) == [fragId    |-> (k - 1) % U8,
                          fragCount |-> n % U8,
                          data      |-> SubSeq(d, (k - 1) * p + 1, F!Min({k * p, Len(d)}))]
             end == [k \in 0 .. n |-> IF k = n THEN Len(d) ELSE k * p]
  <1>1. Len(d) \in Nat \ {0} /\ p \in Nat \ {0} /\ h + p = m
      OBVIOUS
  <1>2. wire = [k \in 1 .. n |-> piece(k)]
      BY DEF F!FragUdpMessage
  <1> HIDE DEF p
  <1>3. n \in Nat \ {0} /\ (n - 1) * p < Len(d) /\ Len(d) <= n * p
      BY <1>1, CountFits
  <1> HIDE DEF n
  <1>4. /\ DOMAIN wire = 1 .. n
        /\ \A k \in 1 .. n :
              /\ wire[k].fragId = (k - 1) % U8
              /\ wire[k].fragCount = n % U8
              /\ wire[k].data = SubSeq(d, (k - 1) * p + 1, F!Min({k * p, Len(d)}))
    <2>1. \A k \in 1 .. n : /\ piece(k).fragId = (k - 1) % U8
                            /\ piece(k).fragCount = n % U8
                            /\ piece(k).data = SubSeq(d, (k - 1) * p + 1,
                                                      F!Min({k * p, Len(d)}))
        BY Zenon
    <2> HIDE DEF piece
    <2>2. DOMAIN wire = 1 .. n /\ \A k \in 1 .. n : wire[k] = piece(k)
        BY <1>2
    <2> QED BY <2>1, <2>2, Zenon
  <1> HIDE DEF piece
  <1>5. Len(wire) = n
      BY <1>2, <1>3
  <1>6. \A k \in 1 .. n : /\ end[k - 1] = (k - 1) * p
                          /\ end[k] = F!Min({k * p, Len(d)})
                          /\ end[k - 1] \in Nat /\ end[k] \in Nat
                          /\ end[k - 1] < end[k] /\ end[k] <= Len(d)
                          /\ end[k] <= end[k - 1] + p
    <2> TAKE k \in 1 .. n
    <2>1. /\ (k - 1) * p \in Nat /\ (k - 1) * p < Len(d)
          /\ k * p = (k - 1) * p + p
          /\ k = n => Len(d) <= k * p
        BY <1>1, <1>3, SliceFits
    <2>2. k # n => k * p <= Len(d)
      <3> SUFFICES ASSUME k # n PROVE k * p <= Len(d)
          OBVIOUS
      <3>1. k + 1 \in 1 .. n
          BY <1>3
      <3>2. ((k + 1) - 1) * p < Len(d)
          BY <1>1, <1>3, <3>1, SliceFits
      <3>3. (k + 1) - 1 = k
          OBVIOUS
      <3> QED BY <1>1, <2>1, <3>2, <3>3
    <2>3. PICK x \in Nat, y \in Nat : x = (k - 1) * p /\ y = k * p /\ y = x + p
        BY <1>1, <2>1
    <2>4. F!Min({y, Len(d)}) = IF y <= Len(d) THEN y ELSE Len(d)
        BY <1>1, MinOfTwo
    <2>5. end[k - 1] = x /\ end[k] = IF k = n THEN Len(d) ELSE y
        BY <1>3, <2>3
    <2> HIDE DEF end
    <2>6. end[k] = F!Min({y, Len(d)})
        BY <1>1, <2>1, <2>2, <2>3, <2>4, <2>5
    <2>7. x < Len(d) /\ y = x + p
        BY <2>1, <2>3
    <2>8. end[k - 1] = (k - 1) * p /\ end[k] = F!Min({k * p, Len(d)})
        BY <2>3, <2>5, <2>6
    <2> QED BY <1>1, <2>3, <2>4, <2>5, <2>6, <2>7, <2>8
  <1>7. end \in [0 .. n -> 0 .. Len(d)] /\ end[0] = 0 /\ end[n] = Len(d)
    <2>1. \A k \in 0 .. n : end[k] \in 0 .. Len(d)
      <3> TAKE k \in 0 .. n
      <3>1. CASE k = 0
        <4>1. 1 \in 1 .. n /\ 1 - 1 = 0
            BY <1>3
        <4> QED BY <1>1, <1>6, <3>1, <4>1
      <3>2. CASE k # 0
        <4>1. k \in 1 .. n
            BY <1>3, <3>2
        <4>2. end[k] \in Nat /\ end[k] <= Len(d)
            BY <1>6, <4>1
        <4> HIDE DEF end
        <4> QED BY <1>1, <4>2
      <3> QED BY <3>1, <3>2
    <2>2. end[0] = 0 /\ end[n] = Len(d)
        BY <1>1, <1>3
    <2> QED BY <2>1, <2>2
  <1> HIDE DEF end
  <1>8. \A k \in 1 .. n : /\ wire[k].data = SubSeq(d, end[k - 1] + 1, end[k])
                          /\ Len(wire[k].data) = end[k] - end[k - 1]
                          /\ wire[k].data \in Seq(Data)
    <2> TAKE k \in 1 .. n
    <2>1. wire[k].data = SubSeq(d, end[k - 1] + 1, end[k])
        BY <1>4, <1>6
    <2>2. /\ end[k - 1] \in Nat /\ end[k] \in Nat
          /\ end[k - 1] < end[k] /\ end[k] <= Len(d)
        BY <1>6
    <2>3. \A i \in end[k - 1] + 1 .. end[k] : d[i] \in Data
        BY <2>2
    <2>4. /\ Len(SubSeq(d, end[k - 1] + 1, end[k])) = end[k] - end[k - 1]
          /\ SubSeq(d, end[k - 1] + 1, end[k]) \in Seq(Data)
        BY <2>2, <2>3, SubSeqProperties
    <2> QED BY <2>1, <2>4
  <1>9. F!Fitting(wire, d, h, m)
    <2>1. ASSUME NEW k \in 1 .. n
          PROVE  h + Len(wire[k].data) <= m /\ wire[k].data # << >>
      <3>1. PICK x \in Nat, y \in Nat : x = end[k - 1] /\ y = end[k] /\ x < y /\ y <= x + p
          BY <1>6
      <3>2. Len(wire[k].data) = y - x
          BY <1>8, <3>1
      <3>3. Len(wire[k].data) > 0 /\ h + Len(wire[k].data) <= m
        <4>1. p \in Nat /\ h + p = m /\ h \in Nat
            BY <1>1
        <4>2. PICK l : l = Len(wire[k].data)
            OBVIOUS
        <4>3. l = y - x
            BY <3>2, <4>2
        <4>4. l > 0 /\ h + l <= m
            BY <3>1, <4>1, <4>3, RunFits
        <4> QED BY <4>2, <4>4
      <3>4. wire[k].data # << >>
        <4> SUFFICES ASSUME wire[k].data = << >> PROVE Len(wire[k].data) = 0
            BY <3>3
        <4> QED OBVIOUS
      <3> QED BY <3>3, <3>4
    <2> QED BY <1>4, <2>1 DEF F!Fitting, F!Size
  <1>10. ASSUME n < U8 PROVE F!Numbered(wire) /\ Sliced(wire, d)
    <2>1. n % U8 = n /\ \A k \in 1 .. n : (k - 1) % U8 = k - 1
      <3>1. U8 \in Nat \ {0} /\ n \in 0 .. U8 - 1
          BY <1>3, <1>10
      <3>2. n % U8 = n
          BY <3>1, SmallMod
      <3>3. ASSUME NEW k \in 1 .. n PROVE (k - 1) % U8 = k - 1
        <4>1. k - 1 \in 0 .. U8 - 1
            BY <1>3, <3>1
        <4> QED BY <3>1, <4>1, SmallMod
      <3> QED BY <3>2, <3>3
    <2>2. \A k \in 1 .. n : wire[k].fragId = k - 1 /\ wire[k].fragCount = n
        BY <1>4, <2>1
    <2>3. {wire[k].fragId : k \in 1 .. n} = 0 .. n - 1
      <3>1. \A j \in 0 .. n - 1 : j + 1 \in 1 .. n /\ wire[j + 1].fragId = j
        <4> TAKE j \in 0 .. n - 1
        <4>1. j + 1 \in 1 .. n /\ (j + 1) - 1 = j
            BY <1>3
        <4> QED BY <2>2, <4>1
      <3>2. \A k \in 1 .. n : wire[k].fragId \in 0 .. n - 1
          BY <1>3, <2>2
      <3> QED BY <3>1, <3>2
    <2>4. F!Numbered(wire)
        BY <1>4, <1>5, <2>2, <2>3 DEF F!Numbered
    <2>5. Sliced(wire, d)
      <3>1. \A k \in 1 .. n : end[k - 1] <= end[k]
        <4> TAKE k \in 1 .. n
        <4>1. end[k - 1] \in Nat /\ end[k] \in Nat /\ end[k - 1] < end[k]
            BY <1>6
        <4> QED BY <4>1
      <3>2. \A k \in 1 .. n : /\ end[k - 1] <= end[k]
                              /\ wire[k].fragId = k - 1
                              /\ wire[k].data = SubSeq(d, end[k - 1] + 1, end[k])
          BY <1>8, <2>2, <3>1, Zenon
      <3> QED BY <1>5, <1>7, <3>2, Zenon DEF Sliced
    <2> QED BY <2>4, <2>5
  <1>11. Written(wire, Data)
    <2>1. ASSUME NEW x \in Nat PROVE x % U8 \in 0 .. U8 - 1
        OBVIOUS
    <2>2. ASSUME NEW k \in 1 .. n
          PROVE  wire[k].fragId \in 0 .. U8 - 1 /\ wire[k].fragCount \in 0 .. U8 - 1
      <3>1. k - 1 \in Nat /\ n \in Nat
          BY <1>3
      <3> QED BY <1>4, <2>1, <3>1
    <2>3. wire = [k \in 1 .. n |-> wire[k]] /\ n \in Nat
        BY <1>2, <1>3
    <2> QED BY <1>5, <1>8, <2>2, <2>3 DEF Written
  <1> QED BY <1>5, <1>9, <1>10, <1>11

\* Whatever the sizes of payload, header and path, what frag_udp_message and the
\* send path put on the wire fits it, no fragment is empty unless the message
\* is, and with fewer than 256 of them (U8) they are numbered from 0, name their
\* true count and, each put in the position of its id and joined as feed does,
\* are the payload.
THEOREM CutWhole ==
  ASSUME NEW Data, NEW d \in Seq(Data), NEW h \in Nat, NEW m \in Nat,
         NEW wire, wire = F!SendMessage(d, h, m)
  PROVE  /\ F!Cut(wire, d, h, m)
         /\ Written(wire, Data)
         /\ wire # << >> /\ Len(wire) < U8 => F!Join(wire) = d
  <1>1. Len(d) \in Nat
      OBVIOUS
  <1>2. CASE wire = << >>
    <2>1. Len(wire) = 0 /\ 1 .. 0 = {} /\ DOMAIN wire = {} /\ wire = [k \in 1 .. 0 |-> wire[k]]
        BY <1>2
    <2> QED BY <1>2, <2>1 DEF F!Fitting, F!Cut, Written
  <1>3. CASE wire # << >>
    <2>1. /\ F!Fitting(wire, d, h, m) /\ Written(wire, Data)
          /\ Len(wire) < U8 => F!Numbered(wire) /\ Sliced(wire, d)
      <3>1. CASE h + Len(d) <= m
        <4>1. wire = << F!Unfragmented(d) >>
            BY <1>3, <3>1 DEF F!SendMessage
        <4> QED BY <3>1, <4>1, OneWhole
      <3>2. CASE h + Len(d) > m
        <4>1. ~ (h + Len(d) <= m)
            BY <1>1, <3>2
        <4>2. wire = F!FragUdpMessage(d, h, m)
            BY <1>3, <4>1, Zenon DEF F!SendMessage
        <4>3. ~ (m <= h)
            BY <1>3, <4>1, <4>2, Zenon DEF F!FragUdpMessage
        <4>4. m > h
            BY <4>3
        <4> QED BY <3>2, <4>2, <4>4, CutSlices
      <3> QED BY <1>1, <3>1, <3>2
    <2>2. ASSUME Len(wire) < U8 PROVE F!Join(wire) = d /\ F!Placed(wire) = wire
      <3>1. Len(wire) \in Nat /\ Sliced(wire, d)
          BY <2>1, <2>2 DEF Written
      <3> QED BY <2>1, <3>1, SlicesJoin, SlicesPlaced
    <2> QED BY <1>3, <2>1, <2>2 DEF F!Cut
  <1> QED BY <1>2, <1>3

-----------------------------------------------------------------------------
(* From end to end (UdpWire). *)

\* The codec of UdpWire is that of the theorems.
LEMMA SameCodec ==
  /\ W!Byte = P!Byte /\ W!Power = P!Power /\ W!Invalid = P!Invalid
  /\ \A i : W!VarintLen(i) = P!VarintLen(i)
  /\ \A m : /\ W!HeaderSize(m) = P!HeaderSize(m) /\ W!MessageSize(m) = P!MessageSize(m)
           /\ W!Serialize(m) = P!Serialize(m)
  /\ \A s : W!Utf8(s) = P!Utf8(s) /\ W!ParseUdpMessage(s) = P!ParseUdpMessage(s)
  /\ \A k, v, s : W!Read(k, v, s) = P!Read(k, v, s)
  <1>1. W!Byte = P!Byte /\ W!Power = P!Power /\ W!Lengths = P!Lengths
      BY DEF W!Byte, W!Power, W!Lengths, P!Byte, P!Power, P!Lengths
  <1>2. /\ \A i, n : W!BigEndian(i, n) = P!BigEndian(i, n)
        /\ \A b : W!Number(b) = P!Number(b)
        /\ \A i : W!VarintLen(i) = P!VarintLen(i)
        /\ \A k, v, s : W!Read(k, v, s) = P!Read(k, v, s)
        /\ \A s : W!Utf8(s) = P!Utf8(s)
    <2>1. \A i, n : W!BigEndian(i, n) = P!BigEndian(i, n)
        BY <1>1 DEF W!BigEndian, P!BigEndian
    <2>2. \A b : W!Number(b) = P!Number(b)
        BY DEF W!Number, W!Byte, P!Number, P!Byte
    <2>3. \A i : W!VarintLen(i) = P!VarintLen(i)
        BY DEF W!VarintLen, W!Byte, W!Power, W!Lengths,
            P!VarintLen, P!Byte, P!Power, P!Lengths
    <2>4. \A k, v, s : W!Read(k, v, s) = P!Read(k, v, s)
        BY DEF W!Read, P!Read
    <2>5. \A s : W!Utf8(s) = P!Utf8(s)
        BY DEF W!Utf8, P!Utf8
    <2> QED BY <2>1, <2>2, <2>3, <2>4, <2>5
  <1>3. /\ W!Invalid = P!Invalid
        /\ \A i : W!VarintPut(i) = P!VarintPut(i)
        /\ \A s, n : W!ReadExact(s, n) = P!ReadExact(s, n)
    <2>1. W!Invalid = P!Invalid
        BY DEF W!Invalid, W!Read, P!Invalid, P!Read
    <2>2. \A i : W!VarintPut(i) = P!VarintPut(i)
        BY DEF W!VarintPut, W!VarintLen, W!BigEndian, W!Byte, W!Power, W!Lengths,
            P!VarintPut, P!VarintLen, P!BigEndian, P!Byte, P!Power, P!Lengths
    <2>3. \A s, n : W!ReadExact(s, n) = P!ReadExact(s, n)
        BY DEF W!ReadExact, W!Read, W!More, P!ReadExact, P!Read, P!More
    <2> QED BY <2>1, <2>2, <2>3
  <1>4. \A s : W!VarintRead(s) = P!VarintRead(s)
      BY DEF W!VarintRead, W!ReadExact, W!Read, W!More, W!Number, W!Byte, W!Lengths,
            P!VarintRead, P!ReadExact, P!Read, P!More, P!Number, P!Byte, P!Lengths
  <1>5. \A m : /\ W!HeaderSize(m) = P!HeaderSize(m) /\ W!MessageSize(m) = P!MessageSize(m)
              /\ W!Serialize(m) = P!Serialize(m)
      BY <1>2, <1>3 DEF W!HeaderSize, W!MessageSize, W!Serialize, W!Block,
            P!HeaderSize, P!MessageSize, P!Serialize, P!Block
  <1>6. \A s : W!ParseUdpMessage(s) = P!ParseUdpMessage(s)
      BY <1>2, <1>3, <1>4 DEF W!ParseUdpMessage, P!ParseUdpMessage
  <1> QED BY <1>1, <1>2, <1>3, <1>5, <1>6

\* Every header that may be sent has a size.
LEMMA HeaderFits ==
  ASSUME NEW h \in Headers
  PROVE  W!HeaderSize(h) \in Nat
  <1>1. /\ h.addr \in Seq(0 .. W!Byte - 1) /\ Len(h.addr) \in 1 .. MaxMessageLength
        /\ MaxMessageLength \in Nat /\ MaxMessageLength < Q * W!Power[7]
      BY UdpAssumption DEF W!WireAssumption
  <1>2. PICK n \in Nat : n = Len(h.addr)
      BY <1>1
  <1>3. n < Q * P!Power[7]
    <2>1. Q * W!Power[7] \in Nat
        BY StreamHolds, TextHolds, WireHolds, P!Powers, SameCodec DEF P!WireAssumption
    <2> QED BY <1>1, <1>2, <2>1, SameCodec
  <1>4. P!VarintLen(n) \in Nat
    <2>1. PICK t \in 1 .. 4 : P!VarintLen(n) = P!Lengths[t]
        BY <1>3, StreamHolds, TextHolds, WireHolds, P!VarintLenIs
    <2> QED BY <2>1 DEF P!Lengths
  <1> QED BY <1>2, <1>4, SameCodec DEF W!HeaderSize

\* What goes out of a payload, and that it is fit for its receiver.
LEMMA SentCut ==
  ASSUME NEW s \in Sendings
  PROVE  /\ F!Cut(Sent[s], s[1], W!HeaderSize(s[2]), s[3])
         /\ Written(Sent[s], 0 .. W!Byte - 1)
         /\ Sent[s] # << >> /\ Len(Sent[s]) < U8 => F!Join(Sent[s]) = s[1]
  <1>1. /\ s[1] \in Seq(0 .. W!Byte - 1) /\ W!HeaderSize(s[2]) \in Nat /\ s[3] \in Nat
      BY HeaderFits, UdpAssumption DEF Sendings
  <1>2. Sent[s] = F!SendMessage(s[1], W!HeaderSize(s[2]), s[3])
      BY DEF Sent
  <1> QED BY <1>1, <1>2, CutWhole

\* Each fragment is a message that the codec knows.
LEMMA FragmentsRead == AllRead
  <1> SUFFICES ASSUME NEW s \in Sendings, NEW k \in DOMAIN Sent[s],
                      NEW m, m = Message(s[2], Sent[s][k])
               PROVE  /\ Len(W!Serialize(m)) <= s[3]
                      /\ W!ParseUdpMessage(W!Serialize(m)) =
                            IF m.data = << >> THEN W!Invalid ELSE W!Read("ok", m, << >>)
      BY DEF AllRead
  <1> DEFINE h == s[2]
             f == Sent[s][k]
  <1>1. /\ h \in Headers /\ s[3] \in Nat
        /\ h.session \in 0 .. W!Byte * W!Power[3] - 1
        /\ h.packet \in 0 .. W!Byte * W!Power[1] - 1
        /\ h.addr \in Seq(0 .. W!Byte - 1) /\ W!Utf8(h.addr)
        /\ Len(h.addr) \in 1 .. MaxMessageLength
      BY UdpAssumption DEF Sendings
  <1>2. /\ Written(Sent[s], 0 .. W!Byte - 1)
        /\ F!Fitting(Sent[s], s[1], W!HeaderSize(h), s[3])
      BY SentCut DEF F!Cut
  <1>3. /\ f.fragId \in 0 .. U8 - 1 /\ f.fragCount \in (0 .. U8 - 1) \cup {1}
        /\ f.data \in Seq(0 .. W!Byte - 1)
        /\ W!HeaderSize(h) + Len(f.data) <= s[3]
    <2>1. k \in 1 .. Len(Sent[s])
        BY <1>2 DEF Written
    <2> QED BY <1>2, <2>1 DEF Written, F!Fitting, F!Size
  <1>4. /\ m = [session |-> h.session, packet |-> h.packet, addr |-> h.addr,
                fragId |-> f.fragId, fragCount |-> f.fragCount, data |-> f.data]
      BY DEF Message
  <1> HIDE DEF h, f
  <1>5. /\ U8 <= W!Byte /\ W!Byte \in Nat /\ 1 < W!Byte
      BY UdpAssumption DEF W!Byte, W!WireAssumption
  <1>6. f.fragId \in 0 .. W!Byte - 1 /\ f.fragCount \in 0 .. W!Byte - 1
      BY <1>3, <1>5
  <1>7. Len(h.addr) < Q * W!Power[7]
    <2>1. Q * W!Power[7] \in Nat /\ MaxMessageLength \in Nat /\ MaxMessageLength < Q * W!Power[7]
        BY UdpAssumption, StreamHolds, TextHolds, WireHolds, P!Powers, SameCodec
            DEF P!WireAssumption
    <2> QED BY <1>1, <2>1
  <1>8. m \in P!UdpMessage
      BY <1>1, <1>3, <1>4, <1>6, <1>7, SameCodec DEF P!UdpMessage, P!Bytes, P!Input
  <1>9. /\ Len(P!Serialize(m)) = P!MessageSize(m)
        /\ P!ParseUdpMessage(P!Serialize(m)) = IF m.data = << >> THEN P!Invalid
                                               ELSE P!Read("ok", m, << >>)
      BY <1>8, StreamHolds, TextHolds, WireHolds, P!MessageRead
  <1>10. W!MessageSize(m) = W!HeaderSize(h) + Len(f.data)
      BY <1>4 DEF W!MessageSize, W!HeaderSize
  <1> QED BY <1>3, <1>9, <1>10, SameCodec

\* From the first byte of a payload to the last, for every payload, header and
\* path, every set of messages and whatever the network does with their
\* fragments: the bytes of each fragment fit the path and are read as they were
\* written, and without a collision of packet ids what feed returns is the
\* payload of one message that was sent.
THEOREM EndToEnd == Spec => []FitsAndJoins
  <1>1. AllCut /\ AllRead
      BY SentCut, FragmentsRead DEF AllCut
  <1>2. ASSUME NEW m \in Msgs, out = Whole(m)
        PROVE  /\ DOMAIN out = Positions(Pieces[m])
               /\ \A i \in DOMAIN out : out[i][1] = m
               /\ \A d \in Distinct[Pieces[m]] : Assembled(d[2]) = d[1]
    <2>1. /\ Pieces[m] \in 1 .. U8 - 1 /\ U8 \in Nat
          /\ DOMAIN out = Positions(Pieces[m])
          /\ \A i \in DOMAIN out : out[i] = <<m, i>>
        BY <1>2 DEF Whole
    <2>2. ASSUME NEW d \in Distinct[Pieces[m]] PROVE Assembled(d[2]) = d[1]
      <3>1. PICK s \in Sendings : Len(Sent[s]) = Pieces[m] /\ d = <<s[1], Sent[s]>>
          BY <2>1 DEF Distinct
      <3>2. PICK wire : wire = Sent[s]
          OBVIOUS
      <3>3. /\ Len(wire) = Pieces[m] /\ DOMAIN wire = 1 .. Len(wire)
            /\ wire = [k \in 1 .. Len(wire) |-> wire[k]]
            /\ wire # << >> /\ Len(wire) < U8
        <4>1. Len(wire) # 0 /\ Len(wire) < U8
            BY <2>1, <3>1, <3>2
        <4> QED BY <3>1, <3>2, <4>1, SentCut DEF Written
      <3>4. \A k \in 1 .. Len(wire) : wire[out[k - 1][2] + 1] = wire[k]
        <4> TAKE k \in 1 .. Len(wire)
        <4>1. k - 1 \in Positions(Pieces[m]) /\ (k - 1) + 1 = k
            BY <2>1, <3>3 DEF Positions
        <4>2. out[k - 1][2] = k - 1
            BY <2>1, <4>1
        <4> QED BY <4>1, <4>2
      <3>5. Assembled(wire) = F!Join(wire)
        <4>1. [k \in DOMAIN wire |-> wire[out[k - 1][2] + 1]] = wire
            BY <3>3, <3>4
        <4> QED BY <4>1, Zenon DEF Assembled
      <3>6. F!Join(wire) = s[1]
          BY <3>2, <3>3, SentCut
      <3> QED BY <3>1, <3>2, <3>5, <3>6
    <2> QED BY <2>1, <2>2
  <1>3. NeverMixed => FitsAndJoins
      BY <1>1, <1>2 DEF NeverMixed, FitsAndJoins
  <1> QED BY <1>3, Integrity, PTL
=============================================================================
