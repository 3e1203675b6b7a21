------------------------- MODULE UdpSessionsProofs -------------------------
(* Theorems about UdpSessions, for every id space and channel size.         *)
EXTENDS UdpSessions, SequenceTheorems, TLAPS

USE UdpSessionsAssumption

\* The initial table satisfies the inductive invariant.
LEMMA InitInv == Init => UdpInv
  <1> SUFFICES ASSUME Init PROVE UdpInv
      OBVIOUS
  <1>1. TypeOK
    <2>1. << >> \in Seq(Message) /\ Len(<< >>) = 0
        BY EmptySeq
    <2>2. chan \in [Conns -> Seq(Message)] /\ \A c \in Conns : Len(chan[c]) <= ChanSize
        BY <2>1 DEF Init
    <2>3. map \in [Ids -> Conns \cup {None}] /\ nextId \in Ids /\ id \in [Conns -> Ids]
        BY DEF Init, Ids
    <2> QED BY <2>2, <2>3 DEF Init, TypeOK
  <1>2. IdsInOrder
      BY DEF Init, IdsInOrder, Born, WrappingNext
  <1>3. QuietUnborn /\ MessagesMatch
      BY DEF Init, QuietUnborn, MessagesMatch
  <1>4. OpenRegistered /\ NoLeakedEntry /\ EofIsFinal /\ EofExplained
      BY DEF Init, OpenRegistered, NoLeakedEntry, EofIsFinal, EofExplained, Open, Ids
  <1> QED BY <1>1, <1>2, <1>3, <1>4 DEF UdpInv

\* A new session gets an id no earlier one has, until ids wrap.
LEMMA NewUdpStep ==
  ASSUME UdpInv, NEW c \in Conns, NewUdp(c)
  PROVE  UdpInv'
  <1> USE DEF UdpInv
  <1>0. /\ nextId \in Ids /\ nextId' \in Ids /\ opened \in Nat
        /\ map' \in [Ids -> Conns \cup {None}]
        /\ \A i \in Ids : map'[i] = IF i = nextId THEN c ELSE map[i]
        /\ \A d \in Conns : id'[d] = IF d = c THEN nextId ELSE id[d]
        /\ \A d \in Conns : life'[d] = IF d = c THEN "open" ELSE life[d]
        /\ id' \in [Conns -> Ids]
        /\ life' \in [Conns -> {"unborn", "open", "dropped"}]
      BY DEF NewUdp, TypeOK, Ids, WrappingNext
  <1>1. TypeOK'
    <2>1. opened' \in Nat
        BY <1>0 DEF NewUdp
    <2>2. UNCHANGED <<closed, chan, eof, pump, manager, link, flight, ended>>
        BY DEF NewUdp
    <2>3. (flight \subseteq Message)' /\ (chan \in [Conns -> Seq(Message)])'
        BY <2>2 DEF TypeOK, Message, Ids
    <2> QED BY <1>0, <2>1, <2>2, <2>3 DEF TypeOK
  <1>2. Born' = Born \cup {c} /\ c \notin Born /\ Open' = Open \cup {c}
      BY <1>0 DEF NewUdp, Born, Open, TypeOK
  <1>3. IdsInOrder'
    <2>1. ASSUME opened < IdSpace
          PROVE  \A d \in Born : id[d] # nextId
        BY <2>1, <1>0 DEF IdsInOrder, WrappingNext, Ids, Born
    <2>2. ASSUME opened' < IdSpace
          PROVE  nextId' = WrappingNext(opened') /\ \A d \in Born' : id'[d] \in 1 .. opened'
      <3>1. nextId = WrappingNext(opened) /\ \A d \in Born : id[d] \in 1 .. opened
          BY <2>2, <1>0 DEF IdsInOrder, NewUdp
      <3>2. nextId = opened + 1
          BY <3>1, <2>2, <1>0 DEF WrappingNext, NewUdp
      <3>3. nextId' = WrappingNext(opened')
          BY <3>2, <1>0 DEF NewUdp
      <3>4. \A d \in Born' : id'[d] \in 1 .. opened'
          BY <3>1, <3>2, <1>2, <1>0 DEF NewUdp, Born
      <3> QED BY <3>3, <3>4
    <2>3. ASSUME NoWrap'
          PROVE  \A d, e \in Born' : id'[d] = id'[e] => d = e
      <3>1. opened < IdSpace /\ NoWrap
          BY <2>3, <1>0 DEF NewUdp, NoWrap
      <3> QED BY <3>1, <2>1, <1>2, <1>0 DEF IdsInOrder, Born
    <2> QED BY <2>2, <2>3 DEF IdsInOrder
  <1>4. QuietUnborn'
      BY <1>0 DEF NewUdp, QuietUnborn
  <1>5. MessagesMatch'
    <2>1. \A m \in flight : m.to \in Born' /\ m.id = id'[m.to]
        BY <1>0, <1>2 DEF MessagesMatch, Born
    <2>2. ASSUME NEW d \in Conns, NEW k \in DOMAIN chan[d]
          PROVE  /\ chan[d][k].to \in Born' /\ chan[d][k].id = id'[chan[d][k].to]
                 /\ chan[d][k].id = id'[d] /\ d \in Open'
      <3>1. /\ chan[d][k].to \in Born /\ chan[d][k].id = id[chan[d][k].to]
            /\ chan[d][k].id = id[d] /\ d \in Open
          BY DEF MessagesMatch
      <3> QED BY <3>1, <1>0, <1>2 DEF Born, Open
    <2> QED BY <2>1, <2>2 DEF NewUdp, MessagesMatch
  <1>6. OpenRegistered'
    <2> SUFFICES ASSUME NoWrap', ~closed', NEW d \in (Open \ ended)'
                 PROVE  map'[id'[d]] = d
        BY DEF OpenRegistered
    <2>1. NoWrap /\ opened < IdSpace
        BY <1>0 DEF NewUdp, NoWrap
    <2>2. CASE d = c
        BY <2>2, <1>0
    <2>3. CASE d # c
      <3>1. d \in Open \ ended /\ d \in Born /\ d \in Conns
          BY <2>3, <1>2 DEF NewUdp, Open, Born
      <3>2. id[d] # nextId
          BY <2>1, <3>1, <1>0 DEF IdsInOrder, WrappingNext, Ids
      <3> QED BY <3>1, <3>2, <2>1, <2>3, <1>0 DEF OpenRegistered, NewUdp, TypeOK
    <2> QED BY <2>2, <2>3
  <1>7. NoLeakedEntry'
      BY <1>0, <1>2 DEF NewUdp, NoLeakedEntry, Open, Born
  <1>8. EofIsFinal'
      BY <1>0 DEF NewUdp, EofIsFinal, Registered, QuietUnborn, TypeOK
  <1>9. EofExplained'
      BY <1>0 DEF NewUdp, EofExplained, NoWrap
  <1> QED BY <1>1, <1>3, <1>4, <1>5, <1>6, <1>7, <1>8, <1>9

\* A message is put into a channel of a session that is registered, not
\* closed and not at EOF.
LEMMA FeedStep ==
  ASSUME UdpInv, NEW m \in flight, Feed(m)
  PROVE  UdpInv'
  <1> USE DEF UdpInv
  <1> DEFINE c == map[m.id]
  <1>1. m \in Message /\ m.id \in Ids /\ m.to \in Born /\ m.id = id[m.to]
      BY DEF TypeOK, MessagesMatch, Message
  <1>2. CASE c = None \/ ~(Len(chan[c]) < ChanSize)
    <2>1. chan' = chan /\ flight' \subseteq flight
        BY <1>2 DEF Feed, HasRoom
    <2>2. UNCHANGED <<map, nextId, closed, id, life, eof, pump, manager, link, opened, ended>>
        BY DEF Feed, HasRoom
    <2>3. TypeOK'
        BY <2>1, <2>2 DEF TypeOK
    <2>4. MessagesMatch'
        BY <2>1, <2>2 DEF MessagesMatch, Born, Open
    <2> QED BY <2>1, <2>2, <2>3, <2>4 DEF IdsInOrder, QuietUnborn, OpenRegistered,
                NoLeakedEntry, EofIsFinal, EofExplained, Born, Open, NoWrap, Registered
  <1>3. CASE c # None /\ Len(chan[c]) < ChanSize
    <2>1. c \in Conns /\ c \in Open /\ id[c] = m.id /\ Registered(c)
        BY <1>1, <1>3 DEF NoLeakedEntry, Open, Registered
    <2>2. chan[c] \in Seq(Message)
        BY <2>1 DEF TypeOK
    <2> DEFINE s == Append(chan[c], m)
    <2>3. /\ s \in Seq(Message) /\ Len(s) <= ChanSize
          /\ \A k \in DOMAIN s : s[k] = m \/ (k \in DOMAIN chan[c] /\ s[k] = chan[c][k])
        BY <2>2, <1>1, <1>3, AppendProperties
    <2>4. chan' = [chan EXCEPT ![c] = s]
        BY <1>3 DEF Feed, HasRoom
    <2> HIDE DEF s, c
    <2>5. \A d \in Conns : chan'[d] = IF d = c THEN s ELSE chan[d]
        BY <2>4, <2>1 DEF TypeOK
    <2>6. TypeOK'
      <3>1. chan' \in [Conns -> Seq(Message)]
          BY <2>3, <2>4 DEF TypeOK
      <3>2. \A d \in Conns : Len(chan'[d]) <= ChanSize
          BY <2>3, <2>5 DEF TypeOK
      <3> QED BY <3>1, <3>2 DEF Feed, HasRoom, TypeOK
    <2>7. c \notin eof
        BY <2>1 DEF EofIsFinal
    <2>8. MessagesMatch'
      <3>1. Born' = Born /\ Open' = Open /\ id' = id /\ flight' \subseteq flight
          BY DEF Feed, HasRoom, Born, Open
      <3>2. ASSUME NEW d \in Conns, NEW k \in DOMAIN chan'[d]
            PROVE  /\ chan'[d][k].to \in Born /\ chan'[d][k].id = id[chan'[d][k].to]
                   /\ chan'[d][k].id = id[d] /\ d \in Open
        <4>1. CASE d = c /\ chan'[d][k] = m
            BY <4>1, <1>1, <2>1
        <4>2. CASE k \in DOMAIN chan[d] /\ chan'[d][k] = chan[d][k]
            BY <4>2 DEF MessagesMatch
        <4>3. CASE d = c
            BY <4>1, <4>2, <4>3, <2>3, <2>5
        <4> QED BY <4>2, <4>3, <2>5
      <3> QED BY <3>1, <3>2 DEF MessagesMatch
    <2>9. EofIsFinal'
        BY <2>5, <2>7 DEF Feed, HasRoom, EofIsFinal, Registered, TypeOK
    <2>10. QuietUnborn'
        BY <2>1, <2>5 DEF Feed, HasRoom, QuietUnborn, Open
    <2>11. IdsInOrder' /\ OpenRegistered' /\ NoLeakedEntry' /\ EofExplained'
        BY DEF Feed, HasRoom, IdsInOrder, OpenRegistered, NoLeakedEntry, EofExplained, Born, Open, NoWrap
    <2> QED BY <2>6, <2>8, <2>9, <2>10, <2>11
  <1> QED BY <1>2, <1>3

\* Receiving only shortens the connection's own channel.
LEMMA ReceiveStep ==
  ASSUME UdpInv, NEW c \in Conns, Receive(c)
  PROVE  UdpInv'
  <1> USE DEF UdpInv
  <1> DEFINE s == Tail(chan[c])
  <1>1. /\ s \in Seq(Message) /\ Len(s) <= ChanSize
        /\ \A k \in DOMAIN s : k + 1 \in DOMAIN chan[c] /\ s[k] = chan[c][k + 1]
    <2>1. chan[c] \in Seq(Message) /\ chan[c] # << >> /\ Len(chan[c]) <= ChanSize
        BY DEF Receive, TypeOK
    <2> QED BY <2>1, HeadTailProperties
  <1>2. chan' = [chan EXCEPT ![c] = s]
      BY DEF Receive
  <1> HIDE DEF s
  <1>3. \A d \in Conns : chan'[d] = IF d = c THEN s ELSE chan[d]
      BY <1>2 DEF TypeOK
  <1>4. TypeOK'
    <2>1. chan' \in [Conns -> Seq(Message)]
        BY <1>1, <1>2 DEF TypeOK
    <2>2. \A d \in Conns : Len(chan'[d]) <= ChanSize
        BY <1>1, <1>3 DEF TypeOK
    <2> QED BY <2>1, <2>2 DEF Receive, TypeOK
  <1>5. MessagesMatch'
    <2>1. Born' = Born /\ Open' = Open /\ id' = id /\ flight' = flight
        BY DEF Receive, Born, Open
    <2>2. ASSUME NEW d \in Conns, NEW k \in DOMAIN chan'[d]
          PROVE  /\ chan'[d][k].to \in Born /\ chan'[d][k].id = id[chan'[d][k].to]
                 /\ chan'[d][k].id = id[d] /\ d \in Open
      <3>1. \E j \in DOMAIN chan[d] : chan'[d][k] = chan[d][j]
          BY <1>1, <1>3
      <3> QED BY <3>1 DEF MessagesMatch
    <2> QED BY <2>1, <2>2 DEF MessagesMatch
  <1>6. EofIsFinal'
      BY <1>3 DEF Receive, EofIsFinal, Registered, TypeOK
  <1>7. QuietUnborn'
      BY <1>3 DEF Receive, QuietUnborn
  <1>8. IdsInOrder' /\ OpenRegistered' /\ NoLeakedEntry' /\ EofExplained'
      BY DEF Receive, IdsInOrder, OpenRegistered, NoLeakedEntry, EofExplained, Born, Open, NoWrap
  <1> QED BY <1>4, <1>5, <1>6, <1>7, <1>8

\* EOF is returned only when the sender is gone: by a close of this session,
\* or by the cleanup.
LEMMA EofStep ==
  ASSUME UdpInv, NEW c \in Conns, ReceiveEof(c)
  PROVE  UdpInv'
  <1> USE DEF UdpInv
  <1>1. TypeOK' /\ IdsInOrder' /\ MessagesMatch' /\ OpenRegistered' /\ NoLeakedEntry'
      BY DEF ReceiveEof, TypeOK, IdsInOrder, MessagesMatch, OpenRegistered, NoLeakedEntry,
             Born, Open, NoWrap
  <1>2. QuietUnborn' /\ EofIsFinal'
      BY DEF ReceiveEof, QuietUnborn, EofIsFinal, Registered
  <1>3. EofExplained'
    <2>1. NoWrap /\ ~closed => c \in ended
        BY DEF ReceiveEof, OpenRegistered, Open, Registered, TypeOK
    <2> QED BY <2>1 DEF ReceiveEof, EofExplained, NoWrap
  <1> QED BY <1>1, <1>2, <1>3

\* Until ids wrap, the entry that close removes is the session's own.
LEMMA CloseStep ==
  ASSUME UdpInv, NEW c \in Conns, Close(c) \/ DropConn(c)
  PROVE  UdpInv'
  <1> USE DEF UdpInv
  <1>1. /\ id[c] \in Ids /\ c \in Open /\ c \in Born
        /\ map' \in [Ids -> Conns \cup {None}]
        /\ \A i \in Ids : map'[i] = IF i = id[c] THEN None ELSE map[i]
        /\ ended' = ended \cup {c}
        /\ UNCHANGED <<nextId, closed, id, eof, pump, manager, link, flight, opened>>
      BY DEF Close, DropConn, RemoveId, TypeOK, Open, Born
  <1>2. /\ \A d \in Conns : d # c => life'[d] = life[d] /\ chan'[d] = chan[d]
        /\ \/ life'[c] = "open" /\ chan'[c] = chan[c]
           \/ life'[c] = "dropped" /\ chan'[c] = << >>
        /\ life' \in [Conns -> {"unborn", "open", "dropped"}]
        /\ chan' \in [Conns -> Seq(Message)]
        /\ \A d \in Conns : Len(chan'[d]) <= ChanSize
    <2>1. CASE Close(c)
        BY <2>1 DEF Close, TypeOK
    <2>2. CASE DropConn(c)
      <3>1. << >> \in Seq(Message) /\ Len(<< >>) = 0
          BY EmptySeq
      <3> QED BY <2>2, <3>1 DEF DropConn, TypeOK
    <2> QED BY <2>1, <2>2
  <1>3. TypeOK'
      BY <1>1, <1>2 DEF TypeOK
  <1>4. Born' = Born /\ Open' \subseteq Open /\ \A d \in Open : d # c => d \in Open'
      BY <1>1, <1>2 DEF Born, Open
  <1>5. IdsInOrder' /\ QuietUnborn' /\ EofExplained'
      BY <1>1, <1>2, <1>4 DEF IdsInOrder, QuietUnborn, EofExplained, NoWrap, Open
  <1>6. MessagesMatch'
      BY <1>1, <1>2, <1>4, SMTT(30) DEF MessagesMatch, Open
  <1>7. OpenRegistered'
    <2> SUFFICES ASSUME NoWrap, ~closed, NEW d \in Open', d \notin ended'
                 PROVE  map'[id[d]] = d
        BY <1>1 DEF OpenRegistered, NoWrap
    <2>1. d # c /\ d \in Open /\ d \in Born /\ d \in Conns /\ d \notin ended
        BY <1>1, <1>4 DEF Open, Born
    <2>2. id[d] # id[c]
        BY <1>1, <2>1 DEF IdsInOrder
    <2> QED BY <1>1, <2>1, <2>2 DEF OpenRegistered, TypeOK
  <1>8. NoLeakedEntry'
      BY <1>1, <1>4 DEF NoLeakedEntry
  <1>9. EofIsFinal'
    <2> SUFFICES ASSUME NEW d \in eof PROVE chan'[d] = << >> /\ ~Registered(d)'
        BY <1>1 DEF EofIsFinal
    <2>1. d \in Conns /\ d # None /\ chan[d] = << >> /\ ~Registered(d)
        BY DEF EofIsFinal, TypeOK
    <2>2. ~Registered(d)'
        BY <1>1, <2>1 DEF Registered
    <2> QED BY <1>2, <2>1, <2>2
  <1> QED BY <1>3, <1>5, <1>6, <1>7, <1>8, <1>9

\* The cleanup empties the table, and explains every EOF from then on.
LEMMA CleanupStep ==
  ASSUME UdpInv, Cleanup
  PROVE  UdpInv'
  BY DEF UdpInv, Cleanup, TypeOK, IdsInOrder, QuietUnborn, MessagesMatch, OpenRegistered,
         NoLeakedEntry, EofIsFinal, EofExplained, Born, Open, NoWrap, Registered

\* The steps of the runtime, the server and the network touch neither the
\* table nor a channel.
LEMMA OutsideStep ==
  ASSUME UdpInv,
         \/ DropManager \/ PumpCancelled \/ LinkFails
         \/ \E c \in Conns : ServerSends(c)
         \/ \E m \in flight : Lose(m)
         \/ UNCHANGED vars
  PROVE  UdpInv'
  <1> USE DEF UdpInv
  <1>1. UNCHANGED <<map, nextId, closed, id, life, chan, eof, opened, ended>>
      BY DEF DropManager, PumpCancelled, LinkFails, ServerSends, Lose, vars
  <1>2. \A m \in flight' : m \in Message /\ m.to \in Born /\ m.id = id[m.to]
    <2>1. CASE \E c \in Conns : ServerSends(c)
      <3>1. PICK c \in Conns : ServerSends(c)
          BY <2>1
      <3>2. c \in Born /\ id[c] \in Ids
          BY <3>1 DEF ServerSends, Born, TypeOK
      <3> QED BY <3>1, <3>2 DEF ServerSends, MessagesMatch, TypeOK, Message
    <2>2. CASE flight' \subseteq flight
        BY <2>2 DEF MessagesMatch, TypeOK
    <2> QED BY <2>1, <2>2 DEF DropManager, PumpCancelled, LinkFails, Lose, vars
  <1>3. /\ pump' \in {"running", "finished", "cancelled"}
        /\ manager' \in BOOLEAN /\ link' \in BOOLEAN
      BY DEF DropManager, PumpCancelled, LinkFails, ServerSends, Lose, vars,
             TypeOK
  <1>4. TypeOK'
      BY <1>1, <1>2, <1>3 DEF TypeOK
  <1>5. MessagesMatch'
      BY <1>1, <1>2 DEF MessagesMatch, Born, Open
  <1> QED BY <1>1, <1>4, <1>5 DEF IdsInOrder, QuietUnborn, OpenRegistered, NoLeakedEntry,
                EofIsFinal, EofExplained, Born, Open, NoWrap, Registered

\* The table's invariant, through every order of opening, closing, dropping,
\* feeding, losing messages and failing.
THEOREM UdpInvariant == Spec => []UdpInv
  <1>1. UdpInv /\ [Next]_vars => UdpInv'
    <2> SUFFICES ASSUME UdpInv, [Next]_vars PROVE UdpInv'
        OBVIOUS
    <2> QED BY NewUdpStep, FeedStep, ReceiveStep, EofStep, CloseStep, CleanupStep, OutsideStep
            DEF Next, Pump
  <1> QED BY <1>1, InitInv, PTL DEF Spec

\* Until ids wrap, no message reaches a session it was not sent to: the ids
\* of the message, of the channel's connection and of the addressee agree,
\* and no two connections have the same.
THEOREM Routing == Spec => []NoCrossTalk
  <1>1. UdpInv => NoCrossTalk
    <2> SUFFICES ASSUME UdpInv, NoWrap, NEW c \in Conns, NEW k \in DOMAIN chan[c]
                 PROVE  chan[c][k].to = c
        BY DEF NoCrossTalk
    <2> QED BY DEF UdpInv, MessagesMatch, IdsInOrder, Born, Open
  <1> QED BY <1>1, UdpInvariant, PTL

\* Until ids wrap, closing one session never takes the entry of another.
THEOREM Registration == Spec => []OpenRegistered
  <1>1. UdpInv => OpenRegistered
      BY DEF UdpInv
  <1> QED BY <1>1, UdpInvariant, PTL

\* EOF is final, whether or not ids have wrapped.
THEOREM EofFinality == Spec => []EofIsFinal
  <1>1. UdpInv => EofIsFinal
      BY DEF UdpInv
  <1> QED BY <1>1, UdpInvariant, PTL

\* close, Drop and a failed send leave no entry behind: what is in the table is a
\* session somebody still holds, under its own id.
THEOREM NoLeak == Spec => []NoLeakedEntry
  <1>1. UdpInv => NoLeakedEntry
      BY DEF UdpInv
  <1> QED BY <1>1, UdpInvariant, PTL

\* Until ids wrap, no consumer is told EOF for a session nobody ended.
THEOREM EofReasons == Spec => []EofExplained
  <1>1. UdpInv => EofExplained
      BY DEF UdpInv
  <1> QED BY <1>1, UdpInvariant, PTL
=============================================================================
