--------------------------- MODULE AppModelProofs ---------------------------
(* Theorems about the actor thread: about AppModel, for any profiles,       *)
(* names, failures and any length of the command channel, and about the     *)
(* statistics it passes on (StatsGate), for any number of observers.        *)
EXTENDS AppModel, StatsGate, SequenceTheorems, TLAPS

USE AppModelAssumption

\* The list that is shown has the ids of the store's list.
LEMMA ListIds ==
  ASSUME NEW ps
  PROVE  IdsOf(ListOf(ps)) = IdsOf(ps)
  <1>1. DOMAIN ListOf(ps) = DOMAIN ps /\ \A i \in DOMAIN ps : ListOf(ps)[i].id = ps[i].id
      BY DEF ListOf
  <1> QED BY <1>1 DEF IdsOf

\* A deletion keeps the ids of the other profiles.
LEMMA IdsAfterDelete ==
  ASSUME NEW S, NEW ps \in Seq(S), NEW p \in DOMAIN ps
  PROVE  /\ RemoveAt(ps, p) \in Seq(S)
         /\ \A x \in IdsOf(ps) : x # ps[p].id => x \in IdsOf(RemoveAt(ps, p))
  <1> DEFINE a == SubSeq(ps, 1, p - 1)
             b == SubSeq(ps, p + 1, Len(ps))
             t == a \o b
  <1>1. /\ Len(ps) \in Nat /\ DOMAIN ps = 1 .. Len(ps) /\ p \in 1 .. Len(ps)
        /\ \A i \in 1 .. Len(ps) : ps[i] \in S
      BY ElementOfSeq, LenProperties
  <1>2. a \in Seq(S) /\ Len(a) = p - 1 /\ \A i \in 1 .. p - 1 : a[i] = ps[i]
      BY <1>1, SubSeqProperties
  <1>3. b \in Seq(S) /\ Len(b) = Len(ps) - p /\ \A i \in 1 .. Len(ps) - p : b[i] = ps[p + i]
      BY <1>1, SubSeqProperties
  <1> HIDE DEF a, b
  <1>4. /\ t \in Seq(S) /\ Len(t) = Len(ps) - 1
        /\ \A i \in 1 .. Len(ps) - 1 : t[i] = IF i <= Len(a) THEN a[i] ELSE b[i - Len(a)]
    <2>1. /\ t \in Seq(S) /\ Len(t) = Len(a) + Len(b)
          /\ \A i \in 1 .. Len(a) + Len(b) : t[i] = IF i <= Len(a) THEN a[i] ELSE b[i - Len(a)]
        BY ONLY <1>2, <1>3, ConcatProperties, Zenon
    <2>2. Len(a) + Len(b) = Len(ps) - 1
        BY <1>1, <1>2, <1>3
    <2> QED BY <2>1, <2>2
  <1>5. t = RemoveAt(ps, p)
      BY DEF RemoveAt, a, b
  <1> HIDE DEF t
  <1>6. DOMAIN t = 1 .. Len(ps) - 1
      BY <1>4, LenProperties
  <1>7. ASSUME NEW i \in DOMAIN ps, ps[i].id # ps[p].id PROVE ps[i].id \in IdsOf(t)
    <2>1. CASE i < p
      <3>1. i \in DOMAIN t /\ t[i] = ps[i]
          BY <1>1, <1>2, <1>4, <1>6, <2>1
      <3> QED BY <3>1 DEF IdsOf
    <2>2. CASE i > p
      <3>1. i - 1 \in 1 .. Len(ps) - 1 /\ ~(i - 1 <= Len(a)) /\ i - p \in 1 .. Len(ps) - p
          BY <1>1, <1>2, <2>2
      <3>2. t[i - 1] = b[i - p]
          BY <1>1, <1>2, <1>4, <3>1
      <3>3. t[i - 1] = ps[i]
        <4>1. p + (i - p) = i
            BY <1>1
        <4> QED BY <1>3, <3>1, <3>2, <4>1
      <3> QED BY <1>6, <3>1, <3>3 DEF IdsOf
    <2> QED BY <1>1, <1>7, <2>1, <2>2
  <1> QED BY <1>4, <1>5, <1>7 DEF IdsOf

\* An addition keeps all ids and adds the new profile's.
LEMMA IdsAfterAdd ==
  ASSUME NEW S, NEW ps \in Seq(S), NEW p \in S
  PROVE  /\ Append(ps, p) \in Seq(S)
         /\ p.id \in IdsOf(Append(ps, p))
  <1> DEFINE t == Append(ps, p)
  <1>1. t \in Seq(S) /\ Len(ps) + 1 \in DOMAIN t /\ t[Len(ps) + 1] = p
      BY AppendProperties, LenProperties
  <1> HIDE DEF t
  <1> QED BY <1>1 DEF IdsOf, t

\* A renaming keeps all ids.
LEMMA IdsAfterRename ==
  ASSUME NEW ps \in Seq(Store!Profile), NEW p \in DOMAIN ps, NEW n \in Names
  PROVE  /\ [ps EXCEPT ![p].name = n] \in Seq(Store!Profile)
         /\ IdsOf([ps EXCEPT ![p].name = n]) = IdsOf(ps)
  <1> DEFINE t == [ps EXCEPT ![p].name = n]
  <1>1. /\ DOMAIN ps = 1 .. Len(ps) /\ Len(ps) \in Nat
        /\ \A i \in DOMAIN ps : ps[i] \in Store!Profile
      BY LenProperties, ElementOfSeq
  <1>2. [ps[p] EXCEPT !.name = n] \in Store!Profile /\ [ps[p] EXCEPT !.name = n].id = ps[p].id
      BY <1>1 DEF Store!Profile
  <1>3. /\ DOMAIN t = DOMAIN ps
        /\ \A i \in DOMAIN ps : t[i] = IF i = p THEN [ps[p] EXCEPT !.name = n] ELSE ps[i]
      BY <1>1
  <1> HIDE DEF t
  <1>4. IdsOf(t) = IdsOf(ps)
    <2>1. \A i \in DOMAIN ps : t[i].id = ps[i].id
        BY <1>2, <1>3
    <2> QED BY <1>3, <2>1 DEF IdsOf
  <1>5. t \in Seq(Store!Profile)
    <2>1. t \in [1 .. Len(ps) -> Store!Profile]
      <3>1. t = [i \in 1 .. Len(ps) |-> IF i = p THEN [ps[p] EXCEPT !.name = n] ELSE ps[i]]
          BY <1>1 DEF t
      <3> QED BY <3>1, <1>1, <1>2
    <2> QED BY <2>1, <1>1, SeqDef
  <1> QED BY <1>4, <1>5 DEF t

-----------------------------------------------------------------------------

\* An error code that crosses the process boundary comes back as the same
\* error.
LEMMA CodesRoundTrip ==
  \A e \in ConnError : FromCode(ConnErrorCode[e]) = e
  BY DEF ConnError, ConnErrorCode, FromCode

\* Putting a command into the channel.
LEMMA EnqueueTyped ==
  ASSUME TypeOK, NEW c \in Command, Enqueue(c)
  PROVE  queue' \in Seq(Command) /\ Len(queue') <= MaxQueue
  <1>1. queue \in Seq(Command) /\ Len(queue) < MaxQueue /\ queue' = Append(queue, c)
      BY DEF TypeOK, Enqueue
  <1> QED BY <1>1, AppendProperties, LenProperties

\* Taking one out: its type follows from its op.
LEMMA TakeTyped ==
  ASSUME TypeOK, NEW op, Take(op)
  PROVE  /\ queue' \in Seq(Command) /\ Len(queue') <= MaxQueue
         /\ Head(queue) \in Command /\ Head(queue).op = op
         /\ UNCHANGED <<handle, running>>
  <1>1. queue \in Seq(Command) /\ queue # << >> /\ Len(queue) <= MaxQueue
      BY DEF TypeOK, Take
  <1>2. /\ Head(queue) \in Command /\ Tail(queue) \in Seq(Command)
        /\ Len(Tail(queue)) = Len(queue) - 1 /\ Len(queue) \in Nat
      BY <1>1, HeadTailProperties, LenProperties
  <1> QED BY <1>1, <1>2 DEF Take

\* The arguments of the commands that have some.
LEMMA CommandArgs ==
  ASSUME NEW c \in Command
  PROVE  /\ c.op = "add" => c.link \in Links /\ c.label \in Names \cup {None}
         /\ c.op = "rename" => c.id \in Ids /\ c.label \in Names \cup {None}
         /\ c.op \in {"delete", "select", "export"} => c.id \in Ids
         /\ c.op = "status" => /\ c.state \in ConnectionState
                               /\ c.error \in ConnError \cup {None}
  BY DEF Command

\* The list of typed profiles is a typed list.
LEMMA ListTyped ==
  ASSUME NEW ps \in Seq(Store!Profile)
  PROVE  ListOf(ps) \in Seq(Entry)
  <1>1. DOMAIN ps = 1 .. Len(ps) /\ Len(ps) \in Nat /\ \A i \in 1 .. Len(ps) : ps[i] \in Store!Profile
      BY LenProperties, ElementOfSeq
  <1>2. \A i \in 1 .. Len(ps) : [id |-> ps[i].id, name |-> ps[i].name] \in Entry
      BY <1>1 DEF Store!Profile, Entry
  <1>3. ListOf(ps) \in [1 .. Len(ps) -> Entry]
      BY <1>1, <1>2 DEF ListOf
  <1> QED BY <1>1, <1>3, SeqDef

\* The inductive invariant: what the actor holds agrees with the store.
AppInv == TypeOK /\ EntriesMatchStore /\ SelectedIsSaved

\* The actor's own state is typed.
ActorTyped ==
    /\ profiles \in Seq(Store!Profile) /\ minted \subseteq Ids
    /\ selected \in Ids \cup {None}
    /\ connection \in ConnectionState
    /\ lastError \in AppErrors \cup ConnError \cup {None}

\* What every handler that ends in a snapshot has to show.
LEMMA Emitted ==
  ASSUME AppInv, ActorTyped', SelectedIsSaved', entries' = ListOf(profiles'), Emit,
         queue' \in Seq(Command), Len(queue') <= MaxQueue,
         handle' \in BOOLEAN, running' \in BOOLEAN,
         asked' \in Requests \cup {None}, tunnel' = tunnel, told' = told, export' = export
  PROVE  AppInv'
  <1>1. entries' \in Seq(Entry)
      BY ListTyped DEF ActorTyped
  <1>2. view' \in Snapshot
      BY <1>1 DEF Emit, SnapshotOf, Snapshot, ActorTyped
  <1>3. TypeOK'
      BY <1>1, <1>2 DEF AppInv, TypeOK, ActorTyped
  <1>4. EntriesMatchStore'
      BY DEF EntriesMatchStore
  <1> QED BY <1>3, <1>4 DEF AppInv

\* Model::new establishes the invariant over any store it is given.
LEMMA InitInv == Init => AppInv
  <1> SUFFICES ASSUME Init PROVE AppInv
      OBVIOUS
  <1>1. profiles \in Seq(Store!Profile) /\ minted = IdsOf(profiles) /\ entries = ListOf(profiles)
    <2>1. PICK p \in {<< >>} \cup {<<q>> : q \in Store!Profile} :
             profiles = p /\ minted = IdsOf(p) /\ entries = ListOf(p)
        BY DEF Init
    <2>2. << >> \in Seq(Store!Profile)
        BY EmptySeq
    <2>3. \A q \in Store!Profile : <<q>> \in Seq(Store!Profile)
        OBVIOUS
    <2> QED BY <2>1, <2>2, <2>3
  <1>2. minted \subseteq Ids
    <2>1. \A i \in DOMAIN profiles : profiles[i] \in Store!Profile
        BY <1>1, ElementOfSeq, LenProperties
    <2> QED BY <1>1, <2>1 DEF IdsOf, Store!Profile
  <1>3. entries \in Seq(Entry)
      BY <1>1, ListTyped
  <1>4. connection = "Disconnected" /\ connection \in ConnectionState /\ selected = None /\ lastError = None
      BY DEF Init, ConnectionState
  <1>5. view \in Snapshot
      BY <1>3, <1>4 DEF Init, SnapshotOf, Snapshot
  <1>6. queue \in Seq(Command) /\ Len(queue) <= MaxQueue
      BY EmptySeq DEF Init
  <1>7. tunnel \in [state : ConnectionState, error : ConnError \cup {None}]
      BY DEF Init, ConnectionState, ConnError, ConnErrorCode
  <1>8. TypeOK
      BY <1>1, <1>2, <1>3, <1>4, <1>5, <1>6, <1>7 DEF Init, TypeOK
  <1> QED BY <1>1, <1>8 DEF Init, AppInv, EntriesMatchStore, SelectedIsSaved

-----------------------------------------------------------------------------

\* Sending a command leaves the actor and the store alone.
LEMMA SenderStep ==
  ASSUME AppInv, \/ SendIntent \/ DropHandle \/ OsActs \/ OsMoves
                 \/ \E id \in Ids : AskExport(id)
  PROVE  AppInv'
  <1> USE DEF AppInv
  <1>1. UNCHANGED <<running, store, actorState, view>>
      BY DEF SendIntent, DropHandle, OsActs, OsMoves, AskExport
  <1>2. \A state \in ConnectionState, error \in ConnError \cup {None} :
           Report(state, error) => /\ queue' \in Seq(Command) /\ Len(queue') <= MaxQueue
                                   /\ tunnel' \in [state : ConnectionState, error : ConnError \cup {None}]
    <2> TAKE state \in ConnectionState, error \in ConnError \cup {None}
    <2> HAVE Report(state, error)
    <2>1. CASE queue' = queue
        BY <2>1 DEF Report, TypeOK
    <2> DEFINE c == [op |-> "status", state |-> state,
                     error |-> IF error = None THEN None ELSE FromCode(ConnErrorCode[error])]
    <2>2. CASE Enqueue(c)
      <3>1. c \in Command
          BY CodesRoundTrip DEF Command
      <3> QED BY <2>2, <3>1, EnqueueTyped DEF Report
    <2> QED BY <2>1, <2>2 DEF Report
  <1>3. /\ queue' \in Seq(Command) /\ Len(queue') <= MaxQueue
        /\ tunnel' \in [state : ConnectionState, error : ConnError \cup {None}]
    <2>1. CASE SendIntent
      <3>1. PICK c \in Command : Enqueue(c)
        <4>1. minted \subseteq Ids
            BY DEF TypeOK
        <4> QED BY <2>1, <4>1 DEF SendIntent, Command
      <3> QED BY <2>1, <3>1, EnqueueTyped DEF SendIntent, TypeOK, os
    <2>2. CASE \E id \in Ids : AskExport(id)
      <3>1. PICK id \in Ids : AskExport(id)
          BY <2>2
      <3>2. [op |-> "export", id |-> id] \in Command
          BY DEF Command
      <3> QED BY <3>1, <3>2, EnqueueTyped DEF AskExport, TypeOK, os
    <2>3. CASE DropHandle
        BY <2>3 DEF DropHandle, TypeOK, os
    <2>4. CASE OsActs
      <3>1. "Connecting" \in ConnectionState /\ "Disconnecting" \in ConnectionState
          BY DEF ConnectionState
      <3> QED BY <1>2, <2>4, <3>1 DEF OsActs, TypeOK
    <2>5. CASE OsMoves
      <3>1. /\ "Connecting" \in ConnectionState /\ "Connected" \in ConnectionState
            /\ "Disconnected" \in ConnectionState /\ Failures \subseteq ConnError
          BY DEF ConnectionState, ConnError, ConnErrorCode
      <3> QED BY <1>2, <2>5, <3>1 DEF OsMoves
    <2> QED BY <2>1, <2>2, <2>3, <2>4, <2>5
  <1>4. handle' \in BOOLEAN /\ export' \in {"idle", "waiting"} /\ asked' \in Requests \cup {None}
      BY DEF SendIntent, DropHandle, OsActs, OsMoves, AskExport, TypeOK, os
  <1>5. told' \in BOOLEAN
    <2>1. told' = told \/ told' = TRUE
        BY DEF SendIntent, DropHandle, OsActs, OsMoves, AskExport, Report, os
    <2> QED BY <2>1 DEF TypeOK
  <1>6. TypeOK'
      BY <1>1, <1>3, <1>4, <1>5 DEF TypeOK, store, actorState
  <1> QED BY <1>1, <1>6 DEF EntriesMatchStore, SelectedIsSaved, store, actorState

\* Adding: the profile that is selected is the one found or added.
LEMMA AddStep ==
  ASSUME AppInv, HandleAdd
  PROVE  AppInv'
  <1> DEFINE c == Head(queue)
  <1>1. /\ queue' \in Seq(Command) /\ Len(queue') <= MaxQueue /\ c \in Command /\ c.op = "add"
        /\ UNCHANGED <<handle, running>>
      BY TakeTyped DEF HandleAdd, AppInv
  <1>2. c.link \in Links /\ c.label \in Names \cup {None}
      BY <1>1, CommandArgs
  <1> HIDE DEF c
  <1>3. /\ entries' = ListOf(profiles') /\ Emit /\ UNCHANGED <<connection, os, export>>
      BY DEF HandleAdd
  <1>4. ActorTyped' /\ SelectedIsSaved'
    <2>1. CASE StoreFails("save")
        BY <1>3, <2>1 DEF StoreFails, ActorTyped, SelectedIsSaved, AppInv, TypeOK, store, AppErrors
    <2>2. CASE /\ \E i \in DOMAIN profiles : profiles[i].link = c.link /\ selected' = profiles[i].id
               /\ lastError' = None /\ UNCHANGED store
      <3>1. PICK i \in DOMAIN profiles : selected' = profiles[i].id
          BY <2>2
      <3>2. profiles[i] \in Store!Profile
          BY ElementOfSeq, LenProperties DEF AppInv, TypeOK
      <3> QED BY <1>3, <2>2, <3>1, <3>2
              DEF ActorTyped, SelectedIsSaved, AppInv, TypeOK, store, IdsOf, Store!Profile
    <2>3. ASSUME NEW id \in Ids \ minted,
                 Store!AddProfile([id |-> id,
                                   name |-> IF c.label = None THEN HostOf[c.link] ELSE c.label,
                                   link |-> c.link]),
                 minted' = minted \cup {id}, selected' = id, lastError' = None
          PROVE  ActorTyped' /\ SelectedIsSaved'
      <3> DEFINE p == [id |-> id,
                       name |-> IF c.label = None THEN HostOf[c.link] ELSE c.label,
                       link |-> c.link]
      <3>1. p \in Store!Profile /\ p.id = id
          BY <1>2 DEF Store!Profile
      <3>2. profiles' = Append(profiles, p)
          BY <2>3 DEF Store!AddProfile
      <3> HIDE DEF p
      <3>3. profiles' \in Seq(Store!Profile) /\ id \in IdsOf(profiles')
          BY <3>1, <3>2, IdsAfterAdd DEF AppInv, TypeOK
      <3> QED BY <1>3, <2>3, <3>3 DEF ActorTyped, SelectedIsSaved, AppInv, TypeOK
    <2> QED BY <2>1, <2>2, <2>3 DEF HandleAdd, c
  <1> QED BY <1>1, <1>3, <1>4, Emitted DEF os, AppInv, TypeOK

\* Renaming keeps the ids, and so the selection.
LEMMA RenameStep ==
  ASSUME AppInv, HandleRename
  PROVE  AppInv'
  <1> DEFINE c == Head(queue)
  <1>1. /\ queue' \in Seq(Command) /\ Len(queue') <= MaxQueue /\ c \in Command /\ c.op = "rename"
        /\ UNCHANGED <<handle, running>>
      BY TakeTyped DEF HandleRename, AppInv
  <1>2. c.id \in Ids /\ c.label \in Names \cup {None}
      BY <1>1, CommandArgs
  <1> HIDE DEF c
  <1>3. /\ entries' = ListOf(profiles') /\ Emit /\ UNCHANGED <<connection, os, export>>
      BY DEF HandleRename
  <1>4. ActorTyped' /\ SelectedIsSaved'
    <2>1. CASE StoreFails("rename")
        BY <1>3, <2>1 DEF StoreFails, ActorTyped, SelectedIsSaved, AppInv, TypeOK, store, AppErrors
    <2>2. CASE UNCHANGED <<store, selected, lastError>>
        BY <1>3, <2>2 DEF ActorTyped, SelectedIsSaved, AppInv, TypeOK, store
    <2>3. ASSUME NEW i \in DOMAIN profiles,
                 Store!RenameProfile(i, IF c.label = None THEN HostOf[profiles[i].link] ELSE c.label),
                 UNCHANGED <<minted, selected, lastError>>
          PROVE  ActorTyped' /\ SelectedIsSaved'
      <3> DEFINE n == IF c.label = None THEN HostOf[profiles[i].link] ELSE c.label
      <3>1. profiles[i] \in Store!Profile
          BY ElementOfSeq, LenProperties DEF AppInv, TypeOK
      <3>2. n \in Names
          BY <1>2, <3>1 DEF Store!Profile
      <3>3. profiles' = [profiles EXCEPT ![i].name = n]
          BY <2>3 DEF Store!RenameProfile
      <3> HIDE DEF n
      <3>4. profiles' \in Seq(Store!Profile) /\ IdsOf(profiles') = IdsOf(profiles)
          BY <3>2, <3>3, IdsAfterRename DEF AppInv, TypeOK
      <3> QED BY <1>3, <2>3, <3>4 DEF ActorTyped, SelectedIsSaved, AppInv, TypeOK
    <2> QED BY <2>1, <2>2, <2>3 DEF HandleRename, c
  <1> QED BY <1>1, <1>3, <1>4, Emitted DEF os, AppInv, TypeOK

\* Deleting: the selection is cleared with its profile and kept otherwise.
LEMMA DeleteStep ==
  ASSUME AppInv, HandleDelete
  PROVE  AppInv'
  <1> DEFINE c == Head(queue)
  <1>1. /\ queue' \in Seq(Command) /\ Len(queue') <= MaxQueue /\ c \in Command /\ c.op = "delete"
        /\ UNCHANGED <<handle, running>>
      BY TakeTyped DEF HandleDelete, AppInv
  <1> HIDE DEF c
  <1>3. /\ entries' = ListOf(profiles') /\ Emit /\ UNCHANGED <<connection, os, export>>
      BY DEF HandleDelete
  <1>4. ActorTyped' /\ SelectedIsSaved'
    <2>1. CASE StoreFails("delete")
        BY <1>3, <2>1 DEF StoreFails, ActorTyped, SelectedIsSaved, AppInv, TypeOK, store, AppErrors
    <2>2. ASSUME profiles' = profiles, UNCHANGED <<minted, lastError>>,
                 selected' = IF selected = c.id THEN None ELSE selected
          PROVE  ActorTyped' /\ SelectedIsSaved'
        BY <1>3, <2>2 DEF ActorTyped, SelectedIsSaved, AppInv, TypeOK
    <2>3. ASSUME NEW i \in DOMAIN profiles, profiles[i].id = c.id, Store!DeleteProfile(i),
                 selected' = IF selected = c.id THEN None ELSE selected,
                 UNCHANGED <<minted, lastError>>
          PROVE  ActorTyped' /\ SelectedIsSaved'
      <3>1. profiles' = RemoveAt(profiles, i)
          BY <2>3 DEF Store!DeleteProfile, Store!RemoveAt, RemoveAt
      <3>2. /\ profiles' \in Seq(Store!Profile)
            /\ \A x \in IdsOf(profiles) : x # profiles[i].id => x \in IdsOf(profiles')
          BY <3>1, IdsAfterDelete DEF AppInv, TypeOK
      <3> QED BY <1>3, <2>3, <3>2 DEF ActorTyped, SelectedIsSaved, AppInv, TypeOK
    <2> QED BY <2>1, <2>2, <2>3 DEF HandleDelete, c
  <1> QED BY <1>1, <1>3, <1>4, Emitted DEF os, AppInv, TypeOK

\* The other commands change neither the list nor the ids in it; a selection
\* is taken from the list.
LEMMA OtherStep ==
  ASSUME AppInv, \/ HandleAddBad \/ HandleSelect \/ HandleConnect
                 \/ HandleDisconnect \/ HandleStatus
  PROVE  AppInv'
  <1> DEFINE c == Head(queue)
  <1>1. /\ queue' \in Seq(Command) /\ Len(queue') <= MaxQueue /\ c \in Command
        /\ UNCHANGED <<handle, running>>
      BY TakeTyped DEF AppInv, HandleAddBad, HandleSelect, HandleConnect, HandleDisconnect, HandleStatus
  <1>2. /\ UNCHANGED <<store, entries, tunnel, told, export>> /\ Emit
      BY DEF HandleAddBad, HandleSelect, HandleConnect, HandleDisconnect, HandleStatus, os, actorState
  <1>3. entries' = ListOf(profiles')
      BY <1>2 DEF store, AppInv, EntriesMatchStore
  <1>4. /\ selected' \in Ids \cup {None}
        /\ selected' # None => selected' \in IdsOf(profiles)
    <2>1. CASE HandleSelect
      <3>1. c.op = "select"
          BY <2>1 DEF HandleSelect, Take, c
      <3>2. c.id \in Ids
          BY <1>1, <3>1, CommandArgs
      <3>3. IdsOf(entries) = IdsOf(profiles)
          BY ListIds DEF AppInv, EntriesMatchStore
      <3> QED BY <2>1, <3>2, <3>3 DEF HandleSelect, AppInv, TypeOK, SelectedIsSaved, c
    <2>2. CASE selected' = selected
        BY <2>2 DEF AppInv, TypeOK, SelectedIsSaved
    <2> QED BY <2>1, <2>2 DEF HandleAddBad, HandleConnect, HandleDisconnect, HandleStatus, actorState
  <1>5. /\ connection' \in ConnectionState
        /\ lastError' \in AppErrors \cup ConnError \cup {None}
    <2>1. CASE HandleStatus
      <3>1. c.op = "status"
          BY <2>1 DEF HandleStatus, Take, c
      <3> QED BY <1>1, <2>1, <3>1, CommandArgs DEF HandleStatus, c
    <2>2. CASE connection' = connection /\ lastError' \in {lastError, None, "link", "select"}
        BY <2>2 DEF AppInv, TypeOK, AppErrors
    <2> QED BY <2>1, <2>2
            DEF HandleAddBad, HandleSelect, HandleConnect, HandleDisconnect, actorState
  <1>6. asked' \in Requests \cup {None}
    <2>1. CASE HandleConnect
        BY <2>1 DEF HandleConnect, AppInv, TypeOK, Requests
    <2>2. CASE HandleDisconnect
        BY <2>2 DEF HandleDisconnect, Requests
    <2> QED BY <2>1, <2>2 DEF HandleAddBad, HandleSelect, HandleStatus, AppInv, TypeOK, os
  <1>7. ActorTyped' /\ SelectedIsSaved'
      BY <1>2, <1>4, <1>5 DEF ActorTyped, SelectedIsSaved, AppInv, TypeOK, store
  <1> QED BY <1>1, <1>2, <1>3, <1>6, <1>7, Emitted DEF AppInv, TypeOK

\* Answering a query and stopping emit nothing because they change nothing.
LEMMA QuietStep ==
  ASSUME AppInv, HandleExport \/ Stop \/ UNCHANGED vars
  PROVE  AppInv'
  <1>1. UNCHANGED <<store, actorState, view, os, handle>>
      BY TakeTyped DEF HandleExport, Stop, vars, AppInv, os
  <1>2. queue' \in Seq(Command) /\ Len(queue') <= MaxQueue
      BY TakeTyped DEF HandleExport, Stop, vars, AppInv, TypeOK
  <1>3. running' \in BOOLEAN /\ export' \in {"idle", "waiting"}
      BY TakeTyped DEF HandleExport, Stop, vars, AppInv, TypeOK
  <1>4. TypeOK'
      BY <1>1, <1>2, <1>3 DEF AppInv, TypeOK, store, actorState, os
  <1> QED BY <1>1, <1>4 DEF AppInv, EntriesMatchStore, SelectedIsSaved, store, actorState

\* Whatever order intents, OS reports and store failures come in, what the
\* actor holds agrees with the store.
THEOREM AppInvariant == Spec => []AppInv
  <1>1. AppInv /\ [Next]_vars => AppInv'
      BY SenderStep, AddStep, RenameStep, DeleteStep, OtherStep, QuietStep DEF Next, Actor
  <1> QED BY <1>1, InitInv, PTL DEF Spec

\* The selection is always a saved profile, through deletes, failed deletes
\* and select intents that come too late.
THEOREM SelectionSaved == Spec => []SelectedIsSaved
  <1>1. AppInv => SelectedIsSaved
      BY DEF AppInv
  <1> QED BY <1>1, AppInvariant, PTL

\* The list shown is the store's.
THEOREM ListCurrent == Spec => []EntriesMatchStore
  <1>1. AppInv => EntriesMatchStore
      BY DEF AppInv
  <1> QED BY <1>1, AppInvariant, PTL

-----------------------------------------------------------------------------

\* Taking a command moves the others up by one place.
LEMMA TakeShifts ==
  ASSUME TypeOK, NEW op, Take(op)
  PROVE  /\ Len(queue) \in Nat /\ DOMAIN queue = 1 .. Len(queue)
         /\ 1 \in DOMAIN queue /\ Head(queue) = queue[1] /\ queue[1].op = op
         /\ DOMAIN queue' = 1 .. Len(queue) - 1
         /\ \A i \in DOMAIN queue' : i + 1 \in DOMAIN queue /\ queue'[i] = queue[i + 1]
         /\ handle' = handle
  <1>1. queue \in Seq(Command) /\ queue # << >> /\ queue' = Tail(queue)
      BY DEF TypeOK, Take
  <1>2. /\ Len(queue) \in Nat /\ DOMAIN queue = 1 .. Len(queue) /\ Len(queue) # 0
        /\ Head(queue) = queue[1]
        /\ Tail(queue) \in Seq(Command) /\ Len(Tail(queue)) = Len(queue) - 1
        /\ \A i \in 1 .. Len(Tail(queue)) : Tail(queue)[i] = queue[i + 1]
      BY <1>1, HeadTailProperties, LenProperties, EmptySeq
  <1>3. DOMAIN queue' = 1 .. Len(queue) - 1
      BY <1>1, <1>2, LenProperties
  <1> QED BY <1>1, <1>2, <1>3 DEF Take

\* A command that is sent waits behind all others.
LEMMA EnqueueAppends ==
  ASSUME TypeOK, NEW c, Enqueue(c)
  PROVE  /\ Len(queue) \in Nat /\ DOMAIN queue = 1 .. Len(queue)
         /\ DOMAIN queue' = 1 .. Len(queue) + 1
         /\ \A i \in DOMAIN queue : queue'[i] = queue[i]
         /\ queue'[Len(queue) + 1] = c
  BY DEF TypeOK, Enqueue

\* Handling a status: it was the newest, and what it tells is shown, or a newer
\* one waits.
LEMMA StatusTaken ==
  ASSUME AppInv, NewestTells, ConnectionIsTunnels, HandleStatus
  PROVE  (NewestTells /\ ConnectionIsTunnels)'
  <1>1. Take("status") /\ tunnel' = tunnel /\ told' = told
      BY DEF HandleStatus, os
  <1>2. /\ Len(queue) \in Nat /\ DOMAIN queue = 1 .. Len(queue)
        /\ 1 \in DOMAIN queue /\ Head(queue) = queue[1] /\ queue[1].op = "status"
        /\ DOMAIN queue' = 1 .. Len(queue) - 1
        /\ \A i \in DOMAIN queue' : i + 1 \in DOMAIN queue /\ queue'[i] = queue[i + 1]
        /\ handle' = handle
      BY <1>1, TakeShifts DEF AppInv
  <1>3. \A i \in Statuses : i # 1 => i - 1 \in Statuses'
      BY <1>2 DEF Statuses
  <1>4. \A i \in Statuses' : i + 1 \in Statuses /\ i \in Nat /\ queue'[i] = queue[i + 1]
      BY <1>2 DEF Statuses
  <1>5. Statuses \subseteq Nat \ {0} /\ 1 \in Statuses
      BY <1>2 DEF Statuses
  <1>6. NewestTells'
    <2>0. Statuses' # {} => told'
        BY <1>1, <1>5 DEF NewestTells
    <2> SUFFICES ASSUME handle, NEW i \in Statuses', \A j \in Statuses' : j <= i
                 PROVE  queue'[i].state = tunnel.state /\ queue'[i].error = tunnel.error
        BY <1>1, <1>2, <2>0 DEF NewestTells
    <2>1. ASSUME NEW j \in Statuses PROVE j <= i + 1
      <3>1. i \in Nat /\ j \in Nat \ {0}
          BY <1>4, <1>5
      <3>2. j # 1 => j - 1 <= i
          BY <1>3
      <3> QED BY <3>1, <3>2
    <2> QED BY <1>4, <2>1 DEF NewestTells
  <1>7. ConnectionIsTunnels'
    <2> SUFFICES ASSUME handle, Statuses' = {} PROVE ShowsTunnel'
        BY <1>1, <1>2, <1>5 DEF ConnectionIsTunnels, NewestTells
    <2>1. \A j \in Statuses : j <= 1
        BY <1>3, <1>5
    <2>2. queue[1].state = tunnel.state /\ queue[1].error = tunnel.error
        BY <1>5, <2>1 DEF NewestTells
    <2> QED BY <1>1, <1>2, <2>2 DEF HandleStatus, ShowsTunnel
  <1> QED BY <1>6, <1>7

\* Any other command leaves the statuses in their order, and the connection and
\* its error as they are shown.
LEMMA OtherTaken ==
  ASSUME AppInv, NewestTells, ConnectionIsTunnels, NEW op, op # "status", Take(op),
         tunnel' = tunnel, told' = told, connection' = connection,
         lastError' \in {lastError, None} \cup AppErrors
  PROVE  (NewestTells /\ ConnectionIsTunnels)'
  <1>1. /\ Len(queue) \in Nat /\ DOMAIN queue = 1 .. Len(queue)
        /\ queue[1].op = op
        /\ DOMAIN queue' = 1 .. Len(queue) - 1
        /\ \A i \in DOMAIN queue' : i + 1 \in DOMAIN queue /\ queue'[i] = queue[i + 1]
        /\ handle' = handle
      BY TakeShifts DEF AppInv
  <1>2. \A i \in Statuses : i \in Nat /\ i - 1 \in Statuses'
      BY <1>1 DEF Statuses
  <1>3. \A i \in Statuses' : i + 1 \in Statuses /\ i \in Nat /\ queue'[i] = queue[i + 1]
      BY <1>1 DEF Statuses
  <1>4. NewestTells'
    <2>0. Statuses' # {} => told'
        BY <1>3 DEF NewestTells
    <2> SUFFICES ASSUME handle, NEW i \in Statuses', \A j \in Statuses' : j <= i
                 PROVE  queue'[i].state = tunnel.state /\ queue'[i].error = tunnel.error
        BY <1>1, <2>0 DEF NewestTells
    <2>1. \A j \in Statuses : j <= i + 1
        BY <1>2, <1>3
    <2> QED BY <1>3, <2>1 DEF NewestTells
  <1>5. ConnectionIsTunnels'
    <2> SUFFICES ASSUME handle, Statuses = {}
                 PROVE  IF told THEN ShowsTunnel'
                        ELSE connection = "Disconnected" /\ lastError' \notin ConnError
        BY <1>1, <1>2 DEF ConnectionIsTunnels
    <2>1. IF told THEN ShowsTunnel ELSE connection = "Disconnected" /\ lastError \notin ConnError
        BY DEF ConnectionIsTunnels
    <2>2. ConnError = {"Unknown", "AuthFailed", "ServerUnreachable", "Timeout"}
        BY DEF ConnError, ConnErrorCode
    <2>3. lastError' \in ConnError => lastError' = lastError
        BY <2>2 DEF AppErrors
    <2> QED BY <2>1, <2>3 DEF ShowsTunnel
  <1> QED BY <1>4, <1>5

\* The OS reports: the newest status is the tunnel's new state.
LEMMA ReportTells ==
  ASSUME AppInv, NewestTells, ConnectionIsTunnels, UNCHANGED <<handle, actorState>>,
         NEW state, NEW error \in ConnError \cup {None}, Report(state, error)
  PROVE  (NewestTells /\ ConnectionIsTunnels)'
  <1>1. CASE ~handle
    <2>1. UNCHANGED <<queue, told, handle>>
        BY <1>1 DEF Report
    <2>2. Statuses' = Statuses
        BY <2>1 DEF Statuses
    <2> QED BY <1>1, <2>1, <2>2 DEF NewestTells, ConnectionIsTunnels
  <1>2. CASE handle
    <2> DEFINE c == [op |-> "status", state |-> state,
                     error |-> IF error = None THEN None ELSE FromCode(ConnErrorCode[error])]
               n == Len(queue) + 1
    <2>1. Enqueue(c) /\ tunnel'.state = state /\ tunnel'.error = error /\ told'
        BY <1>2 DEF Report
    <2>2. c.op = "status" /\ c.state = state /\ c.error = error
        BY CodesRoundTrip
    <2> HIDE DEF c
    <2>3. Len(queue) \in Nat /\ DOMAIN queue' = 1 .. n /\ queue'[n] = c
        BY <2>1, EnqueueAppends DEF AppInv
    <2>4. n \in Statuses' /\ \A i \in Statuses' : i \in 1 .. n
        BY <2>2, <2>3 DEF Statuses
    <2>5. \A i \in Statuses' : (\A j \in Statuses' : j <= i) => i = n
        BY <2>3, <2>4
    <2> QED BY <2>1, <2>2, <2>3, <2>4, <2>5 DEF NewestTells, ConnectionIsTunnels
  <1> QED BY <1>1, <1>2

\* Any other command that is sent is not a status.
LEMMA OtherSent ==
  ASSUME AppInv, NewestTells, ConnectionIsTunnels, NEW c, c.op # "status", Enqueue(c),
         UNCHANGED <<handle, actorState, tunnel, told>>
  PROVE  (NewestTells /\ ConnectionIsTunnels)'
  <1>1. /\ Len(queue) \in Nat /\ DOMAIN queue = 1 .. Len(queue)
        /\ DOMAIN queue' = 1 .. Len(queue) + 1
        /\ \A i \in DOMAIN queue : queue'[i] = queue[i]
        /\ queue'[Len(queue) + 1] = c
      BY EnqueueAppends DEF AppInv
  <1>2. Statuses' = Statuses /\ \A i \in Statuses : queue'[i] = queue[i]
      BY <1>1 DEF Statuses
  <1> QED BY <1>2 DEF NewestTells, ConnectionIsTunnels, ShowsTunnel, actorState

\* The rest leaves the channel and what is shown alone.
LEMMA ShownAnyway ==
  ASSUME NewestTells, ConnectionIsTunnels,
         UNCHANGED <<queue, actorState, tunnel, told>>, handle' => handle
  PROVE  (NewestTells /\ ConnectionIsTunnels)'
  BY DEF NewestTells, ConnectionIsTunnels, Statuses, ShowsTunnel, actorState

\* The connection the view is shown is the tunnel's as soon as the statuses that
\* were reported have been handled, whatever commands came in between.
THEOREM ConnectionShown == Spec => []ConnectionIsTunnels
  <1>1. Init => NewestTells /\ ConnectionIsTunnels
    <2> SUFFICES ASSUME Init PROVE NewestTells /\ ConnectionIsTunnels
        OBVIOUS
    <2>1. Statuses = {}
        BY DEF Init, Statuses
    <2>2. connection = "Disconnected" /\ lastError \notin ConnError /\ told = FALSE
        BY DEF Init, ConnError, ConnErrorCode
    <2> QED BY <2>1, <2>2 DEF NewestTells, ConnectionIsTunnels
  <1>2. AppInv /\ NewestTells /\ ConnectionIsTunnels /\ [Next]_vars
            => (NewestTells /\ ConnectionIsTunnels)'
    <2> SUFFICES ASSUME AppInv, NewestTells, ConnectionIsTunnels, [Next]_vars
                 PROVE  (NewestTells /\ ConnectionIsTunnels)'
        OBVIOUS
    <2>1. CASE SendIntent
      <3>1. PICK c \in {d \in Command : d.op # "status"} : Enqueue(c)
        <4>1. minted \subseteq Ids
            BY DEF AppInv, TypeOK
        <4> QED BY <2>1, <4>1 DEF SendIntent, Command
      <3> QED BY <2>1, <3>1, OtherSent DEF SendIntent, os
    <2>2. ASSUME NEW id \in Ids, AskExport(id) PROVE (NewestTells /\ ConnectionIsTunnels)'
        BY <2>2, OtherSent DEF AskExport, os
    <2>3. CASE OsActs
      <3>1. UNCHANGED <<handle, actorState>>
          BY <2>3 DEF OsActs
      <3> QED BY <2>3, <3>1, ReportTells, ShownAnyway DEF OsActs
    <2>4. CASE OsMoves
      <3>1. UNCHANGED <<handle, actorState>> /\ Failures \subseteq ConnError
          BY <2>4 DEF OsMoves, ConnError, ConnErrorCode
      <3> QED BY <2>4, <3>1, ReportTells DEF OsMoves
    <2>5. CASE DropHandle \/ Stop \/ UNCHANGED vars
        BY <2>5, ShownAnyway DEF DropHandle, Stop, vars, os
    <2>6. CASE HandleStatus
        BY <2>6, StatusTaken
    <2>7. CASE HandleAdd \/ HandleAddBad \/ HandleRename \/ HandleDelete
      <3>1. \E op \in {"add", "addBad", "rename", "delete"} : Take(op)
          BY <2>7 DEF HandleAdd, HandleAddBad, HandleRename, HandleDelete
      <3>2. /\ UNCHANGED <<connection, tunnel, told>>
            /\ lastError' \in {lastError, None, "save", "link", "rename", "delete"}
          BY <2>7 DEF HandleAdd, HandleAddBad, HandleRename, HandleDelete, StoreFails, os
      <3> QED BY <3>1, <3>2, OtherTaken DEF AppErrors
    <2>8. CASE HandleSelect \/ HandleConnect \/ HandleDisconnect \/ HandleExport
      <3>1. \E op \in {"select", "connect", "disconnect", "export"} : Take(op)
          BY <2>8 DEF HandleSelect, HandleConnect, HandleDisconnect, HandleExport
      <3>2. UNCHANGED <<connection, tunnel, told>> /\ lastError' \in {lastError, None, "select"}
          BY <2>8 DEF HandleSelect, HandleConnect, HandleDisconnect, HandleExport, os, actorState
      <3> QED BY <3>1, <3>2, OtherTaken DEF AppErrors
    <2> QED BY <2>1, <2>2, <2>3, <2>4, <2>5, <2>6, <2>7, <2>8 DEF Next, Actor
  <1> QED BY <1>1, <1>2, AppInvariant, PTL DEF Spec

\* The OS is only ever asked to start a profile that is saved when it is
\* asked.
THEOREM StartsSaved == Spec => StartsSavedProfile
  <1> DEFINE A == asked' # asked /\ asked' # None =>
                     (asked'.op = "start" => asked'.id \in IdsOf(profiles))
  <1>1. AppInv /\ [Next]_vars => [A]_vars
    <2> SUFFICES ASSUME AppInv, Next PROVE A
        OBVIOUS
    <2>1. CASE HandleConnect
        BY <2>1 DEF HandleConnect, AppInv, SelectedIsSaved
    <2>2. CASE HandleDisconnect
        BY <2>2 DEF HandleDisconnect
    <2>3. CASE asked' = asked \/ asked' = None
        BY <2>3
    <2> QED BY <2>1, <2>2, <2>3
            DEF Next, Actor, SendIntent, AskExport, OsActs, OsMoves, DropHandle, HandleAdd, HandleAddBad,
                HandleRename, HandleDelete, HandleSelect, HandleStatus, HandleExport, Stop, os
  <1>2. AppInv /\ [Next]_vars => [A]_vars
      BY <1>1
  <1> QED BY <1>2, AppInvariant, PTL DEF Spec, StartsSavedProfile

-----------------------------------------------------------------------------

(* The stats gate. *)

\* Writing the slot forgives whoever gets in, and nobody else.
LEMMA SlotWritten ==
  ASSUME GateInv, NEW o \in Observers \cup {Nobody}, SetSlot(o),
         call' = call, inside' = inside
  PROVE  GateInv'
  BY DEF GateInv, SetSlot

\* The gate copies the observer, unlocks and calls: between the two the observer
\* may unsubscribe or be replaced, and then gets that one call and no other.
LEMMA GateStep == GateInv /\ [GateNext]_gateVars => GateInv'
  <1> SUFFICES ASSUME GateInv, [GateNext]_gateVars PROVE GateInv'
      OBVIOUS
  <1>1. CASE \/ OnStats \/ GateLocks \/ UNCHANGED gateVars
      BY <1>1 DEF OnStats, GateLocks, gateVars, GateInv
  <1>2. CASE \/ \E o \in Observers : SubscribeStats(o)
             \/ UnsubscribeStats \/ CallbackReenters
      BY <1>2, SlotWritten DEF SubscribeStats, UnsubscribeStats, CallbackReenters
  <1>3. CASE GateClones
      BY <1>3 DEF GateClones, GateInv
  <1>4. CASE GateCalls
    <2>1. /\ call \in Observers /\ late[call] = 0 /\ inside' = TRUE
          /\ UNCHANGED <<slot, call, wanted>>
          /\ late' = IF wanted = call THEN late ELSE [late EXCEPT ![call] = late[call] + 1]
        BY <1>4 DEF GateCalls, GateInv
    <2> QED BY <2>1 DEF GateInv
  <1>5. CASE CallbackReturns
      BY <1>5 DEF CallbackReturns, GateInv
  <1> QED BY <1>1, <1>2, <1>3, <1>4, <1>5 DEF GateNext, GateActs

\* After unsubscribe_stats, or after another observer took its place, an observer
\* gets at most one more call, however stats, subscriptions and callbacks
\* interleave.
THEOREM LateOnce == GateSpec => []OneLateCall
  <1>1. GateInit => GateInv
      BY DEF GateInit, GateInv
  <1>2. GateInv => OneLateCall
      BY DEF GateInv, OneLateCall
  <1> QED BY <1>1, <1>2, GateStep, PTL DEF GateSpec
=============================================================================
