---------------------------- MODULE StoreProofs -----------------------------
(* Proofs about module Store, for any set of ids, links and names. *)
EXTENDS Store, SequenceTheorems, TLAPS

-----------------------------------------------------------------------------
(* The operators that change the list, and their rollbacks. *)

\* Removing a position keeps the elements of the other positions, in order.
LEMMA RemoveAtFacts ==
    ASSUME NEW S, NEW s \in Seq(S), NEW i \in 1 .. Len(s)
    PROVE  /\ RemoveAt(s, i) \in Seq(S)
           /\ Len(RemoveAt(s, i)) = Len(s) - 1
           /\ \A j \in 1 .. Len(s) - 1 :
                 RemoveAt(s, i)[j] = IF j < i THEN s[j] ELSE s[j + 1]
  <1> DEFINE a == SubSeq(s, 1, i - 1)
             b == SubSeq(s, i + 1, Len(s))
  <1>1. Len(s) \in Nat /\ \A j \in 1 .. Len(s) : s[j] \in S
    BY ElementOfSeq, LenProperties
  <1>2. /\ a \in Seq(S)
        /\ Len(a) = i - 1
        /\ \A j \in 1 .. i - 1 : a[j] = s[j]
    BY <1>1, SubSeqProperties
  <1>3. /\ b \in Seq(S)
        /\ Len(b) = Len(s) - i
        /\ \A j \in 1 .. Len(s) - i : b[j] = s[i + j]
    BY <1>1, SubSeqProperties
  <1> HIDE DEF a, b
  <1> DEFINE ab == a \o b
  <1>4. /\ ab \in Seq(S)
        /\ Len(ab) = Len(a) + Len(b)
        /\ \A j \in 1 .. Len(a) + Len(b) :
              ab[j] = IF j <= Len(a) THEN a[j] ELSE b[j - Len(a)]
    BY <1>2, <1>3, ConcatProperties
  <1> HIDE DEF ab
  <1>5. \A j \in 1 .. Len(s) - 1 :
              ab[j] = IF j < i THEN s[j] ELSE s[j + 1]
    <2> TAKE j \in 1 .. Len(s) - 1
    <2>1. j \in 1 .. Len(a) + Len(b)
      BY <1>1, <1>2, <1>3
    <2>2. CASE j < i
      BY <1>1, <1>2, <1>4, <2>1, <2>2
    <2>3. CASE ~(j < i)
      <3>1. ab[j] = b[j - (i - 1)]
        BY <1>1, <1>2, <1>4, <2>1, <2>3
      <3>2. j - (i - 1) \in 1 .. Len(s) - i /\ i + (j - (i - 1)) = j + 1
        BY <1>1, <2>3
      <3> QED
        BY <1>3, <2>3, <3>1, <3>2
    <2> QED
      BY <2>2, <2>3
  <1>6. ab \in Seq(S) /\ Len(ab) = Len(s) - 1
    BY <1>1, <1>2, <1>3, <1>4
  <1>7. ab = RemoveAt(s, i)
    BY DEF RemoveAt, ab, a, b
  <1> QED
    BY <1>5, <1>6, <1>7

\* Putting the removed element back at its position gives the sequence back:
\* the rollback of delete restores the list exactly.
LEMMA InsertUndoesRemove ==
    ASSUME NEW S, NEW s \in Seq(S), NEW i \in 1 .. Len(s)
    PROVE  InsertAt(RemoveAt(s, i), i, s[i]) = s
  <1> DEFINE r == RemoveAt(s, i)
             a == SubSeq(r, 1, i - 1)
             m == << s[i] >>
             b == SubSeq(r, i, Len(r))
  <1>1. Len(s) \in Nat /\ \A j \in 1 .. Len(s) : s[j] \in S
    BY ElementOfSeq, LenProperties
  <1>2. /\ r \in Seq(S)
        /\ Len(r) = Len(s) - 1
        /\ \A j \in 1 .. Len(s) - 1 : r[j] = IF j < i THEN s[j] ELSE s[j + 1]
    BY RemoveAtFacts
  <1>3. \A j \in 1 .. Len(s) - 1 : r[j] \in S
    BY <1>2, ElementOfSeq
  <1> HIDE DEF r
  <1>4. /\ a \in Seq(S)
        /\ Len(a) = i - 1
        /\ \A j \in 1 .. i - 1 : a[j] = r[j]
    BY <1>1, <1>2, <1>3, SubSeqProperties
  <1>5. /\ b \in Seq(S)
        /\ Len(b) = Len(s) - i
        /\ \A j \in 1 .. Len(s) - i : b[j] = r[i + j - 1]
    BY <1>1, <1>2, <1>3, SubSeqProperties
  <1>6. m \in Seq(S) /\ Len(m) = 1 /\ m[1] = s[i]
    BY <1>1
  <1> HIDE DEF a, m, b
  <1> DEFINE c == a \o m
             d == c \o b
  <1>7. /\ c \in Seq(S)
        /\ Len(c) = Len(a) + Len(m)
        /\ \A j \in 1 .. Len(a) + Len(m) :
              c[j] = IF j <= Len(a) THEN a[j] ELSE m[j - Len(a)]
    BY <1>4, <1>6, ConcatProperties
  <1> HIDE DEF c
  <1>b. b \in Seq(S) /\ c \in Seq(S)
    BY <1>5, <1>7
  <1>8. /\ d \in Seq(S)
        /\ Len(d) = Len(c) + Len(b)
        /\ \A j \in 1 .. Len(c) + Len(b) :
              d[j] = IF j <= Len(c) THEN c[j] ELSE b[j - Len(c)]
    BY <1>b, ConcatProperties
  <1> HIDE DEF d
  <1>9. Len(c) = i /\ \A j \in 1 .. i : c[j] = s[j]
    <2>1. Len(c) = i
      BY <1>1, <1>4, <1>6, <1>7
    <2>2. ASSUME NEW j \in 1 .. i - 1 PROVE c[j] = s[j]
      <3>1. j \in 1 .. Len(a) + Len(m) /\ j <= Len(a) /\ j \in 1 .. Len(s) - 1 /\ j < i
        BY <1>1, <1>4, <1>6
      <3>2. c[j] = a[j] /\ a[j] = r[j]
        BY <1>4, <1>7, <3>1
      <3> QED
        BY <1>2, <3>1, <3>2
    <2>3. c[i] = s[i]
      <3>1. i \in 1 .. Len(a) + Len(m) /\ ~(i <= Len(a)) /\ i - Len(a) = 1
        BY <1>1, <1>4, <1>6
      <3>2. c[i] = m[i - Len(a)]
        BY <1>7, <3>1
      <3> QED
        BY <1>6, <3>1, <3>2
    <2> QED
      BY <1>1, <2>1, <2>2, <2>3
  <1>10. Len(d) = Len(s) /\ \A j \in 1 .. Len(s) : d[j] = s[j]
    <2>1. Len(d) = Len(s)
      BY <1>1, <1>5, <1>8, <1>9
    <2>2. ASSUME NEW j \in 1 .. Len(s), j <= i PROVE d[j] = s[j]
      BY <1>1, <1>5, <1>8, <1>9, <2>2
    <2>3. ASSUME NEW j \in 1 .. Len(s), ~(j <= i) PROVE d[j] = s[j]
      <3>1. d[j] = b[j - i] /\ j - i \in 1 .. Len(s) - i
        BY <1>1, <1>5, <1>8, <1>9, <2>3
      <3>2. b[j - i] = r[j - 1]
        BY <1>1, <1>5, <3>1
      <3> QED
        BY <1>1, <1>2, <2>3, <3>1, <3>2, SMTT(30)
    <2> QED
      BY <2>1, <2>2, <2>3
  <1>11. d = s
    BY <1>8, <1>10, SeqEqual
  <1>12. d = InsertAt(r, i, s[i])
    BY DEF InsertAt, a, m, b, c, d
  <1> QED
    BY <1>11, <1>12 DEF r

\* Popping what was pushed gives the sequence back: the rollback of add.
LEMMA FrontUndoesAppend ==
    ASSUME NEW S, NEW s \in Seq(S), NEW e \in S
    PROVE  Front(Append(s, e)) = s
  <1> DEFINE t == Append(s, e)
  <1>1. /\ Len(s) \in Nat
        /\ t \in Seq(S) /\ Len(t) = Len(s) + 1
        /\ \A j \in 1 .. Len(s) : t[j] = s[j] /\ t[j] \in S
    BY AppendProperties, LenProperties, ElementOfSeq
  <1> HIDE DEF t
  <1>2. /\ SubSeq(t, 1, Len(t) - 1) \in Seq(S)
        /\ Len(SubSeq(t, 1, Len(t) - 1)) = Len(s)
        /\ \A j \in 1 .. Len(s) : SubSeq(t, 1, Len(t) - 1)[j] = t[j]
    BY <1>1, SubSeqProperties
  <1>3. SubSeq(t, 1, Len(t) - 1) = s
    BY <1>1, <1>2, SeqEqual
  <1> QED
    BY <1>3 DEF Front, t

-----------------------------------------------------------------------------

\* No two positions of a list of entries have the same id.
Distinct(es) == \A i, j \in DOMAIN es : es[i].id = es[j].id => i = j

\* A push adds the new entry's id to the ids of the list.
LEMMA IdsAfterAppend ==
    ASSUME NEW es \in Seq(Entry), NEW e \in Entry,
           Distinct(es), e.id \notin IdsOf(es)
    PROVE  /\ IdsOf(Append(es, e)) = IdsOf(es) \cup {e.id}
           /\ Distinct(Append(es, e))
  <1> DEFINE t == Append(es, e)
  <1>1. /\ DOMAIN es = 1 .. Len(es) /\ Len(es) \in Nat
        /\ DOMAIN t = 1 .. Len(es) + 1
        /\ \A i \in 1 .. Len(es) : t[i] = es[i]
        /\ t[Len(es) + 1] = e
    BY AppendProperties, LenProperties
  <1> HIDE DEF t
  <1>2. IdsOf(t) = IdsOf(es) \cup {e.id}
    <2>1. ASSUME NEW i \in DOMAIN t PROVE t[i].id \in IdsOf(es) \cup {e.id}
      BY <1>1 DEF IdsOf
    <2>2. ASSUME NEW i \in DOMAIN es PROVE es[i].id \in IdsOf(t)
      <3>1. i \in DOMAIN t /\ t[i] = es[i]
        BY <1>1
      <3> QED BY <3>1 DEF IdsOf
    <2>3. e.id \in IdsOf(t)
      <3>1. Len(es) + 1 \in DOMAIN t
        BY <1>1
      <3> QED BY <1>1, <3>1 DEF IdsOf
    <2> QED BY <2>1, <2>2, <2>3 DEF IdsOf
  <1>3. Distinct(t)
    <2> SUFFICES ASSUME NEW i \in DOMAIN t, NEW j \in DOMAIN t, t[i].id = t[j].id
                 PROVE  i = j
      BY DEF Distinct
    <2>1. CASE i \in DOMAIN es /\ j \in DOMAIN es
      BY <1>1, <2>1 DEF Distinct
    <2>2. ASSUME NEW k \in DOMAIN es PROVE t[k].id # e.id
      BY <1>1 DEF IdsOf
    <2> QED BY <1>1, <2>1, <2>2
  <1> QED BY <1>2, <1>3 DEF t

\* A removal takes the removed entry's id, and only that, out of the list.
LEMMA IdsAfterRemove ==
    ASSUME NEW es \in Seq(Entry), Distinct(es), NEW p \in DOMAIN es
    PROVE  /\ RemoveAt(es, p) \in Seq(Entry)
           /\ IdsOf(RemoveAt(es, p)) = IdsOf(es) \ {es[p].id}
           /\ Distinct(RemoveAt(es, p))
  <1> DEFINE t == RemoveAt(es, p)
  <1>1. /\ DOMAIN es = 1 .. Len(es) /\ Len(es) \in Nat
        /\ t \in Seq(Entry)
        /\ DOMAIN t = 1 .. Len(es) - 1
        /\ \A i \in 1 .. Len(es) - 1 : t[i] = IF i < p THEN es[i] ELSE es[i + 1]
    BY RemoveAtFacts, LenProperties
  <1> HIDE DEF t
  <1>2. IdsOf(t) = IdsOf(es) \ {es[p].id}
    <2>1. ASSUME NEW i \in DOMAIN t PROVE t[i].id \in IdsOf(es) \ {es[p].id}
      <3>1. CASE i < p
        <4>1. t[i] = es[i] /\ i \in DOMAIN es /\ i # p
          BY <1>1, <3>1
        <4> QED BY <4>1 DEF IdsOf, Distinct
      <3>2. CASE ~(i < p)
        <4>1. t[i] = es[i + 1] /\ i + 1 \in DOMAIN es /\ i + 1 # p
          BY <1>1, <3>2
        <4> QED BY <4>1 DEF IdsOf, Distinct
      <3> QED BY <3>1, <3>2
    <2>2. ASSUME NEW i \in DOMAIN es, es[i].id # es[p].id PROVE es[i].id \in IdsOf(t)
      <3>1. CASE i < p
        <4>1. t[i] = es[i] /\ i \in DOMAIN t
          BY <1>1, <3>1
        <4> QED BY <4>1 DEF IdsOf
      <3>2. CASE i > p
        <4>1. i - 1 \in DOMAIN t /\ t[i - 1] = es[i]
          BY <1>1, <3>2
        <4> QED BY <4>1 DEF IdsOf
      <3> QED BY <1>1, <2>2, <3>1, <3>2
    <2> QED BY <2>1, <2>2 DEF IdsOf
  <1>3. Distinct(t)
    <2> SUFFICES ASSUME NEW i \in DOMAIN t, NEW j \in DOMAIN t, t[i].id = t[j].id
                 PROVE  i = j
      BY DEF Distinct
    <2> DEFINE at(k) == IF k < p THEN k ELSE k + 1
    <2>1. /\ at(i) \in DOMAIN es /\ t[i] = es[at(i)]
          /\ at(j) \in DOMAIN es /\ t[j] = es[at(j)]
      BY <1>1
    <2>2. at(i) = at(j)
      BY <2>1 DEF Distinct
    <2> QED BY <1>1, <2>2
  <1> QED BY <1>1, <1>2, <1>3 DEF t

\* A renaming keeps every id, and every name but one.
LEMMA IdsAfterRename ==
    ASSUME NEW es \in Seq(Entry), Distinct(es), NEW p \in DOMAIN es, NEW n \in Names,
           NEW t, t = Renamed(es, p, n)
    PROVE  /\ t \in Seq(Entry)
           /\ DOMAIN t = DOMAIN es
           /\ \A i \in DOMAIN es : t[i].id = es[i].id
           /\ \A i \in DOMAIN es : t[i].name = IF i = p THEN n ELSE es[i].name
           /\ IdsOf(t) = IdsOf(es)
           /\ Distinct(t)
  <1>1. /\ DOMAIN es = 1 .. Len(es) /\ Len(es) \in Nat
        /\ \A i \in DOMAIN es : es[i] \in Entry
    BY LenProperties, ElementOfSeq
  <1>2. [es[p] EXCEPT !.name = n] \in Entry /\ [es[p] EXCEPT !.name = n].id = es[p].id
    BY <1>1 DEF Entry
  <1>3. t \in Seq(Entry) /\ DOMAIN t = DOMAIN es
    BY <1>1, <1>2 DEF Renamed
  <1>4. \A i \in DOMAIN es :
           /\ t[i].id = es[i].id
           /\ t[i].name = IF i = p THEN n ELSE es[i].name
    BY <1>1, <1>2 DEF Entry, Renamed
  <1>5. IdsOf(t) = IdsOf(es) /\ Distinct(t)
    BY <1>3, <1>4 DEF IdsOf, Distinct
  <1> QED BY <1>3, <1>4, <1>5

\* The fields of a listed entry.
LEMMA EntryFields ==
    ASSUME NEW es \in Seq(Entry), NEW i \in DOMAIN es
    PROVE  es[i] \in Entry /\ es[i].id \in Ids /\ es[i].name \in Names
  <1>1. i \in 1 .. Len(es)
    BY LenProperties
  <1>2. es[i] \in Entry
    BY <1>1, ElementOfSeq
  <1> QED BY <1>2 DEF Entry

\* PosOf finds the position of a listed id.
LEMMA PosOfFacts ==
    ASSUME NEW es, NEW id \in IdsOf(es)
    PROVE  PosOf(es, id) \in DOMAIN es /\ es[PosOf(es, id)].id = id
  BY DEF PosOf, IdsOf

\* Restoring the saved name undoes a renaming.
LEMMA RenameBack ==
    ASSUME NEW es \in Seq(Entry), NEW p \in DOMAIN es, NEW n \in Names,
           NEW t, t = Renamed(es, p, n)
    PROVE  Renamed(t, p, es[p].name) = es
  <1>1. /\ es \in [1 .. Len(es) -> Entry] /\ DOMAIN es = 1 .. Len(es)
        /\ es[p] \in Entry
    BY LenProperties, ElementOfSeq
  <1>2. [[es[p] EXCEPT !.name = n] EXCEPT !.name = es[p].name] = es[p]
    BY <1>1 DEF Entry
  <1> QED BY <1>1, <1>2 DEF Renamed

-----------------------------------------------------------------------------

USE StoreAssumption

\* Opening, the calls that return at once, and a crash change no storage.
LEMMA QuietStep ==
    StoreInv /\ (\/ Open
                 \/ \E link \in Links : AddExisting(link) \/ AddFails(link)
                 \/ \E id \in Ids : RenameAbsent(id) \/ RenameNoHost(id)
                 \/ Crash)
       => StoreInv'
  <1> SUFFICES ASSUME StoreInv,
                      \/ Open
                      \/ \E link \in Links : AddExisting(link) \/ AddFails(link)
                      \/ \E id \in Ids : RenameAbsent(id) \/ RenameNoHost(id)
                      \/ Crash
               PROVE  StoreInv'
    OBVIOUS
  <1> USE DEF StoreInv, TypeOK, CallInProgress, DocumentLoadable, IdsDistinct,
              storage, memory, history
  <1>1. CASE Open
    BY <1>1 DEF Open, IdsOf
  <1>2. ASSUME NEW link \in Links, AddExisting(link) PROVE StoreInv'
    <2>1. \A i \in DOMAIN entries : entries[i].id \in Ids
      BY EntryFields
    <2>2. reply' \in Replies
      BY <1>2, <2>1 DEF AddExisting, Matching, Return, Done, Replies
    <2> QED BY <1>2, <2>2 DEF AddExisting, Return, IdsOf
  <1>3. ASSUME NEW link \in Links, AddFails(link) PROVE StoreInv'
    BY <1>3 DEF AddFails, Return, Failed, Replies, IdsOf
  <1>4. ASSUME NEW id \in Ids, RenameAbsent(id) PROVE StoreInv'
    BY <1>4 DEF RenameAbsent, Return, Done, Replies, IdsOf
  <1>5. ASSUME NEW id \in Ids, RenameNoHost(id) PROVE StoreInv'
    BY <1>5 DEF RenameNoHost, Return, Done, Failed, Replies, IdsOf
  <1>6. CASE Crash
    BY <1>6 DEF Crash, IdsOf, Args
  <1> QED BY <1>1, <1>2, <1>3, <1>4, <1>5, <1>6

\* add writes the secret of a fresh id and pushes its entry.
LEMMA AddSecretStep ==
    ASSUME NEW link \in Links, NEW label \in Names \cup {None},
           StoreInv, AddSecret(link, label)
    PROVE  StoreInv'
  <1> USE DEF StoreInv
  <1>1. PICK id \in Ids \ minted, e \in Entry :
           /\ e.id = id
           /\ secure' = [secure EXCEPT ![id] = link]
           /\ entries' = Append(entries, e)
           /\ minted' = minted \cup {id}
           /\ blind' \in BOOLEAN
           /\ Continue("adding", [id |-> id, pos |-> Len(entries) + 1, old |-> e])
    <2>1. NameFor(link, label) \in Names
      BY DEF NameFor
    <2> QED BY <2>1 DEF AddSecret, Entry
  <1>2. doc' = doc /\ halfAdded' = halfAdded /\ undeleted' = undeleted
        /\ pc = "idle" /\ entries = doc
    BY DEF AddSecret, CallInProgress
  <1>3. /\ doc \in Seq(Entry) /\ minted \subseteq Ids
        /\ secure \in [Ids -> Links \cup {None}]
        /\ Len(doc) + 1 \in Nat
    BY LenProperties DEF TypeOK
  <1>4. /\ pc' = "adding" /\ reply' = None
        /\ arg' = [id |-> id, pos |-> Len(doc) + 1, old |-> e]
        /\ arg' \in Args
    BY <1>1, <1>2, <1>3 DEF Continue, Args, Entry
  <1>5. id \notin IdsOf(doc)
    OBVIOUS
  <1>6. TypeOK'
    <2>1. Append(doc, e) \in Seq(Entry)
      BY <1>3, AppendProperties
    <2> QED BY <1>1, <1>2, <1>3, <1>4, <2>1 DEF TypeOK
  <1>7. CallInProgress'
    BY <1>1, <1>2, <1>3, <1>4, <1>5 DEF CallInProgress, IdsOf
  <1>8. DocumentLoadable'
    BY <1>1, <1>2, <1>3, <1>5, EntryFields DEF DocumentLoadable, IdsOf
  <1>9. IdsDistinct' /\ (IdsOf(doc) \subseteq minted)'
    BY <1>1, <1>2 DEF IdsDistinct, IdsOf
  <1>10. (\A k \in Ids : secure[k] # None => k \in minted)'
    BY <1>1, <1>3
  <1> QED BY <1>6, <1>7, <1>8, <1>9, <1>10

\* delete of an id that is not listed only erases its secret.
LEMMA DeleteAbsentStep ==
    ASSUME NEW id \in Ids, StoreInv, DeleteAbsent(id)
    PROVE  StoreInv'
  <1> USE DEF StoreInv
  <1>1. /\ pc = "idle" /\ entries = doc /\ id \notin IdsOf(doc)
        /\ secure' \in {secure, [secure EXCEPT ![id] = None]}
        /\ pc' = "idle" /\ arg' = None /\ reply' = Done("absent", id)
        /\ UNCHANGED <<doc, entries, minted, blind, halfAdded, undeleted>>
    BY DEF DeleteAbsent, Return, CallInProgress, history
  <1>2. doc \in Seq(Entry) /\ secure \in [Ids -> Links \cup {None}]
    BY DEF TypeOK
  <1>3. TypeOK'
    BY <1>1, <1>2 DEF TypeOK, Replies, Done
  <1>4. CallInProgress'
    BY <1>1 DEF CallInProgress
  <1>5. DocumentLoadable'
    BY <1>1, <1>2, EntryFields DEF DocumentLoadable, IdsOf
  <1>6. IdsDistinct' /\ (IdsOf(doc) \subseteq minted)'
    BY <1>1 DEF IdsDistinct, IdsOf
  <1>7. (\A k \in Ids : secure[k] # None => k \in minted)'
    BY <1>1, <1>2
  <1> QED BY <1>3, <1>4, <1>5, <1>6, <1>7

\* delete takes the entry out of memory and remembers it for the rollback.
LEMMA DeleteEntryStep ==
    ASSUME NEW id \in Ids, StoreInv, DeleteEntry(id)
    PROVE  StoreInv'
  <1> USE DEF StoreInv
  <1> DEFINE pos == PosOf(doc, id)
  <1>1. /\ pc = "idle" /\ entries = doc /\ id \in IdsOf(doc)
        /\ entries' = RemoveAt(doc, pos)
        /\ pc' = "deleting" /\ reply' = None
        /\ arg' = [id |-> id, pos |-> pos, old |-> doc[pos]]
        /\ UNCHANGED <<doc, secure, minted, blind, halfAdded, undeleted>>
    BY DEF DeleteEntry, Continue, CallInProgress, storage, history
  <1>2. pos \in DOMAIN doc /\ doc[pos].id = id
    BY <1>1, PosOfFacts
  <1> HIDE DEF pos
  <1>3. doc \in Seq(Entry) /\ pos \in Nat /\ doc[pos] \in Entry
    BY <1>2, LenProperties, EntryFields DEF TypeOK
  <1>4. RemoveAt(doc, pos) \in Seq(Entry) /\ arg' \in Args
    BY <1>1, <1>2, <1>3, IdsAfterRemove DEF Args, IdsDistinct, Distinct
  <1>5. TypeOK'
    BY <1>1, <1>4 DEF TypeOK
  <1>6. CallInProgress'
    BY <1>1, <1>2, <1>4 DEF CallInProgress
  <1>7. DocumentLoadable' /\ IdsDistinct' /\ (IdsOf(doc) \subseteq minted)'
    BY <1>1 DEF DocumentLoadable, IdsDistinct, IdsOf
  <1> QED BY <1>1, <1>5, <1>6, <1>7

\* rename changes the name in memory and remembers the old one.
LEMMA RenameEntryStep ==
    ASSUME NEW id \in Ids, NEW label \in Names \cup {None},
           StoreInv, RenameEntry(id, label)
    PROVE  StoreInv'
  <1> USE DEF StoreInv
  <1> DEFINE pos == PosOf(doc, id)
             name == IF label = None THEN HostOf[secure[id]] ELSE label
  <1>1. /\ pc = "idle" /\ entries = doc /\ id \in IdsOf(doc)
        /\ label = None => secure[id] # None
        /\ entries' = Renamed(doc, pos, name)
        /\ pc' = "renaming" /\ reply' = None
        /\ arg' = [id |-> id, pos |-> pos, old |-> doc[pos]]
        /\ UNCHANGED <<doc, secure, minted, blind, halfAdded, undeleted>>
    BY DEF RenameEntry, Continue, CallInProgress, storage, history
  <1>2. pos \in DOMAIN doc /\ doc[pos].id = id
    BY <1>1, PosOfFacts
  <1>3. name \in Names
    BY <1>1 DEF TypeOK
  <1> HIDE DEF pos, name
  <1>4. doc \in Seq(Entry) /\ pos \in Nat /\ doc[pos] \in Entry
    BY <1>2, LenProperties, EntryFields DEF TypeOK
  <1>5. entries' \in Seq(Entry) /\ entries'[pos].name = name /\ arg' \in Args
    <2>1. Distinct(doc)
      BY DEF IdsDistinct, Distinct
    <2> DEFINE t == Renamed(doc, pos, name)
    <2>a. t \in Seq(Entry) /\ t[pos].name = name
      BY <1>2, <1>3, <1>4, <2>1, IdsAfterRename
    <2>2. entries' \in Seq(Entry) /\ entries'[pos].name = name
      BY <1>1, <2>a
    <2> QED BY <1>1, <1>4, <2>2 DEF Args
  <1>6. TypeOK'
    BY <1>1, <1>5 DEF TypeOK
  <1>7. CallInProgress'
    BY <1>1, <1>2, <1>3, <1>5 DEF CallInProgress
  <1>8. DocumentLoadable' /\ IdsDistinct' /\ (IdsOf(doc) \subseteq minted)'
    BY <1>1 DEF DocumentLoadable, IdsDistinct, IdsOf
  <1> QED BY <1>1, <1>6, <1>7, <1>8

\* What the list in memory has while a call waits for its document write: one
\* id more than the document, one less, or the same ones.
LEMMA InMemoryIds ==
    ASSUME StoreInv, pc \in {"adding", "deleting", "renaming"}
    PROVE  /\ arg \in Args /\ arg.id \in Ids /\ Distinct(entries)
           /\ pc = "adding" => IdsOf(entries) = IdsOf(doc) \cup {arg.id}
           /\ pc = "deleting" => IdsOf(entries) = IdsOf(doc) \ {arg.id}
           /\ pc = "renaming" => IdsOf(entries) = IdsOf(doc)
  <1>1. /\ doc \in Seq(Entry) /\ Distinct(doc) /\ arg \in Args /\ arg.id \in Ids
        /\ arg.old \in Entry
    BY DEF StoreInv, TypeOK, CallInProgress, IdsDistinct, Distinct, Args
  <1>2. CASE pc = "adding"
    <2>1. /\ arg.old.id = arg.id /\ arg.id \notin IdsOf(doc)
          /\ entries = Append(doc, arg.old)
      BY <1>2 DEF StoreInv, CallInProgress
    <2> QED BY <1>1, <1>2, <2>1, IdsAfterAppend
  <1>3. CASE pc = "deleting"
    <2>1. /\ arg.pos \in DOMAIN doc /\ doc[arg.pos].id = arg.id
          /\ entries = RemoveAt(doc, arg.pos)
      BY <1>3 DEF StoreInv, CallInProgress
    <2> QED BY <1>1, <1>3, <2>1, IdsAfterRemove
  <1>4. CASE pc = "renaming"
    <2>1. /\ arg.pos \in DOMAIN doc /\ entries[arg.pos].name \in Names
          /\ entries = Renamed(doc, arg.pos, entries[arg.pos].name)
      BY <1>4 DEF StoreInv, CallInProgress
    <2> QED BY <1>1, <1>4, <2>1, IdsAfterRename
  <1> QED BY <1>2, <1>3, <1>4

\* The document is written: it lists what memory lists.
LEMMA PersistOkStep ==
    ASSUME StoreInv, PersistOk
    PROVE  StoreInv'
  <1> USE DEF StoreInv
  <1>1. /\ doc' = entries
        /\ UNCHANGED <<secure, entries, minted, blind, halfAdded, undeleted>>
        /\ doc \in Seq(Entry) /\ entries \in Seq(Entry) /\ arg \in Args
        /\ secure \in [Ids -> Links \cup {None}]
    BY DEF PersistOk, TypeOK, history, CallInProgress
  <1>2. Distinct(doc)
    BY DEF IdsDistinct, Distinct
  <1>3. ASSUME Distinct(entries), IdsOf(entries) \subseteq IdsOf(doc) \cup {arg.id},
               arg.id \in minted, \A k \in IdsOf(entries) : secure[k] # None
        PROVE  DocumentLoadable' /\ IdsDistinct' /\ (IdsOf(doc) \subseteq minted)'
               /\ (\A k \in Ids : secure[k] # None => k \in minted)'
    <2>1. DocumentLoadable'
      BY <1>1, <1>3 DEF DocumentLoadable, IdsOf
    <2>2. IdsDistinct'
      BY <1>1, <1>3 DEF IdsDistinct, Distinct
    <2>a. IdsOf(doc)' = IdsOf(entries)
      BY <1>1 DEF IdsOf
    <2>3. (IdsOf(doc) \subseteq minted)'
      BY <1>1, <1>3, <2>a
    <2> QED BY <1>1, <2>1, <2>2, <2>3
  <1>4. CASE pc = "adding"
    <2>1. /\ arg.old \in Entry /\ arg.old.id = arg.id /\ arg.id \notin IdsOf(doc)
          /\ entries = Append(doc, arg.old) /\ arg.id \in minted
          /\ secure[arg.id] # None
      BY <1>1, <1>4 DEF CallInProgress, Args
    <2>2. IdsOf(entries) = IdsOf(doc) \cup {arg.id} /\ Distinct(entries)
      BY <1>4, InMemoryIds
    <2>3. \A k \in IdsOf(entries) : secure[k] # None
      BY <2>1, <2>2 DEF DocumentLoadable, IdsOf
    <2>4. pc' = "idle" /\ arg' = None /\ reply' \in Replies
      BY <1>1, <1>4 DEF PersistOk, Return, Continue, Done, Replies, Args
    <2>5. TypeOK' /\ CallInProgress'
      BY <1>1, <2>4 DEF TypeOK, CallInProgress
    <2> QED BY <1>3, <2>1, <2>2, <2>3, <2>5
  <1>5. CASE pc = "deleting"
    <2>1. /\ arg.pos \in DOMAIN doc /\ doc[arg.pos].id = arg.id
          /\ entries = RemoveAt(doc, arg.pos)
      BY <1>5 DEF CallInProgress
    <2>2. IdsOf(entries) = IdsOf(doc) \ {arg.id} /\ Distinct(entries)
      BY <1>5, InMemoryIds
    <2>3. \A k \in IdsOf(entries) : secure[k] # None
      BY <2>2 DEF DocumentLoadable, IdsOf
    <2>4. arg.id \in minted
      BY <2>1 DEF IdsOf
    <2>5. pc' = "dropping" /\ arg' = arg /\ reply' = None
      BY <1>5 DEF PersistOk, Return, Continue
    <2>6. TypeOK' /\ CallInProgress'
      BY <1>1, <2>2, <2>4, <2>5 DEF TypeOK, CallInProgress
    <2> QED BY <1>3, <2>2, <2>3, <2>4, <2>6
  <1>6. CASE pc = "renaming"
    <2>1. /\ arg.pos \in DOMAIN doc /\ doc[arg.pos].id = arg.id
          /\ entries[arg.pos].name \in Names
          /\ entries = Renamed(doc, arg.pos, entries[arg.pos].name)
      BY <1>6 DEF CallInProgress
    <2>2. IdsOf(entries) = IdsOf(doc) /\ Distinct(entries)
      BY <1>6, InMemoryIds
    <2>3. \A k \in IdsOf(entries) : secure[k] # None
      BY <2>2 DEF DocumentLoadable, IdsOf
    <2>4. arg.id \in minted
      BY <2>1 DEF IdsOf
    <2>5. pc' = "idle" /\ arg' = None /\ reply' \in Replies
      BY <1>1, <1>6 DEF PersistOk, Return, Continue, Done, Replies, Args
    <2>6. TypeOK' /\ CallInProgress'
      BY <1>1, <2>5 DEF TypeOK, CallInProgress
    <2> QED BY <1>3, <2>2, <2>3, <2>4, <2>6
  <1> QED BY <1>4, <1>5, <1>6 DEF PersistOk

\* The document write fails: the rollback makes memory what the document is.
LEMMA PersistFailsStep ==
    ASSUME StoreInv, PersistFails
    PROVE  StoreInv'
  <1> USE DEF StoreInv
  <1>1. /\ UNCHANGED <<doc, secure, minted, blind, halfAdded, undeleted>>
        /\ doc \in Seq(Entry) /\ arg \in Args
    BY DEF PersistFails, UndoAdd, UndoDelete, UndoRename, TypeOK, storage, history, CallInProgress
  <1>2. DocumentLoadable' /\ IdsDistinct' /\ (IdsOf(doc) \subseteq minted)'
        /\ (\A k \in Ids : secure[k] # None => k \in minted)'
    BY <1>1 DEF DocumentLoadable, IdsDistinct, IdsOf
  <1>3. CASE pc = "adding"
    <2>1. entries' = Front(entries) /\ pc' = "undoing" /\ arg' = arg /\ reply' = None
      BY <1>3 DEF PersistFails, UndoAdd, UndoDelete, UndoRename, Continue
    <2>2. arg.old \in Entry /\ entries = Append(doc, arg.old)
          /\ arg.id \notin IdsOf(doc) /\ arg.id \in minted
      BY <1>1, <1>3 DEF CallInProgress, Args
    <2>3. entries' = doc
      BY <1>1, <2>1, <2>2, FrontUndoesAppend
    <2>4. TypeOK' /\ CallInProgress'
      BY <1>1, <2>1, <2>2, <2>3 DEF TypeOK, CallInProgress
    <2> QED BY <1>2, <2>4
  <1>4. CASE pc = "deleting"
    <2>1. /\ entries' = InsertAt(entries, arg.pos, arg.old)
          /\ pc' = "idle" /\ arg' = None /\ reply' = Failed
      BY <1>4 DEF PersistFails, UndoAdd, UndoDelete, UndoRename, Return
    <2>2. /\ arg.pos \in 1 .. Len(doc) /\ arg.old = doc[arg.pos]
          /\ entries = RemoveAt(doc, arg.pos)
      BY <1>1, <1>4, LenProperties DEF CallInProgress
    <2>3. entries' = doc
      BY <1>1, <2>1, <2>2, InsertUndoesRemove
    <2>4. TypeOK' /\ CallInProgress'
      BY <1>1, <2>1, <2>3 DEF TypeOK, CallInProgress, Failed, Replies
    <2> QED BY <1>2, <2>4
  <1>5. CASE pc = "renaming"
    <2>1. /\ entries' = Renamed(entries, arg.pos, arg.old.name)
          /\ pc' = "idle" /\ arg' = None /\ reply' = Failed
      BY <1>5 DEF PersistFails, UndoAdd, UndoDelete, UndoRename, Return
    <2>2. /\ arg.pos \in DOMAIN doc /\ arg.old = doc[arg.pos]
          /\ entries[arg.pos].name \in Names
          /\ entries = Renamed(doc, arg.pos, entries[arg.pos].name)
      BY <1>5 DEF CallInProgress
    <2>3. entries' = doc
      <3> DEFINE n == entries[arg.pos].name
      <3>1. n \in Names /\ entries = Renamed(doc, arg.pos, n)
        BY <2>2
      <3> HIDE DEF n
      <3>2. Renamed(entries, arg.pos, doc[arg.pos].name) = doc
        BY <1>1, <2>2, <3>1, RenameBack
      <3> QED BY <2>1, <2>2, <3>2
    <2>4. TypeOK' /\ CallInProgress'
      BY <1>1, <2>1, <2>3 DEF TypeOK, CallInProgress, Failed, Replies
    <2> QED BY <1>2, <2>4
  <1> QED BY <1>3, <1>4, <1>5 DEF PersistFails, UndoAdd, UndoDelete, UndoRename

\* The best-effort erasure touches no secret of a listed entry.
LEMMA DropSecretStep ==
    ASSUME StoreInv, DropSecret
    PROVE  StoreInv'
  <1> USE DEF StoreInv
  <1>1. /\ secure' \in {secure, [secure EXCEPT ![arg.id] = None]}
        /\ pc' = "idle" /\ arg' = None
        /\ UNCHANGED <<doc, entries, minted, blind>>
        /\ entries = doc /\ arg.id \notin IdsOf(doc) /\ arg \in Args
    BY DEF DropSecret, Return, CallInProgress
  <1>2. doc \in Seq(Entry) /\ secure \in [Ids -> Links \cup {None}]
    BY DEF TypeOK
  <1>3. reply' \in Replies
    BY <1>1 DEF DropSecret, Return, Failed, Done, Replies, Args
  <1>4. halfAdded' \subseteq Ids /\ undeleted' \subseteq Ids
    BY <1>1 DEF DropSecret, TypeOK, Args
  <1>5. TypeOK'
    BY <1>1, <1>2, <1>3, <1>4 DEF TypeOK
  <1>6. CallInProgress'
    BY <1>1 DEF CallInProgress
  <1>7. DocumentLoadable'
    BY <1>1, <1>2, EntryFields DEF DocumentLoadable, IdsOf
  <1>8. IdsDistinct' /\ (IdsOf(doc) \subseteq minted)'
    BY <1>1 DEF IdsDistinct, IdsOf
  <1>9. (\A k \in Ids : secure[k] # None => k \in minted)'
    BY <1>1, <1>2
  <1> QED BY <1>5, <1>6, <1>7, <1>8, <1>9

-----------------------------------------------------------------------------

\* The store starts in the invariant, over an empty document.
LEMMA InitInv == Init => StoreInv
  <1> SUFFICES ASSUME Init PROVE StoreInv
    OBVIOUS
  <1>1. TypeOK
    BY EmptySeq DEF Init, TypeOK
  <1>2. CallInProgress
    BY DEF Init, CallInProgress
  <1>3. DocumentLoadable /\ IdsDistinct /\ IdsOf(doc) \subseteq minted
    BY DEF Init, DocumentLoadable, IdsDistinct, IdsOf
  <1> QED BY <1>1, <1>2, <1>3 DEF Init, StoreInv

\* Every step of the store, a crash included, keeps the invariant.
LEMMA StepInv == StoreInv /\ [Next]_vars => StoreInv'
  <1> SUFFICES ASSUME StoreInv, [Next]_vars PROVE StoreInv'
    OBVIOUS
  <1>1. CASE UNCHANGED vars
    BY <1>1 DEF vars, storage, memory, history, StoreInv, TypeOK, CallInProgress,
                DocumentLoadable, IdsDistinct, IdsOf
  <1>2. CASE Next
    BY <1>2, QuietStep, AddSecretStep, DeleteAbsentStep, DeleteEntryStep,
       RenameEntryStep, PersistOkStep, PersistFailsStep, DropSecretStep DEF Next
  <1> QED BY <1>1, <1>2

\* In every reachable state, also between the steps of a call and after any
\* crash: types hold, every listed entry has its secret, and what a rollback
\* needs is at hand.
THEOREM StoreInvariant == Spec => []StoreInv
  <1> QED BY InitInv, StepInv, PTL DEF Spec

\* Add writes the secret before the document and delete erases it after: the
\* document never lists a profile whose link cannot be loaded.
THEOREM Loadable == Spec => []DocumentLoadable
  <1>1. StoreInv => DocumentLoadable
    BY DEF StoreInv
  <1> QED BY StoreInvariant, <1>1, PTL

\* Rollbacks are exact: between calls memory and document are equal.
THEOREM RollbackExact == Spec => []MemoryMatchesDocument
  <1>1. StoreInv => MemoryMatchesDocument
    BY DEF StoreInv, CallInProgress, MemoryMatchesDocument
  <1> QED BY StoreInvariant, <1>1, PTL

-----------------------------------------------------------------------------

\* The calls that return at once answer from the list, which is the document;
\* a crash turns the call under way into a recorded mishap.
LEMMA QuietAccount ==
    ASSUME StoreInv, AccountInv,
           \/ Open
           \/ \E link \in Links : AddExisting(link) \/ AddFails(link)
           \/ \E id \in Ids : RenameAbsent(id) \/ RenameNoHost(id)
           \/ Crash
    PROVE  AccountInv'
  <1> USE DEF AccountInv
  <1>1. doc' = doc /\ secure' = secure /\ blind' = blind
    BY DEF Open, AddExisting, AddFails, RenameAbsent, RenameNoHost, Crash, storage, history
  <1>2. IdsOf(doc)' = IdsOf(doc)
    BY <1>1
  <1>3. CASE Crash
    <2>1. pc' = "closed" /\ reply' = None /\ InHand' = {}
      BY <1>3 DEF Crash, InHand
    <2>2. halfAdded \cup undeleted \cup InHand \subseteq halfAdded' \cup undeleted'
      BY <1>3 DEF Crash, InHand
    <2> QED BY <1>1, <1>2, <2>1, <2>2 DEF ReplyTruthful
  <1>4. CASE ~Crash
    <2>1. /\ pc \in {"closed", "idle"} /\ pc' = "idle"
          /\ halfAdded' = halfAdded /\ undeleted' = undeleted
          /\ InHand = {} /\ InHand' = {}
      BY <1>4 DEF Open, AddExisting, AddFails, RenameAbsent, RenameNoHost, Return, InHand, history
    <2>2. ReplyTruthful'
      <3>1. CASE Open
        BY <3>1 DEF Open, ReplyTruthful
      <3>2. ASSUME NEW link \in Links, AddExisting(link) PROVE ReplyTruthful'
        <4>1. PICK i \in DOMAIN doc : secure[doc[i].id] = link /\ reply' = Done("added", doc[i].id)
          BY <3>2 DEF AddExisting, Matching, Return, StoreInv, CallInProgress
        <4> QED BY <1>1, <1>2, <4>1 DEF ReplyTruthful, Done, IdsOf
      <3>3. ASSUME NEW link \in Links, AddFails(link) PROVE ReplyTruthful'
        BY <3>3 DEF AddFails, Return, Failed, ReplyTruthful
      <3>4. ASSUME NEW id \in Ids, RenameAbsent(id) PROVE ReplyTruthful'
        BY <1>2, <3>4 DEF RenameAbsent, Return, Done, ReplyTruthful, StoreInv, CallInProgress
      <3>5. ASSUME NEW id \in Ids, RenameNoHost(id) PROVE ReplyTruthful'
        BY <3>5 DEF RenameNoHost, Return, Done, Failed, ReplyTruthful
      <3> QED BY <1>4, <3>1, <3>2, <3>3, <3>4, <3>5
    <2> QED BY <1>1, <1>2, <2>1, <2>2
  <1> QED BY <1>3, <1>4

\* add: unless a secret could not be read, the link it writes is no entry's.
LEMMA AddSecretAccount ==
    ASSUME NEW link \in Links, NEW label \in Names \cup {None},
           StoreInv, AccountInv, AddSecret(link, label)
    PROVE  AccountInv'
  <1>1. PICK unreadable \in SUBSET IdsOf(entries), id \in Ids \ minted :
           /\ Matching(link, unreadable) = {}
           /\ secure' = [secure EXCEPT ![id] = link]
           /\ blind' = (blind \/ \E u \in unreadable : secure[u] = link)
           /\ pc' = "adding" /\ reply' = None /\ InHand' = {id}
    <2>1. PICK unreadable \in SUBSET IdsOf(entries), id \in Ids \ minted :
             /\ Matching(link, unreadable) = {}
             /\ secure' = [secure EXCEPT ![id] = link]
             /\ blind' = (blind \/ \E u \in unreadable : secure[u] = link)
             /\ pc' = "adding" /\ reply' = None
             /\ arg' = [id |-> id, pos |-> Len(entries) + 1,
                        old |-> [id |-> id, name |-> NameFor(link, label)]]
      BY Zenon DEF AddSecret, Continue
    <2>2. arg'.id = id
      BY <2>1
    <2>3. InHand' = {id}
      BY <2>1, <2>2 DEF InHand
    <2> QED BY <2>1, <2>3
  <1>2. /\ entries = doc /\ doc' = doc /\ halfAdded' = halfAdded /\ undeleted' = undeleted
        /\ InHand = {} /\ secure \in [Ids -> Links \cup {None}] /\ blind \in BOOLEAN
    BY DEF AddSecret, StoreInv, CallInProgress, TypeOK, InHand
  <1>3. IdsOf(doc)' = IdsOf(doc) /\ IdsOf(doc) \subseteq minted /\ IdsOf(doc) \subseteq Ids
    BY <1>2, EntryFields DEF StoreInv, TypeOK, IdsOf
  <1>4. \A k \in Ids : secure'[k] = IF k = id THEN link ELSE secure[k]
    BY <1>1, <1>2
  <1>5. ASSUME ~blind' PROVE ~blind /\ \A k \in IdsOf(doc) : secure[k] # link
    <2>1. ~blind /\ \A u \in unreadable : secure[u] # link
      BY <1>1, <1>2, <1>5
    <2>2. ASSUME NEW i \in DOMAIN doc, doc[i].id \notin unreadable PROVE secure[doc[i].id] # link
      BY <1>1, <1>2, <2>2 DEF Matching
    <2> QED BY <2>1, <2>2 DEF IdsOf
  <1>6. ASSUME ~blind', NEW a \in IdsOf(doc) \cup {id}, NEW b \in IdsOf(doc) \cup {id},
               secure'[a] = secure'[b]
        PROVE  a = b
    BY <1>2, <1>3, <1>4, <1>5, <1>6 DEF AccountInv
  <1>7. \A k \in Ids : secure'[k] # None => k \in IdsOf(doc) \cup halfAdded \cup undeleted \cup {id}
    BY <1>2, <1>4 DEF AccountInv
  <1> QED BY <1>1, <1>2, <1>3, <1>6, <1>7 DEF AccountInv, ReplyTruthful

\* An erasure concerns an id that is not listed; what it leaves is recorded.
LEMMA ErasureAccount ==
    ASSUME StoreInv, AccountInv, DropSecret \/ \E id \in Ids : DeleteAbsent(id)
    PROVE  AccountInv'
  <1>1. /\ entries = doc /\ doc' = doc /\ blind' = blind /\ pc' = "idle" /\ InHand' = {}
        /\ IdsOf(doc)' = IdsOf(doc) /\ IdsOf(doc) \subseteq Ids
        /\ secure \in [Ids -> Links \cup {None}]
    BY EntryFields DEF DropSecret, DeleteAbsent, Return, StoreInv, CallInProgress, TypeOK, history,
           InHand, IdsOf
  <1>2. PICK k \in Ids :
           /\ k \notin IdsOf(doc)
           /\ \A j \in Ids : secure'[j] = secure[j] \/ (j = k /\ secure'[j] = None)
           /\ secure'[k] # None => InHand \subseteq halfAdded' \cup undeleted'
           /\ InHand \subseteq {k}
           /\ halfAdded \cup undeleted \subseteq halfAdded' \cup undeleted'
           /\ reply' \in {Failed, Done("deleted", k), Done("absent", k)}
    <2>1. CASE DropSecret
      <3>1. arg \in Args /\ arg.id \notin IdsOf(doc) /\ arg.id \in Ids /\ InHand = {arg.id}
        BY <2>1 DEF DropSecret, StoreInv, CallInProgress, Args, InHand
      <3>2. /\ \A j \in Ids : secure'[j] = secure[j] \/ (j = arg.id /\ secure'[j] = None)
            /\ secure'[arg.id] # None => arg.id \in halfAdded' \cup undeleted'
        BY <1>1, <2>1, <3>1 DEF DropSecret
      <3>3. /\ halfAdded \cup undeleted \subseteq halfAdded' \cup undeleted'
            /\ reply' \in {Failed, Done("deleted", arg.id)}
        BY <2>1 DEF DropSecret, Return
      <3> QED BY <3>1, <3>2, <3>3
    <2>2. ASSUME NEW id \in Ids, DeleteAbsent(id)
          PROVE  /\ id \notin IdsOf(doc) /\ InHand = {}
                 /\ \A j \in Ids : secure'[j] = secure[j] \/ (j = id /\ secure'[j] = None)
                 /\ halfAdded' = halfAdded /\ undeleted' = undeleted
                 /\ reply' = Done("absent", id)
      BY <1>1, <2>2 DEF DeleteAbsent, Return, InHand, history
    <2> QED BY <2>1, <2>2
  <1>3. reply'.kind # "added" /\ (reply'.kind \in {"deleted", "absent"} => reply'.id = k)
    BY <1>2 DEF Failed, Done
  <1>4. ReplyTruthful'
    BY <1>1, <1>2, <1>3 DEF ReplyTruthful
  <1>5. ASSUME NEW j \in Ids, secure'[j] # None
        PROVE  j \in IdsOf(doc) \cup halfAdded' \cup undeleted'
    <2>1. j \in IdsOf(doc) \cup halfAdded \cup undeleted \cup InHand
      BY <1>2, <1>5 DEF AccountInv
    <2> QED BY <1>2, <1>5, <2>1
  <1>6. ASSUME NEW j \in IdsOf(doc) PROVE secure'[j] = secure[j]
    BY <1>1, <1>2
  <1>7. ~blind' => \A a, b \in IdsOf(doc) : secure'[a] = secure'[b] => a = b
    BY <1>1, <1>6 DEF AccountInv
  <1> QED BY <1>1, <1>4, <1>5, <1>7 DEF AccountInv

\* The steps of a call that change no secret: what is listed and what the call
\* has in hand stay together.
LEMMA CallAccount ==
    ASSUME StoreInv, AccountInv,
           \/ PersistOk \/ PersistFails
           \/ \E id \in Ids : DeleteEntry(id) \/ \E label \in Names \cup {None} : RenameEntry(id, label)
    PROVE  AccountInv'
  <1>1. UNCHANGED <<secure, blind, halfAdded, undeleted>>
    BY DEF PersistOk, PersistFails, DeleteEntry, RenameEntry, storage, history
  <1>2. CASE PersistOk
    <2>1. /\ IdsOf(doc)' = IdsOf(entries) /\ pc \in {"adding", "deleting", "renaming"}
          /\ pc' = IF pc = "deleting" THEN "dropping" ELSE "idle"
      BY <1>2 DEF PersistOk, Return, Continue
    <2>2. CASE pc = "adding"
      <3>1. /\ IdsOf(doc)' = IdsOf(doc) \cup InHand /\ InHand' = {} /\ InHand = {arg.id}
            /\ reply' = Done("added", arg.id) /\ secure[arg.id] # None
        BY <1>2, <2>1, <2>2, InMemoryIds DEF PersistOk, Return, InHand, StoreInv, CallInProgress
      <3>2. ReplyTruthful'
        BY <1>1, <3>1 DEF ReplyTruthful, Done
      <3> QED BY <1>1, <2>1, <2>2, <3>1, <3>2 DEF AccountInv
    <2>3. CASE pc = "deleting"
      <3>1. IdsOf(doc)' = IdsOf(doc) \ {arg.id} /\ InHand' = {arg.id} /\ InHand = {}
        BY <1>2, <2>1, <2>3, InMemoryIds DEF PersistOk, Continue, InHand
      <3> QED BY <1>1, <2>1, <2>3, <3>1 DEF AccountInv, ReplyTruthful
    <2>4. CASE pc = "renaming"
      <3>1. IdsOf(doc)' = IdsOf(doc) /\ InHand' = {} /\ InHand = {} /\ reply' = Done("renamed", arg.id)
        BY <1>2, <2>1, <2>4, InMemoryIds DEF PersistOk, Return, InHand
      <3>2. ReplyTruthful'
        BY <3>1 DEF ReplyTruthful, Done
      <3> QED BY <1>1, <2>1, <2>4, <3>1, <3>2 DEF AccountInv
    <2> QED BY <2>1, <2>2, <2>3, <2>4
  <1>3. CASE ~PersistOk
    <2>1. doc' = doc /\ IdsOf(doc)' = IdsOf(doc)
      BY <1>3 DEF PersistFails, DeleteEntry, RenameEntry, storage
    <2>2. CASE pc = "adding"
      <3>1. PersistFails /\ pc' = "undoing" /\ InHand = {arg.id} /\ InHand' = {arg.id}
        BY <1>3, <2>2 DEF PersistFails, UndoAdd, UndoDelete, UndoRename, Continue, DeleteEntry,
                          RenameEntry, InHand
      <3> QED BY <1>1, <2>1, <2>2, <3>1 DEF AccountInv, ReplyTruthful
    <2>3. CASE pc # "adding"
      <3>1. /\ pc' \in {"idle", "deleting", "renaming"} /\ InHand = {} /\ InHand' = {}
            /\ pc' = "idle" => reply' = Failed
        BY <1>3, <2>3 DEF PersistFails, UndoAdd, UndoDelete, UndoRename, Return, Continue,
                          DeleteEntry, RenameEntry, InHand
      <3>2. ReplyTruthful'
        BY <3>1 DEF ReplyTruthful, Failed
      <3> QED BY <1>1, <2>1, <2>3, <3>1, <3>2 DEF AccountInv
    <2> QED BY <2>2, <2>3
  <1> QED BY <1>2, <1>3

\* Every secret, reply and link is accounted for, in every reachable state.
THEOREM StoreAccounts == Spec => []AccountInv
  <1>1. Init => AccountInv
    BY DEF Init, AccountInv, ReplyTruthful, IdsOf, InHand
  <1>2. StoreInv /\ AccountInv /\ [Next]_vars => AccountInv'
    <2> SUFFICES ASSUME StoreInv, AccountInv, [Next]_vars PROVE AccountInv'
      OBVIOUS
    <2>1. CASE UNCHANGED vars
      BY <2>1 DEF vars, storage, memory, history, AccountInv, ReplyTruthful, IdsOf, InHand
    <2>2. CASE Next
      BY <2>2, QuietAccount, AddSecretAccount, ErasureAccount, CallAccount DEF Next
    <2> QED BY <2>1, <2>2
  <1> QED BY <1>1, <1>2, StoreInvariant, PTL DEF Spec

\* What add and delete answer is so: an added profile is listed and loadable,
\* a deleted one is gone, also after calls and processes that failed before.
THEOREM Truthful == Spec => []ReplyTruthful
  <1>1. AccountInv => ReplyTruthful
    BY DEF AccountInv
  <1> QED BY <1>1, StoreAccounts, PTL

\* No secret is left behind between calls but by an add that was cut short or
\* an erasure that failed.
THEOREM Orphans == Spec => []OrphansExplained
  <1>1. AccountInv => OrphansExplained
    BY DEF AccountInv, OrphansExplained, InHand
  <1> QED BY <1>1, StoreAccounts, PTL

\* Adding is idempotent by link for as long as the dedup lookup could read what
\* it looked for.
THEOREM Idempotent == Spec => []LinksDistinct
  <1>1. StoreInv /\ AccountInv => LinksDistinct
    <2> SUFFICES ASSUME StoreInv, AccountInv, ~blind, NEW i \in DOMAIN doc, NEW j \in DOMAIN doc,
                        secure[doc[i].id] = secure[doc[j].id]
                 PROVE  i = j
      BY DEF LinksDistinct
    <2>1. doc[i].id \in IdsOf(doc) /\ doc[j].id \in IdsOf(doc)
      BY DEF IdsOf
    <2>2. doc[i].id = doc[j].id
      BY <2>1 DEF AccountInv
    <2> QED BY <2>2 DEF StoreInv, IdsDistinct
  <1> QED BY <1>1, StoreInvariant, StoreAccounts, PTL

-----------------------------------------------------------------------------

\* Saved has the document's positions, and links of its type.
LEMMA SavedFacts ==
    ASSUME StoreInv
    PROVE  /\ doc \in Seq(Entry) /\ Len(doc) \in Nat /\ DOMAIN doc = 1 .. Len(doc)
           /\ \A i \in DOMAIN doc : Saved[i] \in Abstract!Profile
           /\ DOMAIN Saved = DOMAIN doc
           /\ Saved \in Seq(Abstract!Profile) /\ Len(Saved) = Len(doc)
  <1>1. doc \in Seq(Entry) /\ Len(doc) \in Nat /\ DOMAIN doc = 1 .. Len(doc)
    BY LenProperties DEF StoreInv, TypeOK
  <1>2. ASSUME NEW i \in DOMAIN doc PROVE Saved[i] \in Abstract!Profile
    <2>1. doc[i].id \in Ids /\ doc[i].name \in Names
      BY <1>1, EntryFields
    <2>2. secure[doc[i].id] \in Links
      BY <2>1 DEF StoreInv, TypeOK, DocumentLoadable
    <2> QED BY <2>1, <2>2 DEF Saved, Abstract!Profile
  <1>3. DOMAIN Saved = DOMAIN doc
    BY DEF Saved
  <1>4. Saved \in [1 .. Len(doc) -> Abstract!Profile]
    BY <1>1, <1>2, <1>3 DEF Saved
  <1>5. Saved \in Seq(Abstract!Profile) /\ Len(Saved) = Len(doc)
    BY <1>1, <1>4
  <1> QED BY <1>1, <1>2, <1>3, <1>5

\* A step that keeps the document and the secrets of the listed ids is not
\* visible.
LEMMA InvisibleStep ==
    ASSUME doc' = doc,
           \A i \in DOMAIN doc : secure'[doc[i].id] = secure[doc[i].id]
    PROVE  Saved' = Saved
  BY DEF Saved

\* Every step of the two stores is one step of the abstract list, or none:
\* only a successful persist is visible.
LEMMA StepRefines ==
    StoreInv /\ StoreInv' /\ [Next]_vars => [Abstract!Next]_Saved
  <1> SUFFICES ASSUME StoreInv, StoreInv', [Next]_vars
               PROVE  Abstract!Next \/ Saved' = Saved
    OBVIOUS
  <1>1. CASE doc' = doc /\ secure' = secure
    BY <1>1, InvisibleStep
  <1>2. ASSUME NEW id \in Ids, id \notin IdsOf(doc), doc' = doc,
               NEW v, secure' = [secure EXCEPT ![id] = v]
        PROVE  Saved' = Saved
    <2>1. \A i \in DOMAIN doc : doc[i].id # id /\ doc[i].id \in Ids
      BY <1>2, EntryFields DEF IdsOf, StoreInv, TypeOK
    <2>2. \A i \in DOMAIN doc : secure'[doc[i].id] = secure[doc[i].id]
      BY <1>2, <2>1 DEF StoreInv, TypeOK
    <2> QED BY <1>2, <2>2, InvisibleStep
  <1>3. ASSUME NEW link \in Links, NEW label \in Names \cup {None},
               AddSecret(link, label)
        PROVE  Saved' = Saved
    <2>1. PICK id \in Ids \ minted : secure' = [secure EXCEPT ![id] = link]
      BY <1>3 DEF AddSecret
    <2>2. id \notin IdsOf(doc) /\ doc' = doc
      BY <1>3 DEF AddSecret, StoreInv
    <2> QED BY <1>2, <2>1, <2>2
  <1>4. ASSUME NEW id \in Ids, DeleteAbsent(id) PROVE Saved' = Saved
    <2>1. id \notin IdsOf(doc) /\ doc' = doc
          /\ secure' \in {secure, [secure EXCEPT ![id] = None]}
      BY <1>4 DEF DeleteAbsent, StoreInv, CallInProgress
    <2> QED BY <1>1, <1>2, <2>1, InvisibleStep
  <1>5. CASE DropSecret
    <2>1. arg.id \in Ids /\ arg.id \notin IdsOf(doc) /\ doc' = doc
          /\ secure' \in {secure, [secure EXCEPT ![arg.id] = None]}
      BY <1>5 DEF DropSecret, StoreInv, CallInProgress, Args
    <2> QED BY <1>1, <1>2, <2>1, InvisibleStep
  <1>6. CASE PersistOk
    <2> DEFINE at(es) == [i \in DOMAIN es |-> [id   |-> es[i].id,
                                               name |-> es[i].name,
                                               link |-> secure[es[i].id]]]
    <2>1. doc' = entries /\ secure' = secure /\ arg \in Args
      BY <1>6 DEF PersistOk, StoreInv, CallInProgress
    <2>2. Saved = at(doc) /\ Saved' = at(entries)
      BY <2>1 DEF Saved
    <2>3. /\ DOMAIN doc = 1 .. Len(doc) /\ Len(doc) \in Nat /\ doc \in Seq(Entry)
          /\ Saved \in Seq(Abstract!Profile) /\ DOMAIN Saved = DOMAIN doc
          /\ Len(Saved) = Len(doc)
          /\ \A i \in DOMAIN doc : Saved[i] \in Abstract!Profile
      BY SavedFacts
    <2>4. Saved' \in Seq(Abstract!Profile)
      <3>1. Saved' \in [1 .. Len(entries) -> Abstract!Profile]
        <4>1. /\ entries \in Seq(Entry) /\ Len(entries) \in Nat
              /\ DOMAIN entries = 1 .. Len(entries)
          BY LenProperties DEF StoreInv, TypeOK
        <4>2. ASSUME NEW i \in DOMAIN entries
              PROVE  /\ entries[i].id \in Ids /\ entries[i].name \in Names
                     /\ secure[entries[i].id] \in Links
          <5>1. entries[i].id \in Ids /\ entries[i].name \in Names
            BY <4>1, EntryFields
          <5>2. secure[entries[i].id] # None
            BY <2>1 DEF StoreInv, DocumentLoadable
          <5> QED BY <5>1, <5>2 DEF StoreInv, TypeOK
        <4> QED BY <2>2, <4>1, <4>2 DEF Abstract!Profile
      <3> QED BY <3>1, LenProperties DEF StoreInv, TypeOK
    <2>5. CASE pc = "adding"
      <3> DEFINE p == [id |-> arg.id, name |-> arg.old.name, link |-> secure[arg.id]]
      <3>1. /\ arg.old \in Entry /\ arg.old.id = arg.id /\ arg.id \notin IdsOf(doc)
            /\ entries = Append(doc, arg.old) /\ secure[arg.id] # None
        BY <2>1, <2>5 DEF StoreInv, CallInProgress, Args
      <3>2. p \in Abstract!Profile
        BY <2>1, <3>1 DEF Abstract!Profile, Entry, StoreInv, TypeOK
      <3>3. /\ DOMAIN entries = 1 .. Len(doc) + 1
            /\ \A i \in 1 .. Len(doc) : entries[i] = doc[i]
            /\ entries[Len(doc) + 1] = arg.old
        BY <2>3, <3>1, AppendProperties, LenProperties
      <3>4. Saved' = Append(Saved, p)
        <4> DEFINE a == Append(Saved, p)
        <4>1. /\ a \in Seq(Abstract!Profile) /\ Len(a) = Len(doc) + 1
              /\ \A i \in 1 .. Len(doc) : a[i] = Saved[i]
              /\ a[Len(doc) + 1] = p
          BY <2>3, <3>2, AppendProperties
        <4> HIDE DEF a
        <4>2. Len(Saved') = Len(doc) + 1
          BY <2>2, <2>3, <2>4, <3>3, LenProperties
        <4>3. ASSUME NEW i \in 1 .. Len(doc) PROVE Saved'[i] = a[i]
          <5>1. i \in DOMAIN doc /\ i \in DOMAIN entries /\ entries[i] = doc[i]
            BY <2>3, <3>3
          <5>2. Saved'[i] = Saved[i]
            BY <2>2, <5>1
          <5> QED BY <4>1, <5>2
        <4>4. Saved'[Len(doc) + 1] = a[Len(doc) + 1]
          <5>1. Len(doc) + 1 \in DOMAIN entries
            BY <2>3, <3>3
          <5> QED BY <2>2, <3>1, <3>3, <4>1, <5>1
        <4>5. \A i \in 1 .. Len(doc) + 1 : Saved'[i] = a[i]
          BY <2>3, <4>3, <4>4
        <4> QED BY <2>4, <4>1, <4>2, <4>5, SeqEqual DEF a
      <3>5. p.id \notin Abstract!Saved
        BY <2>2, <2>3, <3>1 DEF Abstract!Saved, IdsOf
      <3> HIDE DEF p
      <3>6. Abstract!AddProfile(p)
        BY <3>4, <3>5 DEF Abstract!AddProfile
      <3> QED BY <3>2, <3>6 DEF Abstract!Next
    <2>6. CASE pc = "deleting"
      <3>1. arg.pos \in DOMAIN doc /\ entries = RemoveAt(doc, arg.pos)
        <4>1. CallInProgress
          BY DEF StoreInv
        <4> QED BY ONLY <2>6, <4>1 DEF CallInProgress
      <3>2. /\ entries \in Seq(Entry) /\ Len(entries) = Len(doc) - 1
            /\ DOMAIN entries = 1 .. Len(doc) - 1
            /\ \A j \in 1 .. Len(doc) - 1 :
                  entries[j] = IF j < arg.pos THEN doc[j] ELSE doc[j + 1]
        <4>1. doc \in Seq(Entry) /\ arg.pos \in 1 .. Len(doc) /\ Len(doc) \in Nat
          BY <2>3, <3>1
        <4> DEFINE r == RemoveAt(doc, arg.pos)
        <4>2. /\ r \in Seq(Entry) /\ Len(r) = Len(doc) - 1
              /\ \A j \in 1 .. Len(doc) - 1 :
                    r[j] = IF j < arg.pos THEN doc[j] ELSE doc[j + 1]
          BY ONLY <4>1, RemoveAtFacts
        <4> HIDE DEF r
        <4>3. DOMAIN r = 1 .. Len(doc) - 1
          BY ONLY <4>1, <4>2, LenProperties
        <4>4. entries = r
          BY <3>1 DEF r
        <4> QED BY ONLY <4>2, <4>3, <4>4
      <3>3. Saved' = RemoveAt(Saved, arg.pos)
        <4> DEFINE r == RemoveAt(Saved, arg.pos)
        <4>1. /\ r \in Seq(Abstract!Profile) /\ Len(r) = Len(doc) - 1
              /\ \A j \in 1 .. Len(doc) - 1 :
                    r[j] = IF j < arg.pos THEN Saved[j] ELSE Saved[j + 1]
          <5>1. Saved \in Seq(Abstract!Profile) /\ arg.pos \in 1 .. Len(Saved)
            BY <2>3, <3>1
          <5>2. /\ r \in Seq(Abstract!Profile) /\ Len(r) = Len(Saved) - 1
                /\ \A j \in 1 .. Len(Saved) - 1 :
                      r[j] = IF j < arg.pos THEN Saved[j] ELSE Saved[j + 1]
            BY <5>1, RemoveAtFacts
          <5> HIDE DEF r
          <5> QED BY <2>3, <5>2
        <4> HIDE DEF r
        <4>2. Len(Saved') = Len(doc) - 1
          BY <2>2, <2>3, <2>4, <3>2, LenProperties
        <4>3. ASSUME NEW j \in 1 .. Len(doc) - 1 PROVE Saved'[j] = r[j]
          <5>1. j \in DOMAIN doc /\ j + 1 \in DOMAIN doc /\ j \in DOMAIN entries
            BY <2>3, <3>2
          <5>2. Saved'[j] = [id |-> entries[j].id, name |-> entries[j].name,
                             link |-> secure[entries[j].id]]
            BY <2>2, <5>1
          <5>3. r[j] = IF j < arg.pos THEN Saved[j] ELSE Saved[j + 1]
            BY <4>1
          <5>4. entries[j] = IF j < arg.pos THEN doc[j] ELSE doc[j + 1]
            BY <3>2
          <5>5. \A i \in DOMAIN doc :
                   Saved[i] = [id |-> doc[i].id, name |-> doc[i].name,
                               link |-> secure[doc[i].id]]
            BY <2>2
          <5> QED BY ONLY <5>1, <5>2, <5>3, <5>4, <5>5
        <4> QED BY <2>4, <4>1, <4>2, <4>3, SeqEqual DEF r
      <3>4. arg.pos \in DOMAIN Saved /\ Abstract!DeleteProfile(arg.pos)
        <4>1. arg.pos \in DOMAIN Saved
          BY <2>3, <3>1
        <4> QED BY <3>3, <4>1 DEF Abstract!DeleteProfile, Abstract!RemoveAt, RemoveAt
      <3> QED BY <3>4 DEF Abstract!Next
    <2>7. CASE pc = "renaming"
      <3> DEFINE n == entries[arg.pos].name
      <3>1. arg.pos \in DOMAIN doc /\ n \in Names /\ entries = Renamed(doc, arg.pos, n)
        BY <2>7 DEF StoreInv, CallInProgress
      <3> HIDE DEF n
      <3>2. Distinct(doc)
        BY DEF StoreInv, IdsDistinct, Distinct
      <3>3. /\ DOMAIN entries = DOMAIN doc
            /\ \A i \in DOMAIN doc : entries[i].id = doc[i].id
            /\ \A i \in DOMAIN doc :
                  entries[i].name = IF i = arg.pos THEN n ELSE doc[i].name
        <4>1. doc \in Seq(Entry) /\ arg.pos \in DOMAIN doc
          BY <2>3, <3>1
        <4> QED BY <3>1, <3>2, <4>1, IdsAfterRename
      <3>4. Saved' = [Saved EXCEPT ![arg.pos].name = n]
        <4> DEFINE r == [Saved EXCEPT ![arg.pos].name = n]
        <4>1. /\ Saved' = [i \in DOMAIN doc |-> Saved'[i]]
              /\ \A i \in DOMAIN doc :
                    Saved'[i] = [id |-> doc[i].id, link |-> secure[doc[i].id],
                                 name |-> IF i = arg.pos THEN n ELSE doc[i].name]
          BY <2>2, <3>3
        <4>2. r = [i \in DOMAIN doc |-> r[i]]
          BY <2>2, <2>3
        <4>3. ASSUME NEW i \in DOMAIN doc PROVE r[i] = Saved'[i]
          <5>1. Saved[i] = [id |-> doc[i].id, name |-> doc[i].name,
                            link |-> secure[doc[i].id]]
            BY <2>2
          <5>2. r[i] = IF i = arg.pos THEN [Saved[i] EXCEPT !.name = n] ELSE Saved[i]
            BY <2>3, <3>1
          <5> HIDE DEF r
          <5> QED BY <4>1, <5>1, <5>2
        <4> HIDE DEF r
        <4>4. Saved' = r
          BY <4>1, <4>2, <4>3
        <4> QED BY <4>4 DEF r
      <3> QED BY <2>3, <3>1, <3>4 DEF Abstract!Next, Abstract!RenameProfile
    <2> QED BY <1>6, <2>5, <2>6, <2>7 DEF PersistOk
  <1>7. CASE \/ Open \/ PersistFails \/ Crash
             \/ \E link \in Links : AddExisting(link) \/ AddFails(link)
             \/ \E id \in Ids : \/ DeleteEntry(id) \/ RenameAbsent(id)
                                \/ RenameNoHost(id)
                                \/ \E label \in Names \cup {None} :
                                      RenameEntry(id, label)
    <2>1. doc' = doc /\ secure' = secure
      BY <1>7 DEF Open, PersistFails, UndoAdd, UndoDelete, UndoRename, Crash, AddExisting, AddFails, DeleteEntry,
                  RenameAbsent, RenameNoHost, RenameEntry, storage
    <2> QED BY <1>1, <2>1
  <1>8. CASE UNCHANGED vars
    BY <1>1, <1>8 DEF vars, storage
  <1> QED BY <1>3, <1>4, <1>5, <1>6, <1>7, <1>8 DEF Next

\* The document and the secret store, with every failure and crash between
\* them, implement the atomic list of profiles of ProfileStore.
THEOREM StoreRefines == Spec => Refines
  <1>1. Init => Abstract!Init
    BY DEF Init, Abstract!Init, Saved
  <1>2. StoreInv /\ StoreInv' /\ [Next]_vars => [Abstract!Next]_Saved
    BY StepRefines
  <1> QED BY <1>1, <1>2, StoreInvariant, PTL DEF Spec, Refines, Abstract!Spec
=============================================================================
