------------------------------- MODULE Store --------------------------------
(***************************************************************************)
(* crates/store/src/lib.rs: the saved profiles.  The metadata of a profile *)
(* (id, display name) is an entry of one JSON document; the link itself is *)
(* a secret of the platform's SecureStore (Keychain, ...), keyed by id.    *)
(*                                                                         *)
(* An operation is one synchronous call, but it touches the secret store   *)
(* and the document one after the other: the process can be killed between *)
(* the two, and either of them can fail.  An operation is therefore split  *)
(* at exactly the points where one of the two has changed, and pc says how *)
(* far the call that is running has come.                                  *)
(*                                                                         *)
(* created_at is written once and never read, and is left out; a link is   *)
(* an opaque value with a host.                                            *)
(***************************************************************************)
EXTENDS Naturals, Sequences, SequencesExt

CONSTANTS Ids,      \* the random v4 UUIDs that can be drawn
          Links,    \* profiles as they are stored in the SecureStore
          Names,    \* non-blank display names, hosts included
          HostOf,   \* host_of(link.server), the fallback display name
          None      \* absence: no secret, a blank name, no call, no reply

ASSUME StoreAssumption ==
    /\ None \notin Links
    /\ None \notin Names
    /\ HostOf \in [Links -> Names]

VARIABLES
    doc,        \* the entries of the document on disk (absent = empty)
    secure,     \* the SecureStore: the link stored under each id
    entries,    \* Store.entries, the copy in memory
    pc,         \* how far the running call is
    arg,        \* its local variables: id, position, saved entry
    reply,      \* what the last call returned
    minted,     \* every id ever drawn: a v4 UUID does not recur
    blind,      \* history: a dedup lookup could not read the secret it sought
    halfAdded,  \* history: ids of adds that did not complete
    undeleted   \* history: ids of deletes that did not erase the secret

storage == <<doc, secure>>
memory  == <<entries, pc, arg, reply>>
history == <<blind, halfAdded, undeleted>>
vars    == <<storage, memory, minted, history>>

Entry == [id : Ids, name : Names]
Args  == [id : Ids, pos : Nat, old : Entry]
Replies ==
    [kind : {"added", "deleted", "absent", "renamed"}, id : Ids]
        \cup [kind : {"failed"}, id : {None}]

IdsOf(es) == {es[i].id : i \in DOMAIN es}
PosOf(es, id) == CHOOSE i \in DOMAIN es : es[i].id = id
Renamed(es, i, name) == [es EXCEPT ![i].name = name]

-----------------------------------------------------------------------------

TypeOK ==
    /\ doc \in Seq(Entry)
    /\ secure \in [Ids -> Links \cup {None}]
    /\ entries \in Seq(Entry)
    /\ pc \in {"closed", "idle", "adding", "undoing",
               "deleting", "dropping", "renaming"}
    /\ arg \in Args \cup {None}
    /\ reply \in Replies \cup {None}
    /\ minted \subseteq Ids
    /\ blind \in BOOLEAN
    /\ halfAdded \subseteq Ids
    /\ undeleted \subseteq Ids

\* First start: no document, no secret, no process.
Init ==
    /\ doc = << >>
    /\ secure = [id \in Ids |-> None]
    /\ entries = << >>
    /\ pc = "closed"
    /\ arg = None
    /\ reply = None
    /\ minted = {}
    /\ blind = FALSE
    /\ halfAdded = {}
    /\ undeleted = {}

\* The running call returns r.
Return(r) == pc' = "idle" /\ arg' = None /\ reply' = r

Failed == [kind |-> "failed", id |-> None]
Done(kind, id) == [kind |-> kind, id |-> id]

\* The running call goes on at step p with local variables a.
Continue(p, a) == pc' = p /\ arg' = a /\ reply' = None

-----------------------------------------------------------------------------

(* Store::new.  An unreadable or newer document is an error: nothing opens. *)
Open ==
    /\ pc = "closed"
    /\ entries' = doc
    /\ pc' = "idle"
    /\ UNCHANGED <<storage, arg, reply, minted, history>>

\* Mutant: dedup only looks at the oldest entry.
MatchingOldestOnly(link, unreadable) ==
    {i \in DOMAIN entries : /\ i = 1
                            /\ entries[i].id \notin unreadable
                            /\ secure[entries[i].id] = link}

(* load, as find_matching uses it: the positions whose stored link is link;
   a secret that cannot be read is not a match. *)
Matching(link, unreadable) ==
    {i \in DOMAIN entries : /\ entries[i].id \notin unreadable
                            /\ secure[entries[i].id] = link}

(* The display name of a new entry: the caller's label, or the host. *)
NameFor(link, label) == IF label = None THEN HostOf[link] ELSE label

(* add, an entry already holds this link: the first is returned unchanged. *)
AddExisting(link) ==
    /\ pc = "idle"
    /\ \E unreadable \in SUBSET IdsOf(entries) :
       \E i \in Matching(link, unreadable) :
          /\ \A j \in Matching(link, unreadable) : i <= j
          /\ Return(Done("added", entries[i].id))
    /\ UNCHANGED <<storage, entries, minted, history>>

(* add, the clock or SecureStore::set fails: nothing has changed. *)
AddFails(link) ==
    /\ pc = "idle"
    /\ \E unreadable \in SUBSET IdsOf(entries) : Matching(link, unreadable) = {}
    /\ Return(Failed)
    /\ UNCHANGED <<storage, entries, minted, history>>

(* add: the secret is written under a fresh id, then the entry is pushed. *)
AddSecret(link, label) ==
    /\ pc = "idle"
    /\ \E unreadable \in SUBSET IdsOf(entries), id \in Ids \ minted :
          LET e == [id |-> id, name |-> NameFor(link, label)] IN
          /\ Matching(link, unreadable) = {}
          /\ secure' = [secure EXCEPT ![id] = link]
          /\ entries' = Append(entries, e)
          /\ minted' = minted \cup {id}
          /\ blind' = (blind \/ \E u \in unreadable : secure[u] = link)
          /\ Continue("adding",
                      [id |-> id, pos |-> Len(entries) + 1, old |-> e])
    /\ UNCHANGED <<doc, halfAdded, undeleted>>

(* delete, no such entry: a stray secret is erased, best effort. *)
DeleteAbsent(id) ==
    /\ pc = "idle"
    /\ id \notin IdsOf(entries)
    /\ secure' \in {secure, [secure EXCEPT ![id] = None]}
    /\ Return(Done("absent", id))
    /\ UNCHANGED <<doc, entries, minted, history>>

\* Mutant: the secret is erased before the document is written.
DeleteEntrySecretFirst(id) ==
    /\ pc = "idle"
    /\ id \in IdsOf(entries)
    /\ LET pos == PosOf(entries, id) IN
          /\ entries' = RemoveAt(entries, pos)
          /\ Continue("deleting",
                      [id |-> id, pos |-> pos, old |-> entries[pos]])
    /\ secure' = [secure EXCEPT ![id] = None]
    /\ UNCHANGED <<doc, minted, history>>

(* delete: the entry leaves the list in memory. *)
DeleteEntry(id) ==
    /\ pc = "idle"
    /\ id \in IdsOf(entries)
    /\ LET pos == PosOf(entries, id) IN
          /\ entries' = RemoveAt(entries, pos)
          /\ Continue("deleting",
                      [id |-> id, pos |-> pos, old |-> entries[pos]])
    /\ UNCHANGED <<storage, minted, history>>

(* rename, no such entry. *)
RenameAbsent(id) ==
    /\ pc = "idle"
    /\ id \notin IdsOf(entries)
    /\ Return(Done("absent", id))
    /\ UNCHANGED <<storage, entries, minted, history>>

(* rename to blank: the host is read from the secret, which fails, or there
   is no secret to read and the name stays. *)
RenameNoHost(id) ==
    /\ pc = "idle"
    /\ id \in IdsOf(entries)
    /\ \/ Return(Failed)
       \/ secure[id] = None /\ Return(Done("renamed", id))
    /\ UNCHANGED <<storage, entries, minted, history>>

(* rename: the name is replaced in memory. *)
RenameEntry(id, label) ==
    /\ pc = "idle"
    /\ id \in IdsOf(entries)
    /\ label = None => secure[id] # None
    /\ LET pos  == PosOf(entries, id)
           name == IF label = None THEN HostOf[secure[id]] ELSE label IN
          /\ entries' = Renamed(entries, pos, name)
          /\ Continue("renaming",
                      [id |-> id, pos |-> pos, old |-> entries[pos]])
    /\ UNCHANGED <<storage, minted, history>>

(* persist succeeds: the document is replaced by an atomic rename. *)
PersistOk ==
    /\ pc \in {"adding", "deleting", "renaming"}
    /\ doc' = entries
    /\ \/ pc = "adding" /\ Return(Done("added", arg.id))
       \/ pc = "renaming" /\ Return(Done("renamed", arg.id))
       \/ pc = "deleting" /\ Continue("dropping", arg)
    /\ UNCHANGED <<secure, entries, minted, history>>

\* Mutant: a failed add does not erase the secret it wrote.
UndoAddKeepsSecret ==
    pc = "adding" /\ entries' = Front(entries) /\ Return(Failed)

\* Mutant: a failed add does not take its entry back.
UndoAddKeepsEntry ==
    pc = "adding" /\ Continue("undoing", arg) /\ UNCHANGED entries

\* add rolls back: the entry is popped, the secret is to be erased.
UndoAdd ==
    pc = "adding" /\ entries' = Front(entries) /\ Continue("undoing", arg)

\* Mutant: the entry is put back at the end.
UndoDeleteReorders ==
    pc = "deleting" /\ entries' = Append(entries, arg.old) /\ Return(Failed)

\* delete rolls back: the entry is put back where it was.
UndoDelete ==
    /\ pc = "deleting"
    /\ entries' = InsertAt(entries, arg.pos, arg.old)
    /\ Return(Failed)

\* rename rolls back: the old name is put back.
UndoRename ==
    /\ pc = "renaming"
    /\ entries' = Renamed(entries, arg.pos, arg.old.name)
    /\ Return(Failed)

\* Mutant: the error of persist is dropped.
PersistFailsSwallowed ==
    /\ \/ pc = "adding" /\ Return(Done("added", arg.id))
       \/ pc = "renaming" /\ Return(Done("renamed", arg.id))
       \/ pc = "deleting" /\ Continue("dropping", arg)
    /\ UNCHANGED <<storage, entries, minted, history>>

(* persist fails: the change in memory is rolled back. *)
PersistFails ==
    /\ UndoAdd \/ UndoDelete \/ UndoRename
    /\ UNCHANGED <<storage, minted, history>>

(* The best-effort erasure that ends a failed add and a completed delete. *)
DropSecret ==
    /\ pc \in {"undoing", "dropping"}
    /\ \/ /\ secure' = [secure EXCEPT ![arg.id] = None]
          /\ UNCHANGED <<halfAdded, undeleted>>
       \/ /\ UNCHANGED secure
          /\ IF pc = "undoing"
             THEN halfAdded' = halfAdded \cup {arg.id} /\ UNCHANGED undeleted
             ELSE undeleted' = undeleted \cup {arg.id} /\ UNCHANGED halfAdded
    /\ Return(IF pc = "undoing" THEN Failed ELSE Done("deleted", arg.id))
    /\ UNCHANGED <<doc, entries, minted, blind>>

(* The process is killed, at any point of any call. *)
Crash ==
    /\ pc # "closed"
    /\ entries' = << >>
    /\ pc' = "closed" /\ arg' = None /\ reply' = None
    /\ halfAdded' = IF pc \in {"adding", "undoing"}
                    THEN halfAdded \cup {arg.id} ELSE halfAdded
    /\ undeleted' = IF pc = "dropping"
                    THEN undeleted \cup {arg.id} ELSE undeleted
    /\ UNCHANGED <<storage, minted, blind>>

Next ==
    \/ Open
    \/ \E link \in Links :
          \/ AddExisting(link)
          \/ AddFails(link)
          \/ \E label \in Names \cup {None} : AddSecret(link, label)
    \/ \E id \in Ids :
          \/ DeleteAbsent(id)
          \/ DeleteEntry(id)
          \/ RenameAbsent(id)
          \/ RenameNoHost(id)
          \/ \E label \in Names \cup {None} : RenameEntry(id, label)
    \/ PersistOk
    \/ PersistFails
    \/ DropSecret
    \/ Crash

Spec == Init /\ [][Next]_vars

-----------------------------------------------------------------------------

\* Every entry the document lists has its link in the SecureStore, at every
\* point where the process can die: add writes the secret first, delete erases
\* it last.
DocumentLoadable ==
    \A i \in DOMAIN doc : secure[doc[i].id] # None

\* Between calls the list in memory is exactly the document: whatever call
\* failed, and at whatever step, add/delete/rename rolled their change back to
\* the same entries in the same order.
MemoryMatchesDocument == pc = "idle" => entries = doc

\* No two entries of the document share an id, however calls, failures and
\* crashes follow each other.
IdsDistinct ==
    \A i, j \in DOMAIN doc : doc[i].id = doc[j].id => i = j

\* "Adds are idempotent by profile identity": two entries hold the same link
\* only if a dedup lookup once could not read the secret it was looking for.
LinksDistinct ==
    ~blind => \A i, j \in DOMAIN doc :
                 secure[doc[i].id] = secure[doc[j].id] => i = j

\* What add and delete returned agrees with the document: an added id is
\* listed and loadable, a deleted id is gone.
ReplyTruthful ==
    pc = "idle" /\ reply # None =>
        /\ reply.kind = "added" =>
              reply.id \in IdsOf(doc) /\ secure[reply.id] # None
        /\ reply.kind \in {"deleted", "absent"} => reply.id \notin IdsOf(doc)

\* Between calls a secret without an entry can only stem from an add that was
\* cut short or whose rollback failed, or from a delete whose erasure failed.
OrphansExplained ==
    pc \in {"idle", "closed"} =>
        \A id \in Ids : secure[id] # None =>
            id \in IdsOf(doc) \cup halfAdded \cup undeleted

\* The comment in add: a half-written add leaves an orphaned secret that is
\* overwritten on retry.  Once an add of the same link has returned, the secret
\* of the add that was cut short should not be there any more.
OrphanOverwrittenOnRetry ==
    pc = "idle" /\ reply # None /\ reply.kind = "added" =>
        \A id \in halfAdded : secure[id] # secure[reply.id]

\* The inductive invariant.  While a call is between two steps, the list in
\* memory is the document with that call's change applied and nothing else, and
\* arg holds what the rollback needs to undo it.
CallInProgress ==
    /\ pc = "closed" => entries = << >>
    /\ pc \in {"idle", "undoing", "dropping"} => entries = doc
    /\ pc \in {"adding", "undoing", "deleting", "dropping", "renaming"} =>
          arg \in Args
    /\ pc = "adding" =>
          /\ arg.id = arg.old.id
          /\ entries = Append(doc, arg.old)
          /\ secure[arg.id] # None
    /\ pc \in {"adding", "undoing", "dropping"} =>
          arg.id \notin IdsOf(doc) /\ arg.id \in minted
    /\ pc \in {"deleting", "renaming"} =>
          arg.pos \in DOMAIN doc /\ arg.old = doc[arg.pos] /\ arg.id = arg.old.id
    /\ pc = "deleting" => entries = RemoveAt(doc, arg.pos)
    /\ pc = "renaming" =>
          /\ entries = Renamed(doc, arg.pos, entries[arg.pos].name)
          /\ entries[arg.pos].name \in Names

StoreInv ==
    /\ TypeOK
    /\ CallInProgress
    /\ DocumentLoadable
    /\ IdsDistinct
    /\ IdsOf(doc) \subseteq minted
    /\ \A id \in Ids : secure[id] # None => id \in minted

\* The id whose secret the running call has written or is about to erase,
\* listed or not.
InHand == IF pc \in {"adding", "undoing", "dropping"} THEN {arg.id} ELSE {}

\* What makes the properties of replies, orphans and links inductive: a process
\* that starts has answered nothing; every secret has an entry, a recorded
\* mishap or a call that is not done with it; and the link of an add that is
\* under way is new already.
AccountInv ==
    /\ pc = "closed" => reply = None
    /\ ReplyTruthful
    /\ \A id \in Ids : secure[id] # None =>
          id \in IdsOf(doc) \cup halfAdded \cup undeleted \cup InHand
    /\ ~blind => \A a, b \in IdsOf(doc) \cup (IF pc = "adding" THEN InHand ELSE {}) :
                    secure[a] = secure[b] => a = b

\* The abstract list behind the two stores: the document's entries, each with
\* the link found under its id.
Saved == [i \in DOMAIN doc |-> [id   |-> doc[i].id,
                                name |-> doc[i].name,
                                link |-> secure[doc[i].id]]]

Abstract == INSTANCE ProfileStore WITH profiles <- Saved

\* The two stores together behave as one list that changes atomically.
Refines == Abstract!Spec
=============================================================================
