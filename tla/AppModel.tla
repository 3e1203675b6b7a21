------------------------------ MODULE AppModel ------------------------------
(***************************************************************************)
(* crates/model/src/lib.rs with the facade of crates/ffi-app: the          *)
(* application's actor.  One thread owns the store and the UI state; the   *)
(* view, the OS and the share sheet only put commands into its channel and *)
(* learn the result from the snapshots it emits, or from a reply.          *)
(*                                                                         *)
(* The commands race: the view decides on the snapshot it last saw, the OS *)
(* reports on its own, and each is handled when its turn comes, in a state *)
(* that may have moved on.  A command is handled in one step: nothing else *)
(* can see the actor's state, and its calls out only enqueue requests.     *)
(*                                                                         *)
(* The store is used through its promise, module ProfileStore; the secret  *)
(* store and the clock make its operations fail at will.  The OS tunnel is *)
(* external and modelled from what it is asked and what it may report.     *)
(***************************************************************************)
EXTENDS Integers, Sequences, SequencesExt, FiniteSets

CONSTANTS Ids, Links, Names, \* as in ProfileStore
          HostOf,            \* the host of a link, the fallback display name
          None,              \* Option::None, and a blank name
          Failures,          \* the errors the tunnel may fail with
          MaxQueue           \* bound: commands waiting in the channel

ASSUME AppModelAssumption ==
    /\ None \notin Ids /\ None \notin Links /\ None \notin Names
    /\ HostOf \in [Links -> Names]
    /\ Failures \subseteq {"Unknown", "AuthFailed", "ServerUnreachable", "Timeout"}
    /\ None \notin {"Unknown", "AuthFailed", "ServerUnreachable", "Timeout"}
    /\ MaxQueue \in Nat \ {0}

VARIABLES
    queue,     \* the command channel
    handle,    \* the Model handle exists: the channel has a sender
    running,   \* the actor thread runs
    profiles,  \* the store
    minted,    \* every id the store ever gave out
    entries, selected, connection, lastError,   \* State, the actor's own
    view,      \* the last snapshot the StateObserver received
    asked,     \* the request the OS has not acted on; a newer one replaces it
    tunnel,    \* the OS tunnel: its state and the error it ended with
    told,      \* history: the OS has reported to this application
    export     \* the share query: nobody asks, or a caller waits

actorState == <<entries, selected, connection, lastError>>
store      == <<profiles, minted>>
os         == <<asked, tunnel, told>>
vars == <<queue, handle, running, store, actorState, view, os, export>>

Store == INSTANCE ProfileStore

-----------------------------------------------------------------------------

ConnectionState == {"Disconnected", "Connecting", "Connected", "Disconnecting"}

(* conn-error: the stable codes that cross the process boundary; 3 is
   retired, and a code that is not known reads as Unknown. *)
ConnErrorCode ==
    [Unknown |-> 0, AuthFailed |-> 1, ServerUnreachable |-> 2, Timeout |-> 4]

ConnError == DOMAIN ConnErrorCode

FromCode(c) ==
    CASE c = 1 -> "AuthFailed"
      [] c = 2 -> "ServerUnreachable"
      [] c = 4 -> "Timeout"
      [] OTHER -> "Unknown"

(* The sentences last_error can hold, by what they are about. *)
AppErrors == {"save", "link", "rename", "delete", "select"}

Entry == [id : Ids, name : Names]

\* store.list(): the metadata of the saved profiles.
ListOf(ps) == [i \in DOMAIN ps |-> [id |-> ps[i].id, name |-> ps[i].name]]
IdsOf(ps)  == {ps[i].id : i \in DOMAIN ps}

Snapshot == [profiles : Seq(Entry), selected : Ids \cup {None},
             connection : ConnectionState,
             lastError : AppErrors \cup ConnError \cup {None}]

Command ==
    [op : {"add"}, link : Links, label : Names \cup {None}]
        \cup [op : {"rename"}, id : Ids, label : Names \cup {None}]
        \cup [op : {"delete", "select", "export"}, id : Ids]
        \cup [op : {"addBad", "connect", "disconnect"}]
        \cup [op : {"status"}, state : ConnectionState,
              error : ConnError \cup {None}]

Requests == [op : {"start"}, id : Ids] \cup [op : {"stop"}]

TypeOK ==
    /\ queue \in Seq(Command) /\ Len(queue) <= MaxQueue
    /\ handle \in BOOLEAN /\ running \in BOOLEAN
    /\ profiles \in Seq(Store!Profile) /\ minted \subseteq Ids
    /\ entries \in Seq(Entry)
    /\ selected \in Ids \cup {None}
    /\ connection \in ConnectionState
    /\ lastError \in AppErrors \cup ConnError \cup {None}
    /\ view \in Snapshot
    /\ asked \in Requests \cup {None}
    /\ tunnel \in [state : ConnectionState, error : ConnError \cup {None}]
    /\ told \in BOOLEAN
    /\ export \in {"idle", "waiting"}

-----------------------------------------------------------------------------

SnapshotOf(es, sel, conn, err) ==
    [profiles |-> es, selected |-> sel, connection |-> conn, lastError |-> err]

(* Model::new over a store that may already hold profiles: the actor starts
   from the list, nothing selected, and emits a first snapshot.  The tunnel is
   a process of its own that may have been started without the application, and
   nothing asks it: the actor starts from ConnectionState::default(). *)
Init ==
    /\ \E p \in {<< >>} \cup {<<q>> : q \in Store!Profile} :
          /\ profiles = p
          /\ minted = IdsOf(p)
          /\ entries = ListOf(p)
    /\ queue = << >>
    /\ handle = TRUE /\ running = TRUE
    /\ selected = None
    /\ connection = "Disconnected"
    /\ lastError = None
    /\ view = SnapshotOf(entries, selected, connection, lastError)
    /\ asked = None
    /\ tunnel \in [state : ConnectionState, error : {None}]
                    \cup [state : {"Disconnected"}, error : Failures]
    /\ told = FALSE
    /\ export = "idle"

-----------------------------------------------------------------------------
(* The senders. *)

Enqueue(c) == Len(queue) < MaxQueue /\ queue' = Append(queue, c)

(* Model::send from the view; an id is one a snapshot has shown. *)
SendIntent ==
    /\ handle
    /\ \/ \E link \in Links, label \in Names \cup {None} :
             Enqueue([op |-> "add", link |-> link, label |-> label])
       \/ Enqueue([op |-> "addBad"])
       \/ \E id \in minted :
             \/ Enqueue([op |-> "delete", id |-> id])
             \/ Enqueue([op |-> "select", id |-> id])
             \/ \E label \in Names \cup {None} :
                   Enqueue([op |-> "rename", id |-> id, label |-> label])
       \/ Enqueue([op |-> "connect"])
       \/ Enqueue([op |-> "disconnect"])
    /\ UNCHANGED <<handle, running, store, actorState, view, os, export>>

(* export_profile_uri: the command goes in and the caller blocks on the
   reply channel. *)
AskExport(id) ==
    /\ handle
    /\ export = "idle"
    /\ Enqueue([op |-> "export", id |-> id])
    /\ export' = "waiting"
    /\ UNCHANGED <<handle, running, store, actorState, view, os>>

(* on_os_status: the tunnel is in a new state; the OS reports it, with the
   code of the error when the tunnel failed.  Without a handle nobody
   listens. *)
Report(state, error) ==
    /\ tunnel' = [state |-> state, error |-> error]
    /\ \/ ~handle /\ UNCHANGED <<queue, told>>
       \/ /\ handle
          /\ told' = TRUE
          /\ Enqueue([op |-> "status", state |-> state,
                      error |-> IF error = None THEN None
                                ELSE FromCode(ConnErrorCode[error])])

(* External: the OS acts on a request, or ignores one that does not apply. *)
OsActs ==
    /\ asked # None
    /\ asked' = None
    /\ \/ /\ asked.op = "start" /\ tunnel.state = "Disconnected"
          /\ Report("Connecting", None)
       \/ /\ asked.op = "stop" /\ tunnel.state \in {"Connecting", "Connected"}
          /\ Report("Disconnecting", None)
       \/ UNCHANGED <<tunnel, told, queue>>
    /\ UNCHANGED <<handle, running, store, actorState, view, export>>

(* External: the tunnel changes state by itself; it comes up, fails, goes
   down, or the OS connects on demand. *)
OsMoves ==
    /\ \/ tunnel.state = "Connecting" /\ Report("Connected", None)
       \/ tunnel.state = "Disconnecting" /\ Report("Disconnected", None)
       \/ tunnel.state = "Disconnected" /\ Report("Connecting", None)
       \/ /\ tunnel.state \in {"Connecting", "Connected"}
          /\ \E e \in Failures : Report("Disconnected", e)
    /\ UNCHANGED <<handle, running, store, actorState, view, asked, export>>

(* Dropping the Model closes the channel; a caller of export_profile_uri
   holds a reference, so none is waiting. *)
DropHandle ==
    /\ handle
    /\ export = "idle"
    /\ handle' = FALSE
    /\ UNCHANGED <<queue, running, store, actorState, view, os, export>>

-----------------------------------------------------------------------------
(* The actor: run_actor's loop takes the head of the channel. *)

Take(op) ==
    /\ running /\ queue # << >>
    /\ Head(queue).op = op
    /\ queue' = Tail(queue)
    /\ UNCHANGED <<handle, running>>

\* The snapshot that ends every state-changing command.
Emit == view' = SnapshotOf(entries', selected', connection', lastError')

\* The store refuses: its list is as before.
StoreFails(error) ==
    /\ UNCHANGED <<store, selected>>
    /\ lastError' = error

(* AddProfileFromUri with a link that parses. *)
HandleAdd ==
    /\ Take("add")
    /\ LET c == Head(queue) IN
       \/ StoreFails("save")
       \/ /\ \E i \in DOMAIN profiles :
                /\ profiles[i].link = c.link
                /\ selected' = profiles[i].id
          /\ lastError' = None
          /\ UNCHANGED store
       \/ /\ \E id \in Ids \ minted :
                /\ Store!AddProfile(
                      [id   |-> id,
                       name |-> IF c.label = None THEN HostOf[c.link] ELSE c.label,
                       link |-> c.link])
                /\ minted' = minted \cup {id}
                /\ selected' = id
          /\ lastError' = None
    /\ entries' = ListOf(profiles')
    /\ UNCHANGED <<connection, os, export>>
    /\ Emit

(* AddProfileFromUri with something that is not a link. *)
HandleAddBad ==
    /\ Take("addBad")
    /\ lastError' = "link"
    /\ UNCHANGED <<store, entries, selected, connection, os, export>>
    /\ Emit

\* Mutant: the list is not read again.
HandleRenameStale ==
    /\ Take("rename")
    /\ LET c == Head(queue) IN
       \/ c.id \notin IdsOf(profiles) /\ UNCHANGED store
       \/ /\ \E i \in DOMAIN profiles :
                /\ profiles[i].id = c.id
                /\ Store!RenameProfile(i, IF c.label = None
                                          THEN HostOf[profiles[i].link]
                                          ELSE c.label)
          /\ UNCHANGED minted
    /\ UNCHANGED <<actorState, os, export>>
    /\ Emit

(* RenameProfile: an id that is gone is not an error, and success leaves an
   earlier error standing. *)
HandleRename ==
    /\ Take("rename")
    /\ LET c == Head(queue) IN
       \/ StoreFails("rename") /\ c.id \in IdsOf(profiles)
       \/ /\ c.id \notin IdsOf(profiles)
          /\ UNCHANGED <<store, selected, lastError>>
       \/ /\ \E i \in DOMAIN profiles :
                /\ profiles[i].id = c.id
                /\ Store!RenameProfile(i, IF c.label = None
                                          THEN HostOf[profiles[i].link]
                                          ELSE c.label)
          /\ UNCHANGED <<minted, selected, lastError>>
    /\ entries' = ListOf(profiles')
    /\ UNCHANGED <<connection, os, export>>
    /\ Emit

\* Mutant: the selection stays.
HandleDeleteKeepsSelection ==
    /\ Take("delete")
    /\ LET c == Head(queue) IN
       \/ StoreFails("delete") /\ c.id \in IdsOf(profiles)
       \/ /\ \/ \E i \in DOMAIN profiles :
                   profiles[i].id = c.id /\ Store!DeleteProfile(i)
             \/ c.id \notin IdsOf(profiles) /\ UNCHANGED profiles
          /\ UNCHANGED <<minted, selected, lastError>>
    /\ entries' = ListOf(profiles')
    /\ UNCHANGED <<connection, os, export>>
    /\ Emit

(* DeleteProfile: the selection goes with the profile, not with a failure. *)
HandleDelete ==
    /\ Take("delete")
    /\ LET c == Head(queue) IN
       \/ StoreFails("delete") /\ c.id \in IdsOf(profiles)
       \/ /\ \/ \E i \in DOMAIN profiles :
                   profiles[i].id = c.id /\ Store!DeleteProfile(i)
             \/ c.id \notin IdsOf(profiles) /\ UNCHANGED profiles
          /\ selected' = IF selected = c.id THEN None ELSE selected
          /\ UNCHANGED <<minted, lastError>>
    /\ entries' = ListOf(profiles')
    /\ UNCHANGED <<connection, os, export>>
    /\ Emit

\* Mutant: the id is not looked up.
HandleSelectUnchecked ==
    /\ Take("select")
    /\ selected' = Head(queue).id
    /\ UNCHANGED <<store, entries, connection, lastError, os, export>>
    /\ Emit

(* SelectProfile: an id that is not listed any more is ignored. *)
HandleSelect ==
    /\ Take("select")
    /\ selected' = IF Head(queue).id \in IdsOf(entries)
                   THEN Head(queue).id ELSE selected
    /\ UNCHANGED <<store, entries, connection, lastError, os, export>>
    /\ Emit

\* Mutant: the state is set in advance of the OS.
HandleConnectOptimistic ==
    /\ Take("connect")
    /\ \/ /\ selected # None
          /\ asked' = [op |-> "start", id |-> selected]
          /\ connection' = "Connecting"
          /\ lastError' = None
       \/ /\ selected = None
          /\ lastError' = "select"
          /\ UNCHANGED <<asked, connection>>
    /\ UNCHANGED <<store, entries, selected, tunnel, told, export>>
    /\ Emit

(* Connect: the OS is asked; the connection state is not touched. *)
HandleConnect ==
    /\ Take("connect")
    /\ \/ /\ selected # None
          /\ asked' = [op |-> "start", id |-> selected]
          /\ lastError' = None
       \/ /\ selected = None
          /\ lastError' = "select"
          /\ UNCHANGED asked
    /\ UNCHANGED <<store, entries, selected, connection, tunnel, told, export>>
    /\ Emit

(* Disconnect. *)
HandleDisconnect ==
    /\ Take("disconnect")
    /\ asked' = [op |-> "stop"]
    /\ UNCHANGED <<store, actorState, tunnel, told, export>>
    /\ Emit

\* Mutant: a status with an error only shows the error.
HandleStatusErrorOnly ==
    /\ Take("status")
    /\ connection' = IF Head(queue).error = None THEN Head(queue).state
                     ELSE connection
    /\ lastError' = Head(queue).error
    /\ UNCHANGED <<store, entries, selected, os, export>>
    /\ Emit

(* OsStatus: state and error are taken over as reported. *)
HandleStatus ==
    /\ Take("status")
    /\ connection' = Head(queue).state
    /\ lastError' = Head(queue).error
    /\ UNCHANGED <<store, entries, selected, os, export>>
    /\ Emit

(* ExportUri: the link, the absence of one or the store's error goes to the
   caller; state is only read and no snapshot follows.  (A reply sender dropped
   without an answer would wake the caller too, with ModelError::Stopped.) *)
HandleExport ==
    /\ Take("export")
    /\ export' = "idle"
    /\ UNCHANGED <<store, actorState, view, os>>

\* Mutant: the thread ends with the handle, whatever is left in the channel.
StopAtOnce ==
    /\ running /\ ~handle
    /\ running' = FALSE
    /\ UNCHANGED <<queue, handle, store, actorState, view, os, export>>

(* The channel is closed and drained: recv fails and the thread ends. *)
Stop ==
    /\ running /\ ~handle /\ queue = << >>
    /\ running' = FALSE
    /\ UNCHANGED <<queue, handle, store, actorState, view, os, export>>

Actor ==
    \/ HandleAdd \/ HandleAddBad \/ HandleRename \/ HandleDelete \/ HandleSelect
    \/ HandleConnect \/ HandleDisconnect \/ HandleStatus \/ HandleExport
    \/ Stop

Next ==
    \/ SendIntent
    \/ \E id \in Ids : AskExport(id)
    \/ OsActs
    \/ OsMoves
    \/ DropHandle
    \/ Actor

Spec == Init /\ [][Next]_vars

\* The actor thread is scheduled; the view and the OS owe nothing.
FairSpec == Spec /\ WF_vars(Actor)

-----------------------------------------------------------------------------

\* The list the view is shown is the store's, whatever failed: every handler
\* that may change the store re-reads the list.
EntriesMatchStore == entries = ListOf(profiles)

\* The selection is a saved profile, through deletes, failed deletes and
\* select intents that arrive after the profile is gone.
SelectedIsSaved == selected # None => selected \in IdsOf(profiles)

\* The places of the channel where a status waits.
Statuses == {i \in DOMAIN queue : queue[i].op = "status"}

\* What is shown of the connection is what the tunnel says: its state, and of
\* connection errors only the one it ended with.
ShowsTunnel ==
    /\ connection = tunnel.state
    /\ lastError \in ConnError => lastError = tunnel.error

\* The Model derives the connection state solely from the OS.  Once the OS has
\* reported at all and every report has been handled, what is shown is the
\* tunnel's state, and a connection error that is shown is the one the tunnel
\* ended with, whatever intents were handled in between.  Until the first report
\* the application shows Disconnected, although the tunnel may have been started
\* without it.
ConnectionIsTunnels ==
    handle /\ Statuses = {} =>
        IF told THEN ShowsTunnel
        ELSE connection = "Disconnected" /\ lastError \notin ConnError

\* What makes it inductive: the newest status in the channel tells what the
\* tunnel is like now.
NewestTells ==
    /\ Statuses # {} => told
    /\ handle => \A i \in Statuses :
                    (\A j \in Statuses : j <= i) =>
                        queue[i].state = tunnel.state /\ queue[i].error = tunnel.error

\* A start request always names a profile that is saved at that moment.
StartsSavedProfile ==
    [][asked' # asked /\ asked' # None =>
          (asked'.op = "start" => asked'.id \in IdsOf(profiles))]_vars

\* Dropping the handle loses nothing that was sent before: the actor handles
\* every command left in the channel, and only then ends.
DroppedDrains == ~handle ~> ~running /\ queue = << >>

\* Once the OS has reported to the application and the tunnel stays in a state,
\* the view shows that state for good, unless the application goes away.
ViewConverges ==
    \A s \in ConnectionState :
        <>[](handle /\ told /\ tunnel.state = s) => <>[](view.connection = s)
=============================================================================
