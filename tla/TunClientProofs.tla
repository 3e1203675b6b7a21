-------------------------- MODULE TunClientProofs --------------------------
(* The receive tasks of the dataplane, for any number of endpoints, sessions
   and relays: none runs on without an entry in the table unless it was asked
   to stop, and so the counters that join returns are final.

   Both rest on one invariant of the table and the tasks.  Once orchestrate has
   returned the table is empty; a task that is not aborted has an entry; hence
   none is left that could count a reply. *)
EXTENDS TunClient, TLAPS

States == {"unborn", "receiving", "blocked", "ended"}

\* What the table and the tasks hold: a session that was opened has an endpoint,
\* and only a task that is there can be aborted.
TableOK ==
    /\ map \in [Srcs -> Conns \cup {None}]
    /\ task \in [Conns -> States]
    /\ owner \in [Conns -> Srcs \cup {None}]
    /\ aborted \subseteq Live
    /\ \A c \in Live : owner[c] \in Srcs
    /\ \A s \in Srcs : map[s] # None => task[map[s]] # "unborn"

\* After the return the table is empty, and only then join has answered.
Emptied == phase = "done" => \A s \in Srcs : map[s] = None

Answered == final # None => phase = "done"

TasksInv == TableOK /\ NoStrayTask /\ Emptied /\ Answered /\ FinalIsFinal

-----------------------------------------------------------------------------

(* spawn starts without sessions. *)
LEMMA TasksInit == Init => TasksInv
  BY DataplaneAssumption
     DEF Init, TasksInv, TableOK, States, Live, NoStrayTask, Emptied, Answered, FinalIsFinal

(* After the return no task runs that was not aborted. *)
LEMMA NoneRuns ==
  ASSUME TasksInv, phase = "done", NEW c \in Conns, c \notin aborted
  PROVE  task[c] \notin {"receiving", "blocked"}
  BY DataplaneAssumption DEF TasksInv, TableOK, NoStrayTask, Emptied, Live

(* A session of the table that is opened: its endpoint had none, so no other
   task that runs belongs to it. *)
LEMMA OpensKeeps ==
  ASSUME TasksInv, NEW s \in Srcs, ForwardOpens(s)
  PROVE  TasksInv'
  <1> DEFINE c == Fresh
  <1>1. c \in Conns /\ task[c] = "unborn"
    BY DEF ForwardOpens, Fresh, Opened
  <1>2. /\ map' = [map EXCEPT ![s] = c]
        /\ owner' = [owner EXCEPT ![c] = s]
        /\ task' = [task EXCEPT ![c] = "receiving"]
        /\ map[s] = None /\ phase = "loop"
        /\ UNCHANGED <<phase, aborted, final>>
    BY DEF ForwardOpens
  <1> HIDE DEF c
  <1>3. final' = None
    BY <1>2 DEF TasksInv, Answered
  <1>4. TableOK'
    BY <1>1, <1>2, DataplaneAssumption DEF TasksInv, TableOK, Live, States
  <1>5. ASSUME NEW d \in Live', d \notin aborted'
        PROVE  map'[owner'[d]] = d
    <2>1. CASE d = c
      BY <1>1, <1>2, <2>1 DEF TasksInv, TableOK
    <2>2. CASE d # c
      <3>1. d \in Live /\ owner'[d] = owner[d] /\ map[owner[d]] = d /\ owner[d] \in Srcs
        BY <1>1, <1>2, <1>5, <2>2 DEF TasksInv, TableOK, NoStrayTask, Live
      <3>2. owner[d] # s
        BY <1>2, <3>1, DataplaneAssumption DEF Live
      <3> QED BY <1>2, <3>1, <3>2 DEF TasksInv, TableOK
    <2> QED BY <2>1, <2>2
  <1> QED
    BY <1>2, <1>3, <1>4, <1>5 DEF TasksInv, NoStrayTask, Emptied, Answered, FinalIsFinal

(* Sessions that leave the table: their tasks are aborted. *)
LEMMA LeaveKeeps ==
  ASSUME TasksInv, final = None, NEW gone \in SUBSET Srcs,
         map' = [s \in Srcs |-> IF s \in gone THEN None ELSE map[s]],
         Abort({map[s] : s \in gone}),
         UNCHANGED <<owner, task, final>>,
         phase' = "done" => gone = Srcs
  PROVE  TasksInv'
  <1>1. TableOK'
    BY DataplaneAssumption DEF TasksInv, TableOK, Live, Abort
  <1>2. ASSUME NEW d \in Live', d \notin aborted'
        PROVE  map'[owner'[d]] = d
    <2>1. d \in Live /\ d \notin aborted /\ owner[d] \in Srcs
      BY <1>2 DEF TasksInv, TableOK, Live, Abort
    <2>2. map[owner[d]] = d
      BY <2>1 DEF TasksInv, NoStrayTask
    <2>3. owner[d] \notin gone
      BY <1>2, <2>1, <2>2 DEF Abort
    <2> QED BY <2>1, <2>2, <2>3
  <1>3. Emptied'
    BY DEF Emptied
  <1> QED
    BY <1>1, <1>2, <1>3 DEF TasksInv, NoStrayTask, Answered, FinalIsFinal

(* A task that runs goes on, or ends by itself or as it was aborted: the table
   stays as it is. *)
LEMMA TaskKeeps ==
  ASSUME TasksInv, NEW c \in Conns, NEW state \in States \ {"unborn"},
         Becomes(c, state), task[c] # "unborn",
         task[c] = "ended" => state = "ended",
         \/ aborted' = aborted /\ c \notin aborted
         \/ aborted' = aborted \ {c} /\ state = "ended",
         final # None => stats' = stats,
         UNCHANGED <<map, owner, phase, final>>
  PROVE  TasksInv'
  <1>1. task' = [task EXCEPT ![c] = state]
    BY DEF Becomes
  <1>2. TableOK'
    BY <1>1, DataplaneAssumption DEF TasksInv, TableOK, Live, States
  <1>3. NoStrayTask'
    BY <1>1 DEF TasksInv, TableOK, NoStrayTask, Live, States
  <1> QED
    BY <1>2, <1>3 DEF TasksInv, Emptied, Answered, FinalIsFinal

(* What touches neither table nor tasks, and no counter after the return. *)
LEMMA OtherKeeps ==
  ASSUME TasksInv, UNCHANGED <<map, owner, task, aborted, final>>,
         phase' = "done" <=> phase = "done",
         final # None => stats' = stats
  PROVE  TasksInv'
  BY DEF TasksInv, TableOK, Live, NoStrayTask, Emptied, Answered, FinalIsFinal

-----------------------------------------------------------------------------

(* Every step of the dataplane keeps the invariant. *)
LEMMA TasksStep == TasksInv /\ [Next]_vars => TasksInv'
  <1> SUFFICES ASSUME TasksInv, [Next]_vars
               PROVE  TasksInv'
    OBVIOUS
  <1> USE DEF sessions, relays
  <1>1. CASE Accept
    BY <1>1, OtherKeeps DEF Accept, TasksInv, Answered
  <1>2. ASSUME NEW s \in Srcs, ForwardKnown(s)
        PROVE  TasksInv'
    BY <1>2, OtherKeeps DEF ForwardKnown, TasksInv, Answered
  <1>3. ASSUME NEW s \in Srcs, ForwardOpens(s)
        PROVE  TasksInv'
    BY <1>3, OpensKeeps
  <1>4. ASSUME NEW s \in Srcs, ForwardDrops(s)
        PROVE  TasksInv'
    BY <1>4, OtherKeeps DEF ForwardDrops, TasksInv, Answered
  <1>5. CASE ReapIdle
    <2>1. /\ IdleKeys \in SUBSET Srcs /\ phase' # "done" /\ final = None
          /\ map' = [s \in Srcs |-> IF s \in IdleKeys THEN None ELSE map[s]]
          /\ Abort({map[s] : s \in IdleKeys})
          /\ UNCHANGED <<owner, task, final>>
      BY <1>5 DEF ReapIdle, IdleKeys, TasksInv, Answered
    <2> QED BY <2>1, LeaveKeeps
  <1>6. CASE Return
    <2>1. /\ final = None
          /\ map' = [s \in Srcs |-> IF s \in Srcs THEN None ELSE map[s]]
          /\ Abort({map[s] : s \in Srcs})
          /\ UNCHANGED <<owner, task, final>>
      BY <1>6 DEF Return, TasksInv, Answered
    <2> QED BY <2>1, LeaveKeeps
  <1>7. CASE ReapRelay \/ Break \/ RelaysJoined \/ InfraStops
    BY <1>7, OtherKeeps DEF ReapRelay, Break, RelaysJoined, InfraStops
  <1>8. CASE Relays
    <2>1. CASE RelayDials
      BY <2>1, OtherKeeps DEF RelayDials
    <2>2. CASE RelayCopies
      BY <2>2, OtherKeeps DEF RelayCopies, TasksInv, Answered
    <2>3. CASE RelayEnds
      BY <2>3, OtherKeeps DEF RelayEnds, TasksInv, Answered
    <2>4. CASE RelayCancelled
      BY <2>4, OtherKeeps DEF RelayCancelled
    <2> QED BY <1>8, <2>1, <2>2, <2>3, <2>4 DEF Relays
  <1>9. ASSUME NEW c \in Conns, Task(c)
        PROVE  TasksInv'
    <2>1. CASE TaskSkips(c)
      BY <2>1, OtherKeeps DEF TaskSkips
    <2>2. CASE TaskDelivers(c)
      <3>1. task[c] = "receiving" /\ c \notin aborted
        BY <2>2 DEF TaskDelivers, Runs
      <3>2. final = None
        BY <3>1, NoneRuns DEF TasksInv, Answered
      <3>3. PICK state \in States \ {"unborn"} : Becomes(c, state)
        BY <2>2 DEF TaskDelivers, Queued, States
      <3> QED BY <2>2, <3>1, <3>2, <3>3, TaskKeeps DEF TaskDelivers
    <2>3. CASE TaskUnblocks(c)
      <3>1. task[c] = "blocked" /\ c \notin aborted
        BY <2>3 DEF TaskUnblocks, Runs
      <3>2. PICK state \in States \ {"unborn"} : Becomes(c, state)
        BY <2>3 DEF TaskUnblocks, Queued, States
      <3> QED BY <2>3, <3>1, <3>2, TaskKeeps DEF TaskUnblocks
    <2>4. CASE TaskBreaks(c)
      BY <2>4, TaskKeeps DEF TaskBreaks, Runs, States
    <2>5. CASE TaskCancelled(c)
      BY <2>5, TaskKeeps DEF TaskCancelled, TasksInv, TableOK, Live, States
    <2> QED BY <1>9, <2>1, <2>2, <2>3, <2>4, <2>5 DEF Task
  <1>10. CASE Join
    BY <1>10 DEF Join, TasksInv, TableOK, Live, NoStrayTask, Emptied, Answered, FinalIsFinal
  <1>11. CASE TriggerShutdown \/ InfraFails \/ Write \/ Tick
    BY <1>11, OtherKeeps DEF TriggerShutdown, InfraFails, Write, Tick
  <1>12. CASE UNCHANGED vars
    BY <1>12, OtherKeeps DEF vars
  <1> QED
    BY <1>1, <1>2, <1>3, <1>4, <1>5, <1>6, <1>7, <1>8, <1>9, <1>10, <1>11, <1>12
       DEF Next, Loop

(* Whatever the TUN program does is a step of the dataplane or leaves it alone. *)
LEMMA RunSteps == [RunNext]_all => [Next]_vars
  <1> SUFFICES ASSUME [RunNext]_all
               PROVE  [Next]_vars
    OBVIOUS
  <1>1. CASE Connects \/ Driver \/ Connected \/ OpensDevice \/ UNCHANGED all
    BY <1>1 DEF Connects, Driver, Connected, OpensDevice, all
  <1>2. CASE Interrupted \/ Joined \/ Returns
    BY <1>2 DEF Interrupted, Joined, Returns, Next, Loop
  <1>3. CASE Forwards
    BY <1>3 DEF Forwards, Next, Loop
  <1>4. CASE RelaysRun
    BY <1>4 DEF RelaysRun, Next, Relays
  <1>5. CASE Orchestrates
    BY <1>5 DEF Orchestrates, Next, Loop
  <1>6. CASE \E c \in Conns : Receives(c)
    BY <1>6 DEF Receives, TaskStops, Next, Task
  <1> QED BY <1>1, <1>2, <1>3, <1>4, <1>5, <1>6 DEF RunNext

(* The dataplane inside the program keeps the invariant of its table and tasks. *)
THEOREM RunInvariant == RunSpec => []TasksInv
  <1>1. RunInit => TasksInv
    BY TasksInit DEF RunInit
  <1>2. TasksInv /\ [RunNext]_all => TasksInv'
    BY TasksStep, RunSteps
  <1> QED BY <1>1, <1>2, PTL DEF RunSpec

(* No receive task runs on without an entry of the table or an abort: whatever
   sweeps, losses of the connection and shutdowns come in between. *)
THEOREM TasksKept == RunSpec => []NoStrayTask
  <1>1. TasksInv => NoStrayTask
    BY DEF TasksInv
  <1> QED BY <1>1, RunInvariant, PTL

(* Handle::join keeps its promise, although orchestrate does not wait for the
   receive tasks. *)
THEOREM JoinFinal == RunSpec => []FinalIsFinal
  <1>1. TasksInv => FinalIsFinal
    BY DEF TasksInv
  <1> QED BY <1>1, RunInvariant, PTL

(* The TUN program, with its client and what becomes of the connection, drives
   the dataplane only as orchestrate allows: it implements the safety part of
   Dataplane. *)
THEOREM RunsDataplane == RunSpec => Init /\ [][Next]_vars
  <1>1. RunInit => Init
    BY DEF RunInit
  <1> QED BY <1>1, RunSteps, PTL DEF RunSpec
=============================================================================
