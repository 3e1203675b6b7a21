----------------------------- MODULE StatsGate -----------------------------
(***************************************************************************)
(* The statistics path of crates/ffi-app: stats go through the Model's     *)
(* channel to the actor thread, which hands them to the observer that is   *)
(* subscribed.  Subscribing and unsubscribing write the shared slot from   *)
(* the view's thread, or from inside the observer's own callback, at any   *)
(* moment; the slot has a mutex that is not reentrant.                     *)
(*                                                                         *)
(* The actor clones the observer out of the slot under the lock, releases  *)
(* it, and calls: between the two the slot may change.  The stats          *)
(* themselves are passed on and are only counted here.                     *)
(***************************************************************************)
EXTENDS Integers

CONSTANTS Observers,  \* the foreign StatsObservers
          Nobody,     \* Option::None
          MaxStats,   \* bound: stats fed by the tunnel
          MaxWaiting  \* bound: stats waiting in the channel

ASSUME StatsGateAssumption ==
    /\ Nobody \notin Observers
    /\ MaxStats \in Nat /\ MaxWaiting \in Nat

VARIABLES
    fed,       \* how many stats were fed
    waiting,   \* how many wait in the channel
    slot,      \* StatsSlot: the observer in it
    locked,    \* the actor holds the slot's mutex
    call,      \* the observer the actor is about to call, or is calling
    inside,    \* the observer's callback runs
    reenters,  \* the callback will unsubscribe before it returns
    wanted,    \* history: the observer the last (un)subscribe call was about
    late       \* history: calls each observer got while it was not wanted

gateVars == <<fed, waiting, slot, locked, call, inside, reenters, wanted, late>>

(* App::new: nobody is subscribed. *)
GateInit ==
    /\ fed = 0 /\ waiting = 0
    /\ slot = Nobody /\ wanted = Nobody
    /\ locked = FALSE
    /\ call = Nobody /\ inside = FALSE /\ reenters = FALSE
    /\ late = [o \in Observers |-> 0]

(* App::on_stats, Model::on_stats. *)
OnStats ==
    /\ fed < MaxStats
    /\ waiting < MaxWaiting
    /\ fed' = fed + 1
    /\ waiting' = waiting + 1
    /\ UNCHANGED <<slot, locked, call, inside, reenters, wanted, late>>

\* Mutant: the slot is only written when it is empty.
SetSlotOnce(o) ==
    /\ ~locked
    /\ slot' = IF slot = Nobody THEN o ELSE slot
    /\ wanted' = o
    /\ late' = [p \in Observers |-> IF p = o THEN 0 ELSE late[p]]

\* The slot is written under its lock; whoever gets in is not late any more.
SetSlot(o) ==
    /\ ~locked
    /\ slot' = o
    /\ wanted' = o
    /\ late' = [p \in Observers |-> IF p = o THEN 0 ELSE late[p]]

SubscribeStats(o) ==
    /\ SetSlot(o)
    /\ UNCHANGED <<fed, waiting, locked, call, inside, reenters>>

UnsubscribeStats ==
    /\ SetSlot(Nobody)
    /\ UNCHANGED <<fed, waiting, locked, call, inside, reenters>>

(* The actor takes the next stats; StatsGate::on_stats locks the slot. *)
GateLocks ==
    /\ call = Nobody
    /\ waiting > 0
    /\ ~locked
    /\ locked' = TRUE
    /\ waiting' = waiting - 1
    /\ UNCHANGED <<fed, slot, call, inside, reenters, wanted, late>>

\* Mutant: the lock is held during the call.
GateClonesHoldsLock ==
    /\ call = Nobody
    /\ locked
    /\ locked' = (slot # Nobody)
    /\ call' = slot
    /\ UNCHANGED <<fed, waiting, slot, inside, reenters, wanted, late>>

(* StatsGate::on_stats: the subscriber is cloned, and the lock released before
   the call.  Without a subscriber the stats are dropped. *)
GateClones ==
    /\ call = Nobody
    /\ locked
    /\ locked' = FALSE
    /\ call' = slot
    /\ UNCHANGED <<fed, waiting, slot, inside, reenters, wanted, late>>

(* StatsGate::on_stats: the call.  The callback may be one that unsubscribes. *)
GateCalls ==
    /\ call # Nobody
    /\ ~inside
    /\ inside' = TRUE
    /\ reenters' \in BOOLEAN
    /\ late' = IF wanted = call THEN late ELSE [late EXCEPT ![call] = @ + 1]
    /\ UNCHANGED <<fed, waiting, slot, locked, call, wanted>>

(* External: the callback unsubscribes. *)
CallbackReenters ==
    /\ inside
    /\ reenters
    /\ SetSlot(Nobody)
    /\ reenters' = FALSE
    /\ UNCHANGED <<fed, waiting, locked, call, inside>>

(* External: the callback returns; the gate's frame ends, with what it held. *)
CallbackReturns ==
    /\ inside
    /\ ~reenters
    /\ inside' = FALSE
    /\ call' = Nobody
    /\ locked' = FALSE
    /\ UNCHANGED <<fed, waiting, slot, reenters, wanted, late>>

GateActs ==
    \/ GateLocks \/ GateClones \/ GateCalls
    \/ CallbackReenters \/ CallbackReturns

GateNext ==
    \/ OnStats
    \/ \E o \in Observers : SubscribeStats(o)
    \/ UnsubscribeStats
    \/ GateActs

\* The actor thread is scheduled, and foreign callbacks return.
GateSpec == GateInit /\ [][GateNext]_gateVars /\ WF_gateVars(GateActs)

-----------------------------------------------------------------------------

\* After unsubscribe_stats, or after another one took its place, an observer
\* gets at most the one call that was already on its way.
OneLateCall == \A o \in Observers : late[o] <= 1

\* What makes it inductive: the slot holds the observer that is wanted; whoever
\* is wanted, or is about to be called, has had no late call.
GateInv ==
    /\ late \in [Observers -> {0, 1}]
    /\ slot \in Observers \cup {Nobody} /\ call \in Observers \cup {Nobody}
    /\ slot = wanted
    /\ slot # Nobody => late[slot] = 0
    /\ call # Nobody /\ ~inside => late[call] = 0

\* A callback that unsubscribes from within does not block the actor on the
\* slot's own mutex: every call of the gate ends.
CallsReturn == call # Nobody ~> call = Nobody
=============================================================================
