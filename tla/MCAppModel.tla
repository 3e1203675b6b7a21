----------------------------- MODULE MCAppModel -----------------------------
(* One profile, with two names to give it, and two commands waiting: one of
   them may be handled in a state it was not sent in. *)
EXTENDS AppModel, TLC

CONSTANTS i1, l1, n1, n2

MCHostOf == l1 :> n1
=============================================================================
