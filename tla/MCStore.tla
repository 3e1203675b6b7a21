------------------------------ MODULE MCStore -------------------------------
(* Store on a small instance. *)
EXTENDS Store, TLC

CONSTANTS i1, i2, i3, l1, l2, n1, n2

\* Each link has a host of its own, so that a fallback name tells them apart.
MCHostOf == (l1 :> n1) @@ (l2 :> n2)
=============================================================================
