----------------------------- MODULE MCConsumer -----------------------------
(***************************************************************************)
(* Small instances of NotificationConsumer.                                *)
(***************************************************************************)
EXTENDS NotificationConsumer, TLC

CONSTANTS c1, c2, k1, k2, x, y, bad

(* One channel for both, a channel each, and one that cannot be quoted.    *)
SomeAssignments == {c1 :> x @@ c2 :> x, c1 :> x @@ c2 :> y, c1 :> bad @@ c2 :> y}
=============================================================================
