------------------------------ MODULE MCPolicy ------------------------------
(***************************************************************************)
(* Small instances of PolicyLifecycle.                                     *)
(***************************************************************************)
EXTENDS PolicyLifecycle, TLC

CONSTANTS p1, p2, p3, a, b, bad

Make(op, spec, lenient) == [op |-> op, spec |-> spec, lenient |-> lenient]

(* Every operation, two wishes, and a third call that gets in the way.     *)
MixedCalls ==
    p1 :> {Make("reconcile", a, FALSE), Make("ensure", a, TRUE), Make("reconcile", bad, FALSE)}
 @@ p2 :> {Make("reconcile", b, FALSE), Make("replace", a, TRUE)}
 @@ p3 :> {Make("ensure", a, FALSE), Make("add", a, FALSE), Make("remove", a, TRUE)}
=============================================================================
