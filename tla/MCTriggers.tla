----------------------------- MODULE MCTriggers -----------------------------
(***************************************************************************)
(* A small instance of TriggerCatalog: notifications whose names differ,   *)
(* clash in function and trigger, or clash in the function only.           *)
(***************************************************************************)
EXTENDS TriggerCatalog, TLC

CONSTANTS p1, p2, r1, r2, row, big

Define(table, event, operations, props) ==
    [table |-> table, eventName |-> event, operations |-> operations, rowID |-> <<"i">>, props |-> props]

Plain == Define(<<"a">>, <<"x">>, <<Insert, Delete>>, {FromState, RowID})
Dotted == Define(<<"a">>, <<"x", ".", "y">>, <<Insert>>, {ToState, CreatedAt})
(* Shares function and trigger with Dotted.                                *)
Joined == Define(<<"a">>, <<"x", "_", "y">>, <<Delete>>, {})
(* Shares its function with Dotted, on another table; "ae" is one letter.  *)
Shifted == Define(<<"a", "_", "x", "ae">>, <<"y">>, <<Insert>>, {TableName})
(* The server does not parse the repeated operation.                       *)
Repeated == Define(<<"a">>, <<"x">>, <<Update, Update>>, {})
(* BuildSQL refuses the table.                                             *)
Unnamed == Define(<<"a", ".">>, <<"x">>, <<Insert>>, {})

SomeNotifs == {Plain, Dotted, Joined, Shifted, Repeated, Unnamed}

Tables == <<"a">> :> r1 @@ <<"a", "_", "x", "ae">> :> r2 @@ <<"a", ".">> :> r1

Apply(n) == [op |-> "apply", n |-> n]
Drop(n) == [op |-> "drop", n |-> n]

(* Two instances of one service apply Dotted; the rest is their own.       *)
SomeCalls ==
    p1 :> {Apply(Plain), Drop(Plain), Apply(Dotted), Drop(Dotted), Apply(Repeated)} @@
    p2 :> {Apply(Dotted), Apply(Joined), Apply(Shifted), Drop(Shifted), Apply(Unnamed)}

SomeChanges ==
    {[table |-> r1, op |-> Insert, old |-> NoRow, new |-> big],
     [table |-> r1, op |-> Delete, old |-> row, new |-> NoRow],
     [table |-> r2, op |-> Insert, old |-> NoRow, new |-> row]}
=============================================================================
