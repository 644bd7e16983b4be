----------------------------- MODULE MCMigrator -----------------------------
(* Instances of Migrator for TLC. *)
EXTENDS Migrator

CONSTANTS p1, p2, m1, m2, m3

UpCall(s) == [op |-> "up", set |-> s]
DownCall(s) == [op |-> "down", set |-> s]

(* Two processes migrate up and down in full, in part, and p2 with its     *)
(* set in another order, so that uncommitted rows are waited for in a      *)
(* cycle; Join allows a name to occur twice.                               *)
FullCalls ==
    [p \in {p1, p2} |->
        IF p = p1
        THEN {UpCall(<<m1, m2>>), DownCall(<<m1, m2>>), DownCall(<<m2>>)}
        ELSE {UpCall(<<m2, m1>>), UpCall(<<m1, m1>>), UpCall(<<>>), DownCall(<<m1, m2>>)}]

(* Each process reverts migrations of its own while the other applies and  *)
(* reverts; the empty Down of p2 reverts nothing but drops an empty table  *)
(* like any other Down.                                                    *)
OverlapCalls ==
    [p \in {p1, p2} |->
        IF p = p1
        THEN {DownCall(<<m1, m2>>), DownCall(<<m2>>), UpCall(<<m2, m3>>)}
        ELSE {UpCall(<<m1, m2, m3>>), UpCall(<<m3, m2>>), DownCall(<<m3>>), DownCall(<<>>)}]
=============================================================================
