-------------------------- MODULE MigrationLedger --------------------------
(***************************************************************************)
(* What migration.Migrator promises, without transactions, statements or   *)
(* concurrency: a set of recorded migrations, and for each migration the   *)
(* net number of times its effect is in the schema.  A successful Up or    *)
(* Down is one atomic step: whatever it records it applies exactly once,   *)
(* whatever it unrecords it reverts exactly once, and nothing else moves.  *)
(***************************************************************************)
EXTENDS Integers

CONSTANT Names      \* migration names

VARIABLES
    rows,           \* names recorded in the migrations table
    effect          \* [Names -> Int], committed UpQuery runs minus DownQuery runs

ledgerVars == <<rows, effect>>

Recorded(S) == [n \in Names |-> IF n \in S THEN 1 ELSE 0]

Init ==
    /\ rows \in SUBSET Names
    /\ effect = Recorded(rows)

(* Apply and record the members of S that are not recorded yet. *)
Up(S) ==
    /\ rows' = rows \cup S
    /\ effect' = [n \in Names |-> IF n \in S \ rows THEN effect[n] + 1 ELSE effect[n]]

(* Revert and forget the members of S that are recorded. *)
Down(S) ==
    /\ rows' = rows \ S
    /\ effect' = [n \in Names |-> IF n \in S \cap rows THEN effect[n] - 1 ELSE effect[n]]

Next == \E S \in SUBSET Names : Up(S) \/ Down(S)

Spec == Init /\ [][Next]_ledgerVars
=============================================================================
