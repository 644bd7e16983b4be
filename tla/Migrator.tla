------------------------------ MODULE Migrator ------------------------------
(***************************************************************************)
(* migration.Migrator (src/migration/migrator.go): any number of processes *)
(* call Up and Down on one database.  Each call is one PostgreSQL          *)
(* transaction; one action below is one statement of it, with the error    *)
(* path that follows the statement in the code.                            *)
(*                                                                         *)
(* PostgreSQL is external and modelled from how the calls use it: READ     *)
(* COMMITTED (a statement sees what is committed when it starts, and its   *)
(* own transaction's writes), table locks kept to the end of the           *)
(* transaction, row and unique-index waits, and a deadlock detector that   *)
(* makes one transaction of a cycle fail.                                  *)
(***************************************************************************)
EXTENDS Integers, Sequences, FiniteSets

CONSTANTS
    Procs,          \* callers of Up and Down, each with a connection of its own
    Names,          \* Migration.Name values
    Calls,          \* [Procs -> set of calls the process may make]
    MaxCalls,       \* bound: calls one process makes, retries included
    ExclusiveDown   \* TRUE: the deployment runs Down only while no other
                    \* session of the migrator is open

CallType == [op : {"up", "down"}, set : Seq(Names)]

ASSUME CallsAssumption == Calls \in [Procs -> SUBSET CallType]
ASSUME MaxCallsAssumption == MaxCalls \in Nat
ASSUME ExclusiveDownAssumption == ExclusiveDown \in BOOLEAN

VARIABLES
    table,          \* is the migrations table committed?
    rows,           \* committed rows of the table
    effect,         \* committed UpQuery runs minus DownQuery runs of each name
    pc,             \* the statement a process is about to send, "idle" outside a call
    call,           \* the call a process makes or made last
    at,             \* loop elements already handled
    tx,             \* what the open transaction of a process did
    result,         \* what the last call returned: "none" until it returns
    made            \* calls started by each process

dbVars == <<table, rows, effect>>
vars == <<table, rows, effect, pc, call, at, tx, result, made>>

Labels == {"idle", "create", "createWait", "check", "run", "record",
           "empty", "drop", "commit", "inDoubt"}

TxType == [created : BOOLEAN, dropped : BOOLEAN, locked : BOOLEAN,
           ins : SUBSET Names, del : SUBSET Names, ran : [Names -> Nat]]

NoTx == [created |-> FALSE, dropped |-> FALSE, locked |-> FALSE,
         ins |-> {}, del |-> {}, ran |-> [n \in Names |-> 0]]

TypeOK ==
    /\ table \in BOOLEAN
    /\ rows \in SUBSET Names
    /\ effect \in [Names -> Int]
    /\ pc \in [Procs -> Labels]
    /\ call \in [Procs -> CallType]
    /\ at \in [Procs -> Nat]
    /\ tx \in [Procs -> TxType]
    /\ result \in [Procs -> {"none", "ok", "err"}]
    /\ made \in [Procs -> Nat]
    /\ \A p \in Procs : at[p] <= Len(call[p].set)

-----------------------------------------------------------------------------
(* What a process sees and waits for.                                      *)

NamesOf(c) == {c.set[i] : i \in DOMAIN c.set}

IsUp(p) == call[p].op = "up"

(* Up walks the set forwards, Down backwards.                              *)
Current(p) ==
    LET s == call[p].set
    IN  IF IsUp(p) THEN s[at[p] + 1] ELSE s[Len(s) - at[p]]

(* Mutant: the loop stops one element early.                               *)
LoopLabelShort(p, k) ==
    IF k + 1 < Len(call[p].set) THEN "check"
    ELSE IF IsUp(p) THEN "commit" ELSE "empty"

(* The statement after the k-th element of the set has been handled.       *)
LoopLabel(p, k) ==
    IF k < Len(call[p].set) THEN "check"
    ELSE IF IsUp(p) THEN "commit" ELSE "empty"

TableVisible(p) == table \/ tx[p].created

RowsVisible(p) == (rows \ tx[p].del) \cup tx[p].ins

(* The sessions whose uncommitted work the statement of p must wait for.   *)
WaitsFor(p) ==
    {q \in Procs \ {p} :
        \/ pc[p] = "createWait" /\ tx[q].created
        \/ pc[p] \in {"check", "empty"} /\ tx[q].dropped /\ ~ tx[q].created
        \/ pc[p] = "record" /\ Current(p) \in tx[q].ins \cup tx[q].del
        \/ pc[p] = "drop" /\ tx[q].locked}

(* p is on a cycle of waits: every member waits for a member and is        *)
(* waited for by one.                                                      *)
Deadlocked(p) ==
    \E S \in SUBSET Procs :
        /\ p \in S
        /\ \A q \in S : WaitsFor(q) \cap S # {}
        /\ \A q \in S : \E r \in S : q \in WaitsFor(r)

-----------------------------------------------------------------------------
(* Ends of a call.  The session is gone with everything it did.            *)

Return(p, r) ==
    /\ pc' = [pc EXCEPT ![p] = "idle"]
    /\ tx' = [tx EXCEPT ![p] = NoTx]
    /\ result' = [result EXCEPT ![p] = r]
    /\ UNCHANGED <<call, at, made>>

(* Mutant: an error branch that forgets the rollback.                      *)
RollbackForgotten(p) ==
    /\ pc' = [pc EXCEPT ![p] = "idle"]
    /\ result' = [result EXCEPT ![p] = "err"]
    /\ UNCHANGED <<tx, call, at, made, table, rows, effect>>

(* The branch "_ = bundle.Rollback(ctx); return err".                      *)
Rollback(p) == Return(p, "err") /\ UNCHANGED dbVars

(* The server makes the transaction of p durable.                          *)
Publish(p) ==
    LET t == tx[p] IN
    /\ table' = (~ t.dropped /\ (table \/ t.created))
    /\ rows' = IF t.dropped THEN {} ELSE (rows \ t.del) \cup t.ins
    /\ effect' = [n \in Names |-> IF IsUp(p) THEN effect[n] + t.ran[n]
                                             ELSE effect[n] - t.ran[n]]

(* A statement succeeded: p goes on at label l.                            *)
Goto(p, l) ==
    /\ pc' = [pc EXCEPT ![p] = l]
    /\ UNCHANGED <<table, rows, effect, call, result, made>>

Init ==
    /\ rows \in SUBSET Names
    /\ table \in IF rows = {} THEN BOOLEAN ELSE {TRUE}
    /\ effect = [n \in Names |-> IF n \in rows THEN 1 ELSE 0]
    /\ pc = [p \in Procs |-> "idle"]
    /\ call = [p \in Procs |-> [op |-> "up", set |-> <<>>]]
    /\ at = [p \in Procs |-> 0]
    /\ tx = [p \in Procs |-> NoTx]
    /\ result = [p \in Procs |-> "none"]
    /\ made = [p \in Procs |-> 0]

-----------------------------------------------------------------------------
(* The statements of Up and Down.                                          *)

Admitted(c) ==
    ExclusiveDown => \A q \in Procs : pc[q] # "idle" =>
                                        c.op = "up" /\ IsUp(q)

(* NewTransaction.                                                         *)
Start(p) ==
    /\ pc[p] = "idle"
    /\ made[p] < MaxCalls
    /\ \E c \in Calls[p] : Admitted(c) /\ call' = [call EXCEPT ![p] = c]
    /\ pc' = [pc EXCEPT ![p] = "create"]
    /\ at' = [at EXCEPT ![p] = 0]
    /\ result' = [result EXCEPT ![p] = "none"]
    /\ made' = [made EXCEPT ![p] = @ + 1]
    /\ UNCHANGED <<table, rows, effect, tx>>

(* CREATE TABLE IF NOT EXISTS: a committed table is left alone and not     *)
(* even locked; a table another session is creating makes it wait.         *)
Create(p) ==
    /\ pc[p] = "create"
    /\ UNCHANGED at
    /\ \/ /\ table
          /\ Goto(p, LoopLabel(p, 0))
          /\ UNCHANGED tx
       \/ /\ ~ table
          /\ \A q \in Procs : ~ tx[q].created
          /\ tx' = [tx EXCEPT ![p].created = TRUE]
          /\ Goto(p, LoopLabel(p, 0))
       \/ /\ ~ table
          /\ \E q \in Procs : tx[q].created
          /\ Goto(p, "createWait")
          /\ UNCHANGED tx

(* The other creator ended: if it committed the table, the catalog's       *)
(* unique index makes this CREATE fail in spite of IF NOT EXISTS.          *)
CreateResumes(p) ==
    /\ pc[p] = "createWait"
    /\ WaitsFor(p) = {}
    /\ \/ table /\ Rollback(p)
       \/ /\ ~ table
          /\ tx' = [tx EXCEPT ![p].created = TRUE]
          /\ Goto(p, LoopLabel(p, 0))
          /\ UNCHANGED at

(* Mutant: the loop of Down counts down once more when it skips a name.    *)
CheckSkipsTwo(p) ==
    LET pending == IF IsUp(p) THEN Current(p) \notin RowsVisible(p)
                              ELSE Current(p) \in RowsVisible(p)
        passed == IF IsUp(p) THEN 1 ELSE 2 IN
    /\ pc[p] = "check"
    /\ WaitsFor(p) = {}
    /\ \/ ~ TableVisible(p) /\ Rollback(p)
       \/ /\ TableVisible(p)
          /\ tx' = [tx EXCEPT ![p].locked = TRUE]
          /\ \/ /\ pending
                /\ Goto(p, "run")
                /\ UNCHANGED at
             \/ /\ ~ pending
                /\ Goto(p, LoopLabel(p, at[p] + passed))
                /\ at' = [at EXCEPT ![p] = @ + passed]

(* SELECT EXISTS(... WHERE name = $1).                                     *)
Check(p) ==
    LET pending == IF IsUp(p) THEN Current(p) \notin RowsVisible(p)
                              ELSE Current(p) \in RowsVisible(p) IN
    /\ pc[p] = "check"
    /\ WaitsFor(p) = {}
    /\ \/ ~ TableVisible(p) /\ Rollback(p)
       \/ /\ TableVisible(p)
          /\ tx' = [tx EXCEPT ![p].locked = TRUE]
          /\ \/ /\ pending
                /\ Goto(p, "run")
                /\ UNCHANGED at
             \/ /\ ~ pending
                /\ Goto(p, LoopLabel(p, at[p] + 1))
                /\ at' = [at EXCEPT ![p] = @ + 1]

(* Mutant: the query runs on the pool instead of on the transaction.       *)
RunQueryOutside(p) ==
    /\ pc[p] = "run"
    /\ effect' = [effect EXCEPT ![Current(p)] = IF IsUp(p) THEN @ + 1 ELSE @ - 1]
    /\ pc' = [pc EXCEPT ![p] = "record"]
    /\ UNCHANGED <<table, rows, call, at, tx, result, made>>

(* The migration's own UpQuery or DownQuery.                               *)
RunQuery(p) ==
    /\ pc[p] = "run"
    /\ tx' = [tx EXCEPT ![p].ran[Current(p)] = @ + 1]
    /\ Goto(p, "record")
    /\ UNCHANGED at

(* Mutant: the name column is not a primary key.                           *)
InsertWithoutKey(p) ==
    /\ pc[p] = "record"
    /\ IsUp(p)
    /\ tx' = [tx EXCEPT ![p].ins = @ \cup {Current(p)}]
    /\ Goto(p, LoopLabel(p, at[p] + 1))
    /\ at' = [at EXCEPT ![p] = @ + 1]

(* INSERT INTO migrations: the primary key refuses a recorded name.        *)
Insert(p) ==
    /\ pc[p] = "record"
    /\ IsUp(p)
    /\ WaitsFor(p) = {}
    /\ \/ Current(p) \in RowsVisible(p) /\ Rollback(p)
       \/ /\ Current(p) \notin RowsVisible(p)
          /\ tx' = [tx EXCEPT ![p].ins = @ \cup {Current(p)}]
          /\ Goto(p, LoopLabel(p, at[p] + 1))
          /\ at' = [at EXCEPT ![p] = @ + 1]

(* DELETE FROM migrations: deletes the row if it is still there; how many  *)
(* rows it deleted is not looked at.                                       *)
Delete(p) ==
    /\ pc[p] = "record"
    /\ ~ IsUp(p)
    /\ WaitsFor(p) = {}
    /\ tx' = [tx EXCEPT ![p].del = @ \cup ({Current(p)} \cap rows)]
    /\ Goto(p, LoopLabel(p, at[p] + 1))
    /\ at' = [at EXCEPT ![p] = @ + 1]

(* Mutant: Down drops the table without looking whether it is empty.       *)
CheckEmptySkipped(p) ==
    /\ pc[p] = "empty"
    /\ WaitsFor(p) = {}
    /\ TableVisible(p)
    /\ tx' = [tx EXCEPT ![p].locked = TRUE]
    /\ Goto(p, "drop")
    /\ UNCHANGED at

(* SELECT NOT EXISTS(SELECT 1 FROM migrations), the end of Down.           *)
CheckEmpty(p) ==
    /\ pc[p] = "empty"
    /\ WaitsFor(p) = {}
    /\ \/ ~ TableVisible(p) /\ Rollback(p)
       \/ /\ TableVisible(p)
          /\ tx' = [tx EXCEPT ![p].locked = TRUE]
          /\ Goto(p, IF RowsVisible(p) = {} THEN "drop" ELSE "commit")
          /\ UNCHANGED at

(* DROP TABLE migrations waits for every session that touched the table,   *)
(* and then drops whatever the table holds.                                *)
Drop(p) ==
    /\ pc[p] = "drop"
    /\ WaitsFor(p) = {}
    /\ tx' = [tx EXCEPT ![p].dropped = TRUE]
    /\ Goto(p, "commit")
    /\ UNCHANGED at

Commit(p) ==
    /\ pc[p] = "commit"
    /\ Publish(p)
    /\ Return(p, "ok")

(* COMMIT fails at the server, or its acknowledgement is lost: the caller  *)
(* has its error, the server settles the transaction later.                *)
CommitFails(p) ==
    /\ pc[p] = "commit"
    /\ \/ Rollback(p)
       \/ /\ pc' = [pc EXCEPT ![p] = "inDoubt"]
          /\ result' = [result EXCEPT ![p] = "err"]
          /\ UNCHANGED <<table, rows, effect, call, at, tx, made>>

Settle(p) ==
    /\ pc[p] = "inDoubt"
    /\ Publish(p) \/ UNCHANGED dbVars
    /\ Return(p, "err")

(* Any statement may fail for a reason of its own: bad SQL, a cancelled    *)
(* context, a broken connection.                                           *)
Fail(p) ==
    /\ pc[p] \notin {"idle", "commit", "inDoubt"}
    /\ Rollback(p)

(* The deadlock detector picks p.                                          *)
DeadlockVictim(p) ==
    /\ Deadlocked(p)
    /\ Rollback(p)

(* The process dies before it sends COMMIT; the server drops the session.  *)
Crash(p) ==
    /\ pc[p] \notin {"idle", "inDoubt"}
    /\ Return(p, "none")
    /\ UNCHANGED dbVars

(* The statements and their answers, as the calling goroutine makes them.  *)
Step(p) ==
    \/ Create(p) \/ CreateResumes(p)
    \/ Check(p) \/ RunQuery(p) \/ Insert(p) \/ Delete(p)
    \/ CheckEmpty(p) \/ Drop(p)
    \/ Commit(p) \/ CommitFails(p) \/ Settle(p)

Next ==
    \E p \in Procs :
        Start(p) \/ Step(p) \/ Fail(p) \/ DeadlockVictim(p) \/ Crash(p)

Spec == Init /\ [][Next]_vars

(* A call goes on: the goroutine sends its next statement, the server      *)
(* answers one that waits for nobody, settles a COMMIT, and breaks cycles. *)
Fairness ==
    \A p \in Procs : WF_vars(Step(p)) /\ WF_vars(DeadlockVictim(p))

FairSpec == Spec /\ Fairness
-----------------------------------------------------------------------------
(* Properties.                                                             *)

(* The ledger and the schema agree: a migration is recorded in the         *)
(* migrations table exactly if its UpQuery has taken effect once more than *)
(* its DownQuery.  The check-then-act of the loops (migrator.go:57-84 and  *)
(* 116-143), the emptiness check before DROP TABLE and retries after a     *)
(* lost acknowledgement could each break it.                               *)
LedgerExact == \A n \in Names : effect[n] = IF n \in rows THEN 1 ELSE 0

(* A call that returns nil is right about the committed database at that   *)
(* moment: after Up every name of its set is recorded, after Down none is, *)
(* although each was looked at in an earlier statement.                    *)
ReportsHold ==
    [][\A p \in Procs :
          result[p] # "ok" /\ result'[p] = "ok" =>
              IF IsUp(p) THEN NamesOf(call[p]) \subseteq rows'
                         ELSE NamesOf(call[p]) \cap rows' = {}]_vars

(* A call is atomic: whatever interleaves, fails or crashes, the committed *)
(* tables change as if each call that commits ran alone in one step.       *)
Ledger == INSTANCE MigrationLedger WITH Names <- Names, rows <- rows, effect <- effect
LedgerRefined == Ledger!Spec

(* No call hangs: locks held to the end of a transaction, a rollback on    *)
(* every error path and the deadlock detector let every call return.       *)
Terminates == \A p \in Procs : pc[p] # "idle" ~> pc[p] = "idle"

(* A recorded migration is in effect: Up never skips one that is not, even *)
(* if Down overlaps Up, as long as no other Down reverts the same names.   *)
RecordedIsApplied == \A n \in rows : effect[n] >= 1

-----------------------------------------------------------------------------
(* Why LedgerExact holds when Down is exclusive: the parts of the          *)
(* inductive invariant.                                                    *)

(* Where a session is determines which fields of its transaction can be    *)
(* non-trivial.                                                            *)
SessionShape(p) ==
    /\ pc[p] = "idle" => tx[p] = NoTx
    /\ pc[p] \in {"create", "createWait"} => at[p] = 0 /\ tx[p] = NoTx
    /\ pc[p] \in {"check", "run", "record"} => at[p] < Len(call[p].set)
    /\ pc[p] \in {"empty", "drop", "commit", "inDoubt"} => at[p] = Len(call[p].set)
    /\ pc[p] \in {"empty", "drop"} => ~ IsUp(p)
    /\ tx[p].dropped => pc[p] \in {"commit", "inDoubt"}
    /\ IF IsUp(p) THEN tx[p].del = {} /\ ~ tx[p].dropped
                  ELSE tx[p].ins = {}

(* Uncommitted rows are new, and no two sessions insert the same one; only *)
(* committed rows are deleted; a dropped table holds nothing else.         *)
RowsDisjoint(p) ==
    /\ tx[p].ins \cap rows = {}
    /\ tx[p].del \subseteq rows
    /\ \A q \in Procs \ {p} : tx[p].ins \cap tx[q].ins = {}
    /\ pc[p] = "drop" \/ tx[p].dropped => rows \subseteq tx[p].del

(* A query has run once for every row written, and for the row about to be *)
(* written, which is not written yet.                                      *)
RanOnce(p) ==
    LET written == tx[p].ins \cup tx[p].del
        pending == IF pc[p] = "record" THEN {Current(p)} ELSE {}
    IN  /\ \A n \in Names :
              tx[p].ran[n] = IF n \in written \cup pending THEN 1 ELSE 0
        /\ pc[p] \in {"run", "record"} =>
              /\ Current(p) \notin written
              /\ ~ IsUp(p) => Current(p) \in rows

(* What the loop has passed is as the loop found or left it.               *)
LoopDone(p) ==
    pc[p] # "idle" =>
        \A i \in 1 .. at[p] :
            IF IsUp(p)
            THEN call[p].set[i] \in rows \cup tx[p].ins
            ELSE call[p].set[Len(call[p].set) + 1 - i] \notin rows \ tx[p].del

(* Only Ups overlap.                                                       *)
DownAlone ==
    \A p, q \in Procs :
        p # q /\ pc[p] # "idle" /\ pc[q] # "idle" => IsUp(p) /\ IsUp(q)

LedgerInv ==
    /\ \A p \in Procs :
          SessionShape(p) /\ RowsDisjoint(p) /\ RanOnce(p) /\ LoopDone(p)
    /\ DownAlone
    /\ LedgerExact
=============================================================================
