--------------------------- MODULE PolicyLifecycle ---------------------------
(***************************************************************************)
(* The policies of one TimescaleDB relation (src/timescaledb/refresh.go,   *)
(* retention.go, columnstore_policy.go): concurrent calls of Ensure,       *)
(* Reconcile, Replace, Add and Remove over one DataSource, whose pool has  *)
(* finitely many connections.  One action is one round trip, with the      *)
(* acquisition and release of connections around it.                       *)
(*                                                                         *)
(* The server is external: the relation has at most one job of the kind,   *)
(* a statement acts on the committed job, and one that changes it waits    *)
(* for a transaction that has changed it.  The three kinds of policy       *)
(* differ in two ways that matter here, told apart by "kind".              *)
(***************************************************************************)
EXTENDS Integers, FiniteSets

CONSTANTS
    Procs,      \* calls, each made by a goroutine of its own
    Conns,      \* connections of the pool (WithMaxConns)
    Specs,      \* policy configurations, up to *PoliciesEqual
    Invalid,    \* a configuration Validate refuses
    Calls,      \* [Procs -> set of calls the goroutine may make]
    Kinds,      \* policy kinds to consider
    Deadline,   \* TRUE: the contexts end waits for a connection
    NoJob, NoProc

Ops == {"ensure", "reconcile", "replace", "add", "remove"}

(* "lenient" is IfNotExists of the desired policy, and ifExists of Remove. *)
CallType == [op : Ops, spec : Specs \cup {Invalid}, lenient : BOOLEAN]

ASSUME CallsAssumption == Calls \in [Procs -> SUBSET CallType]
ASSUME KindsAssumption == Kinds \subseteq {"refresh", "retention", "columnstore"}
ASSUME DeadlineAssumption == Deadline \in BOOLEAN
ASSUME NothingsAssumption == NoProc \notin Procs /\ NoJob \notin [id : Nat, spec : Specs]

VARIABLES
    kind,       \* the kind of policy the calls are about
    job,        \* the committed job, [id, spec], or NoJob
    lastId,     \* the last job id given out
    lock,       \* the transaction that changed the relation's job, or NoProc
    pending,    \* the job that transaction will commit
    pc, call,
    held,       \* connections a call holds
    seen,       \* the job its inspection found
    result,     \* what it returned: a PolicyAction, "drift", "done" or "err"
    did         \* history: what it did to the committed job

vars == <<kind, job, lastId, lock, pending, pc, call, held, seen, result, did>>

Labels == {"ready", "capability", "inspect", "getJob", "getStats", "add", "adding",
           "remove", "removing", "recheck", "begin", "txRemove", "txAdd", "commit", "done"}

JobType == [id : Nat, spec : Specs] \cup {NoJob}

TypeOK ==
    /\ kind \in Kinds
    /\ job \in JobType
    /\ lastId \in Nat
    /\ lock \in Procs \cup {NoProc}
    /\ pending \in JobType
    /\ pc \in [Procs -> Labels]
    /\ call \in [Procs -> CallType]
    /\ held \in [Procs -> SUBSET Conns]
    /\ seen \in [Procs -> JobType]
    /\ result \in [Procs -> {"none", "created", "unchanged", "replaced", "drift", "done", "err"}]
    /\ did \in [Procs -> {"nothing", "created", "replaced", "removed"}]

-----------------------------------------------------------------------------
(* The pool.  db.Query and db.Exec give their connection back on return;   *)
(* open rows and transactions keep it.                                     *)

Free == Conns \ UNION {held[p] : p \in Procs}

Acquire(p) ==
    /\ Free # {}
    /\ held' = [held EXCEPT ![p] = @ \cup {CHOOSE c \in Free : TRUE}]

Goto(p, l) == pc' = [pc EXCEPT ![p] = l]

(* Mutant: the deferred Rollback is missing on the error paths.            *)
ReturnWithoutRollback(p, r) ==
    /\ Goto(p, "done")
    /\ result' = [result EXCEPT ![p] = r]
    /\ held' = [held EXCEPT ![p] = IF lock = p /\ r = "err" THEN @ ELSE {}]
    /\ lock' = IF lock = p /\ r # "err" THEN NoProc ELSE lock

(* The call returns; deferred closeRows and Rollback release everything.   *)
Return(p, r) ==
    /\ Goto(p, "done")
    /\ result' = [result EXCEPT ![p] = r]
    /\ held' = [held EXCEPT ![p] = {}]
    /\ lock' = IF lock = p THEN NoProc ELSE lock

(* What the statement committed by p left, and what p did to it.           *)
Commits(p, j, what) ==
    /\ job' = j
    /\ did' = [did EXCEPT ![p] = what]

CommitsNothing == UNCHANGED <<job, did>>

NewJob(p) == [id |-> lastId + 1, spec |-> call[p].spec]

-----------------------------------------------------------------------------

(* Mutant: Ensure takes any policy it finds for the one it wants.          *)
DecideWithoutDrift(p) ==
    IF seen'[p] = NoJob THEN "create"
    ELSE IF seen'[p].spec = call[p].spec \/ call[p].op = "ensure" THEN "noop"
    ELSE "replace"

(* DecideRefreshPolicy and its two siblings.                               *)
Decide(p) ==
    IF seen'[p] = NoJob THEN "create"
    ELSE IF seen'[p].spec = call[p].spec THEN "noop"
    ELSE IF call[p].op = "reconcile" THEN "replace" ELSE "conflict"

(* The switch on the decision.  Replacing a columnstore policy looks at    *)
(* the capabilities of the server once more.                               *)
Act(p) ==
    \/ /\ Decide(p) = "create" /\ Goto(p, "add")
       /\ held' = [held EXCEPT ![p] = {}] /\ UNCHANGED <<lock, result>>
    \/ /\ Decide(p) = "replace"
       /\ Goto(p, IF kind = "columnstore" THEN "recheck" ELSE "begin")
       /\ held' = [held EXCEPT ![p] = {}] /\ UNCHANGED <<lock, result>>
    \/ Decide(p) = "noop" /\ Return(p, "unchanged")
    \/ Decide(p) = "conflict" /\ Return(p, "drift")

(* The first database access of a call.                                    *)
Entry(op) ==
    CASE op \in {"ensure", "reconcile"} -> "inspect"
      [] op = "replace" -> "begin"
      [] op = "add" -> "add"
      [] op = "remove" -> "remove"

Init ==
    /\ kind \in Kinds
    /\ job \in [id : {1}, spec : Specs] \cup {NoJob}
    /\ lastId = 1
    /\ lock = NoProc
    /\ pending = NoJob
    /\ pc = [p \in Procs |-> "ready"]
    /\ call \in [Procs -> UNION {Calls[p] : p \in Procs}]
    /\ \A p \in Procs : call[p] \in Calls[p]
    /\ held = [p \in Procs |-> {}]
    /\ seen = [p \in Procs |-> NoJob]
    /\ result = [p \in Procs |-> "none"]
    /\ did = [p \in Procs |-> "nothing"]

(* Mutant: the desired policy is not validated.                            *)
StartUnchecked(p) ==
    /\ pc[p] = "ready"
    /\ Goto(p, IF kind = "columnstore" THEN "capability" ELSE Entry(call[p].op))
    /\ UNCHANGED <<kind, job, lastId, lock, pending, call, held, seen, result, did>>

(* Validation comes before any access to the database.                     *)
Start(p) ==
    /\ pc[p] = "ready"
    /\ \/ /\ call[p].spec = Invalid /\ call[p].op # "remove"
          /\ Return(p, "err")
       \/ /\ call[p].spec # Invalid \/ call[p].op = "remove"
          /\ Goto(p, IF kind = "columnstore" THEN "capability" ELSE Entry(call[p].op))
          /\ UNCHANGED <<held, lock, result>>
    /\ UNCHANGED <<kind, job, lastId, pending, call, seen, did>>

(* requireCapability: two queries, one connection at a time.               *)
RequireCapability(p) ==
    /\ pc[p] \in {"capability", "recheck"}
    /\ Free # {}
    /\ Goto(p, IF pc[p] = "recheck" THEN "begin" ELSE Entry(call[p].op))
    /\ UNCHANGED <<kind, job, lastId, lock, pending, call, held, seen, result, did>>

(* The first query of Inspect.  With a row its connection stays busy until *)
(* Inspect returns (defer closeRows); without one the rows are at an end.  *)
InspectRow(p) ==
    /\ pc[p] = "inspect"
    /\ Acquire(p)
    /\ job # NoJob
    /\ seen' = [seen EXCEPT ![p] = job]
    /\ Goto(p, "getJob")
    /\ UNCHANGED <<kind, job, lastId, lock, pending, call, result, did>>

InspectNoRow(p) ==
    /\ pc[p] = "inspect"
    /\ Free # {}
    /\ job = NoJob
    /\ seen' = [seen EXCEPT ![p] = NoJob]
    /\ Act(p)
    /\ UNCHANGED <<kind, job, lastId, pending, call, did>>

(* GetJob, on a second connection: the job may be gone by now.             *)
GetJob(p) ==
    /\ pc[p] = "getJob"
    /\ Free # {}
    /\ \/ job = seen[p] /\ Goto(p, "getStats") /\ UNCHANGED <<held, lock, result>>
       \/ job # seen[p] /\ Return(p, "err")
    /\ UNCHANGED <<kind, job, lastId, pending, call, seen, did>>

(* GetJobStats, then the return of Inspect and the decision.               *)
GetJobStats(p) ==
    /\ pc[p] = "getStats"
    /\ Free # {}
    /\ UNCHANGED seen
    /\ Act(p)
    /\ UNCHANGED <<kind, job, lastId, pending, call, did>>

(* A call that changes the job takes a connection first.                   *)
TakeConn(p) ==
    /\ \/ pc[p] = "add" /\ Goto(p, "adding")
       \/ pc[p] = "remove" /\ Goto(p, "removing")
       \/ pc[p] = "begin" /\ Goto(p, "txRemove")
    /\ Acquire(p)
    /\ UNCHANGED <<kind, job, lastId, lock, pending, call, seen, result, did>>

(* What Ensure, Reconcile and Add return when the add has been done.       *)
Added(p) == Return(p, IF call[p].op = "add" THEN "done" ELSE "created")

(* Mutant: if_not_exists is always passed.                                 *)
AddAlwaysLenient(p) ==
    /\ pc[p] = "adding"
    /\ Added(p)
    /\ \/ job # NoJob /\ CommitsNothing /\ UNCHANGED lastId
       \/ job = NoJob /\ lock = NoProc /\ Commits(p, NewJob(p), "created") /\ lastId' = lastId + 1
    /\ UNCHANGED <<kind, pending, call, seen>>

(* add_*_policy on its own.  The job id is not looked at, so with          *)
(* IfNotExists a job that is already there looks like a new one.  Refresh  *)
(* and retention policies read the job id with Query and close the rows    *)
(* without looking at Err: the statement may fail after its row.           *)
Add(p) ==
    /\ pc[p] = "adding"
    /\ \/ /\ job # NoJob
          /\ IF call[p].lenient THEN Added(p) ELSE Return(p, "err")
          /\ CommitsNothing /\ UNCHANGED lastId
       \/ /\ job = NoJob /\ lock = NoProc
          /\ Added(p) \/ Return(p, "err")
          /\ Commits(p, NewJob(p), "created") /\ lastId' = lastId + 1
       \/ /\ job = NoJob /\ lock = NoProc /\ kind # "columnstore"
          /\ Added(p)
          /\ CommitsNothing /\ UNCHANGED lastId
    /\ UNCHANGED <<kind, pending, call, seen>>

(* remove_*_policy on its own.                                             *)
Remove(p) ==
    /\ pc[p] = "removing"
    /\ \/ /\ job = NoJob
          /\ Return(p, IF call[p].lenient THEN "done" ELSE "err")
          /\ CommitsNothing
       \/ /\ job # NoJob /\ lock = NoProc
          /\ Return(p, "done") \/ Return(p, "err")
          /\ Commits(p, NoJob, "removed")
    /\ UNCHANGED <<kind, lastId, pending, call, seen>>

(* Mutant: Replace removes on the pool and not in its transaction.         *)
TxRemoveOutside(p) ==
    /\ pc[p] = "txRemove"
    /\ job # NoJob => lock = NoProc
    /\ job' = NoJob
    /\ Goto(p, "txAdd")
    /\ UNCHANGED <<kind, lastId, lock, pending, call, held, seen, result, did>>

(* Replace: the removal, if_exists, inside the transaction.                *)
TxRemove(p) ==
    /\ pc[p] = "txRemove"
    /\ \/ job # NoJob /\ lock = NoProc /\ lock' = p /\ pending' = NoJob
       \/ job = NoJob /\ UNCHANGED <<lock, pending>>
    /\ Goto(p, "txAdd")
    /\ UNCHANGED <<kind, job, lastId, call, held, seen, result, did>>

(* Replace: the re-creation inside the transaction.  When there was no job *)
(* to remove another call may have created one since.                      *)
TxAdd(p) ==
    /\ pc[p] = "txAdd"
    /\ \/ /\ lock = p \/ (job = NoJob /\ lock = NoProc)
          /\ lock' = p
          /\ pending' = NewJob(p) /\ lastId' = lastId + 1
          /\ Goto(p, "commit") /\ UNCHANGED <<held, result>>
       \/ /\ lock # p /\ job # NoJob
          /\ \/ call[p].lenient /\ Goto(p, "commit") /\ UNCHANGED <<held, lock, result>>
             \/ ~call[p].lenient /\ Return(p, "err")
          /\ UNCHANGED <<lastId, pending>>
    /\ UNCHANGED <<kind, job, call, seen, did>>

(* Commit; its acknowledgement may be lost.                                *)
TxCommit(p) ==
    /\ pc[p] = "commit"
    /\ Return(p, "replaced") \/ Return(p, "err")
    /\ IF lock = p THEN Commits(p, pending, "replaced") ELSE CommitsNothing
    /\ UNCHANGED <<kind, lastId, pending, call, seen>>

(* A query, statement or commit fails; a wait for a connection fails only  *)
(* with the context.                                                       *)
NeedsConn(p) ==
    pc[p] \in {"capability", "recheck", "inspect", "getJob", "getStats", "add", "remove", "begin"}

Fail(p) ==
    /\ pc[p] \notin {"ready", "done"}
    /\ NeedsConn(p) /\ Free = {} => Deadline
    /\ Return(p, "err")
    /\ UNCHANGED <<kind, job, lastId, pending, call, seen, did>>

Step(p) ==
    \/ Start(p) \/ RequireCapability(p)
    \/ InspectRow(p) \/ InspectNoRow(p) \/ GetJob(p) \/ GetJobStats(p)
    \/ TakeConn(p) \/ Add(p) \/ Remove(p)
    \/ TxRemove(p) \/ TxAdd(p) \/ TxCommit(p)

Next == \E p \in Procs : Step(p) \/ Fail(p)

Spec == Init /\ [][Next]_vars

(* Every goroutine keeps running.  The pool serves waiters in turn, and    *)
(* the server grants a lock in turn: whatever is possible again and again  *)
(* happens.                                                                *)
FairSpec == Spec /\ \A p \in Procs : SF_vars(Step(p))
-----------------------------------------------------------------------------
(* The committed policy is only ever created, removed by Remove, or        *)
(* exchanged in one step by Reconcile or Replace: no reader finds the      *)
(* relation without a policy while one is being replaced, and Ensure and   *)
(* Add never touch a policy that exists, whatever they found before        *)
(* (withTransaction, PolicyDecisionConflict).                              *)
Creates(p) == job = NoJob /\ job' # NoJob /\ call[p].op # "remove" /\ job'.spec = call[p].spec
Removes(p) == job' = NoJob /\ call[p].op = "remove"
Exchanges(p) ==
    /\ NoJob \notin {job, job'}
    /\ call[p].op \in {"reconcile", "replace"} /\ job'.spec = call[p].spec

PolicyChangesOwned ==
    [][job' # job => \E p \in Procs : Creates(p) \/ Removes(p) \/ Exchanges(p)]_vars

(* What a strict call (IfNotExists unset) returns without an error is what *)
(* it did, as long as its statements are Exec'ed, as those of the          *)
(* columnstore policies are.                                               *)
Claim(r) == CASE r = "created" -> "created" [] r = "replaced" -> "replaced"
              [] r \in {"unchanged", "drift"} -> "nothing"

Truthful(p) ==
    result[p] \in {"created", "replaced", "unchanged", "drift"} => did[p] = Claim(result[p])

StrictReportsHold ==
    \A p \in Procs : kind = "columnstore" /\ ~call[p].lenient => Truthful(p)

(* When every call wants the same policy and none removes it, a call that  *)
(* succeeds leaves that policy in place for good: services that reconcile  *)
(* the same definition at the same time all end up with it.                *)
SameWish ==
    \A p, q \in Procs : call[p].spec = call[q].spec /\ call[p].op # "remove"

SameWishAgreed ==
    SameWish /\ kind = "columnstore" =>
        \A p \in Procs : result[p] \in {"created", "replaced", "unchanged"} =>
            job # NoJob /\ job.spec = call[p].spec

(* Between its round trips a call holds a connection only for open rows,   *)
(* a statement or a transaction, and none once it has returned.  So with a *)
(* connection more than calls, no call waits for one; and the transaction  *)
(* another call's statement waits for can go on by itself.                 *)
Holding == {"getJob", "getStats", "adding", "removing", "txRemove", "txAdd", "commit"}

SpareConnection ==
    IsFiniteSet(Procs) /\ IsFiniteSet(Conns) /\ Cardinality(Procs) < Cardinality(Conns)

PoolServes ==
    /\ \A p \in Procs : pc[p] \notin Holding => held[p] = {}
    /\ SpareConnection => Free # {}
    /\ lock # NoProc => pc[lock] \in {"txAdd", "commit"}

(* Every call returns, when the pool has a connection more than there are  *)
(* calls: one for each row set a call keeps open, and one to go on with.   *)
Terminates == \A p \in Procs : <>(pc[p] = "done")
=============================================================================
