# A TLA+ development of pgxext

`pgxext` is a Go library around `pgx`: a pooled `DataSource`, a migration
runner, a query builder, LISTEN/NOTIFY helpers and an administration layer for
TimescaleDB. Most of its operations are one statement. What is hard in it lies
where several statements of several callers meet a shared database or a bounded
pool, in arithmetic at the end of a 64-bit range, in the bookkeeping of
placeholders, and in policies whose windows must fit together as time goes by.
That is what the modules here are about.

Everything outside the repository (PostgreSQL, TimescaleDB, the pool and the
client library) is modelled from how the code uses it; definitions of that kind
are marked `external` in `PROJECT.json`. Line numbers below are of the files
under `src/`.

## 1. The system

| component | state | operations | what is hard | what makes it correct |
|---|---|---|---|---|
| `migration/migrator.go` | table `migrations`; the application's schema | `Up`, `Down`: one transaction each, several statements | processes that start together; a stale answer of SELECT EXISTS; uncommitted rows; deadlocks; a lost COMMIT answer; crashes | a migration is recorded exactly when it is in effect; a nil result is true; every call returns |
| `timescaledb/refresh.go`, `retention.go`, `columnstore_policy.go` (policy lifecycle) | the relation's job in TimescaleDB; connections held by open row sets | `Ensure`, `Reconcile`, `Replace`, `Add`, `Remove`, `Inspect` | check then act over several connections; replacement as remove and add; pool exhaustion | policies are exchanged in one step, reports are true, concurrent services with one wish agree, calls return |
| `notification/consumer.go` | a pooled session's subscriptions, the client's buffer | `Consumer.Listen` | a connection is reused with what it has buffered; cancellation races delivery | nothing of the channel is lost or repeated, sessions go back clean, cancellation ends a Listen |
| `timescaledb/refresh.go` (planning) | none; a loop | `PlanRefreshPolicy`, `PlanRefreshBatches`, `RefreshContinuousAggregate` | overflow, saturation of `time.Time`, off-by-one at the limit | plans are exact, tile the range, refuse only what does not fit |
| `timescaledb/interval.go`, `lifecycle.go` | none; the boundaries of a deployment | `Interval.Validate`, `compareIntervals`, `ValidateLifecycle` | boundaries that are valid one by one and conflict as the clock moves; calendar and fixed intervals | an accepted lifecycle loses no aggregated history and no declared late row |
| `repository/queries.go` | a query object | `Where`, `OrWhere`, `Set`, ..., `Execute` | numbered placeholders over SET and WHERE; grouping of AND and OR; reuse after `Execute` | the statement means what the chain asked for |
| `timescaledb/interval.go`, `refresh.go` (read-back) | a job's catalog row | `pgValue`, `intervalFromPG`, `Inspect*`, `*PoliciesEqual` | microseconds against nanoseconds, NULL and absent keys, jobs that others wrote, 64-bit sums | what was written reads back as what was asked; nothing is read as something else |
| `notification/notification.go`, `sql.go` | triggers and functions in the database | `Apply`, `DropSQL` | several statements under locks taken in opposite orders; different definitions with one sanitized name; rows that change meanwhile; limits of `pg_notify` | installed triggers stay whole; a change is announced once by each notification, at every moment; no call hangs |
| `timescaledb/frame.go`, `bucket.go`, `measure.go`, `predicate.go`, and the SELECT of `continuous_aggregate.go` | a query object | the fluent calls, `Build`, `BuildSQL` | optional bucket arguments that shift all later placeholders; options that are valid alone and conflict | the statement selects and groups what was asked; what validates runs |
| `timescaledb/hypertable.go`, `columnstore.go`, `continuous_aggregate.go` | tables, dimensions, columnstore, views in TimescaleDB | `Apply`, `Drop`, `SetChunkInterval`, `SetRealTime`, `SetHypertableColumnstore` and their siblings | services that set up the same storage at once; lost answers; several statements in one call; a check before a change | storage is never seen half converted and ends as planned; repeatable plans get through |
| `timescaledb/metadata.go`, `extension.go` | none | capability checks, job and statistics queries, listings | stale answers | as steps of the calls that use them; the listings are single SELECTs |
| `config.go` | a `Config` | setters | orders of TLS setters | not modelled: a record read once |
| `functional/` | none | rendering of DDL | wording only | not modelled: pure formatting |
| `datasource.go` | the pool | `Exec`, `Query`, `NewTransaction`, ... | who holds a connection for how long | as its callers see it, in PolicyLifecycle and NotificationConsumer |

Interaction is by direct call and through the database. `Migrator`, the policy
functions and the builders borrow connections from the `DataSource`; `Consumer`
keeps one for as long as it listens; the policy functions put the jobs into
TimescaleDB that later work on the data without the library. The hazards this
leads to are listed, each at its line, under `hazards` in `PROJECT.json`.

## 2. Modules

| module | what it is |
|---|---|
| `MigrationLedger` | abstract specification of the migrator: `Up` and `Down` of a set of names as one atomic step |
| `Migrator` | the calls statement by statement; implements `MigrationLedger` (`LedgerRefined`) |
| `PolicyLifecycle` | policy calls round trip by round trip over a bounded pool |
| `Intervals` | `Interval`, its validation, and `int64` of a bounded width; used by the next four |
| `PolicyReadback` | the same calls field by field: what is written, what is read, jobs of other clients |
| `DataLifecycle` | `PlanRefreshPolicy`, `ValidateLifecycle` and what they mean for data over time |
| `FrameQuery` | `FrameQuery` and the SELECT of a continuous aggregate: calls, validation, rendering, and the rows the database selects |
| `StorageSetup` | services that set up hypertables, columnstore and aggregates with the same plan |
| `NotificationRegistry` | abstract specification of the trigger builder: `Apply` and `Drop` as atomic steps, and what a change of a row announces |
| `TriggerCatalog` | `Apply` and `DropSQL` statement by statement under locks; implements `NotificationRegistry` (`RegistryRefined`) |
| `NotificationConsumer` | `Listen` from validation to UNLISTEN, sessions, buffers |
| `RefreshBatches` | the loop of `PlanRefreshBatches` |
| `QueryBuilder` | the four query builders, one call or one rendered clause a step |
| `MC*` | instances for TLC, with the sets of calls, clauses and configurations |
| `Migrator_proofs`, `NotificationConsumer_proofs`, `PolicyLifecycle_proofs`, `PolicyReadback_proofs`, `Timescale_proofs` (of `DataLifecycle`, `StorageSetup` and `FrameQuery`), `TriggerCatalog_proofs`, `RefreshBatches_proofs`, `QueryBuilder_proofs` | theorems |

Definitions whose comment starts with "Mutant" are plausible bugs of the
definition after them. They are used by no specification: substituting one for
its original has to break a property, which shows that the property is about
the code.

### Migrator (`migration/migrator.go`)

Committed state is `table`, `rows` (names in the migrations table) and `effect`
(for each name, runs of `UpQuery` minus runs of `DownQuery`, which stands for
the schema). Each process has a program counter, the call, how far the loop is,
and what its open transaction did (`tx`). `TypeOK` includes that a loop stands
within its call's set. Actions and code: `Start`
(NewTransaction), `Create`/`CreateResumes` (`createMigrationsTable`, which waits
for an uncommitted creator and then fails on the catalog's unique index or goes
on), `Check` (SELECT EXISTS), `RunQuery`, `Insert`, `Delete`, `CheckEmpty`,
`Drop`, `Commit`. `Down` walks the set backwards and, as in the code, runs
`DownQuery` and then DELETE without looking at the number of deleted rows.
`Fail` is any failing statement, with the rollback of its error path;
`CommitFails`, `Settle` are a failing commit and one whose answer is lost
(the transaction may or may not be in effect); `Crash` is the death of the
process; `DeadlockVictim` is the server's detector. A process calls again after
an error, so retries are among the behaviours.

Simplifications: READ COMMITTED with one snapshot a statement; the application's
own queries conflict with nobody; DDL locks are the three that matter here
(creation, use and drop of the table).

### PolicyLifecycle (the three policy files)

One relation, at most one job. `InspectRow` takes a connection that stays busy
with the open row set (`defer closeRows`) while `GetJob` and `GetJobStats` need
a second; `Act` is the switch on the decision; `Add` and `Remove` are single
statements; `TxRemove`, `TxAdd`, `TxCommit` are `Replace` in `withTransaction`.
Waiting for the transaction of another call is `lock`. The kinds differ in two
ways that are kept: columnstore policies check capabilities first and once more
before a replacement; refresh and retention policies read the job id with Query
and do not look at `rows.Err` (third disjunct of `Add`). So retention policies take
the steps of refresh policies, and the runs use those two kinds. A configuration is a
model value, equal or not equal as `*PoliciesEqual` finds it; `Invalid` is one
`Validate` refuses.

### PolicyReadback (`interval.go:147-201`, the `add*Policy`, `Inspect*` and `*PoliciesEqual` functions)

The fields that `PolicyLifecycle` hides in a model value. A wish is normalized
and validated, `added` turns it into the row of the job (microseconds, months,
NULL for an open end), `inspected` reads a row back with the defaults for keys
that are absent, `PoliciesEqual` compares. `intervalFromPG` is translated guard
by guard; sums and products are those of an `int64` of `2 * (MaxInt + 1)`
values, so an unchecked one would wrap. `Meddle` is another client that leaves a
job with any intervals at all. Calls are atomic here. Truncation of times to the
microsecond is the driver's. External: the server keeps what it is given
(a refresh policy with 0 batches is stored with 0).

### NotificationRegistry and TriggerCatalog (`notification/notification.go`, `sql.go`)

A notification is a record; names are short sequences over a small alphabet,
because the code derives the names of functions and triggers from them
(`sanitizeName`), and the server cuts what it gets (`Identifier`).
`OtherLetters` are letters that `isIdentifier` accepts in a table's name and
`sanitizeName` replaces.

`Apply` is one string without arguments, which the client library sends through the simple
protocol and the server runs as one transaction: `Start`
(a statement of the string that does not parse fails before any of them runs),
`CreateFunction` (locks the function until the end), `DropTrigger` (locks the table),
`CreateTrigger`, `Commit`. The SQL of `DropSQL` takes the table first and the
function second; `DropFunction` is refused while triggers of others depend on it.
`AwaitFunction` waits for a function that is being written, and when its writer
commits the waiter fails ("tuple concurrently updated", `doomed`).
`DeadlockVictim` is the detector of the server, `Fail` everything else that can
go wrong. `ChangeRow` is the application: it waits for the table, and every
trigger that fires computes its payload as the generated function does
(`payloadValue`); a message that `pg_notify` does not take refuses the change.

The abstract registry is indexed by notifications and not by names. What it
promises when names clash is deliberately weak, only that the last one applied
is whole; without clashes a change is announced by exactly the installed
notifications.

### StorageSetup (`hypertable.go`, `columnstore.go`, `continuous_aggregate.go`)

Builders are records and fluent calls update them; `Valid` and `Capabilities`
translate validation and capability checks, and `Stages` the statements of
`BuildSQL` in their order: creation, second dimension, columnstore. Services
share a plan, a sequence of calls; a call is a check (`Check`: validation,
`requireCapability`, the hypertable test of `SetChunkInterval`) and, later, one
string of statements (`Exec`), which takes effect as a whole or not at all. `Fails`
is an error before or after COMMIT, or a restart; the service repeats the call.
`Possible`, `Unchanged` and `Effect` are TimescaleDB's part, as the code and its
integration tests use it: `if_not_exists` accepts what is already there,
conversion of a table with rows needs `migrate_data`, and a hypertable made by
CREATE TABLE has its columnstore on (`timescaledb/README.md:89-90`). Columnstore
settings are kept for their validation (`ValidSettings`), as is a second
dimension without a column or without partitions.

`SetupInit`, `SetupNext`, `FrameInit`, `FrameNext` and their siblings carry a
prefix so that one module of proofs can extend this module, the next and
`DataLifecycle` together.

### FrameQuery (`frame.go`, `bucket.go`, `measure.go`, `predicate.go`)

One object, a bounded number of calls, `Build` at any point and again later.
`Build` validates and renders up to the range; each predicate is a step of its
loop (`RenderNext`), and `BuildReturns` ends it; `phase` says where it is. A
statement is a tree of clauses with placeholder numbers next to its argument
list; `Selected` reads it as the database does and `Asked` reads the calls as
their caller does. Instants have more digits than a `timestamptz`: arguments are
floored to microseconds, and `Asked` says of a row's microsecond which range it
belongs to without that rounding: for bounds finer than a microsecond, the
half-open range of `timescaledb/README.md:139` is that of the floored bounds.

`ValidBucket` checks a zone as `time.LoadLocation` does: `Locations` are the zones
it finds, among them `Local`, and `ServerZones` are those of the database.
`Executable` says what TimescaleDB would refuse, an unknown zone included, so that
`ValidRuns` is completeness of validation, with `Local` as its exception
(section 5). The SELECT a caller brings along (`TrustedSelects`) is looked at as
the code does, for being blank and for `time_bucket_gapfill`. ORDER BY, LIMIT and
the collection of rows are left out.

### NotificationConsumer (`notification/consumer.go`)

The server queues for a session what its subscriptions select (`queue`); the
client library buffers per connection (`buffer`); `Listen` acquires, LISTENs,
waits, decodes, calls the handler, and leaves through UNLISTEN and Release.
Cancellation, a failing handler, a payload that is not JSON, a failing LISTEN
and a broken connection are modelled. The Config has no notification hook (see
`hazards`), and UNLISTEN is answered or the session is gone. Every event carries
its position in the history of what was sent, so that `NothingMissed` can say
of what a handler got that it is in order, genuine, and without a gap in the
Consumer's own channel from LISTEN on.

### RefreshBatches (`refresh.go:430-459`)

One action is one iteration. `Plus` stands for `time.Time.Add`; the model values
are a saturating clock of seconds with ticks that carry, so that the "did not
advance" branch is taken. What holds for every `Plus` is separated from what
needs it to be the sum.

### DataLifecycle (`refresh.go:96-134, 404-422`, `interval.go`, `lifecycle.go`)

`Deploy` is an application that plans a refresh policy for its aggregate and
runs a configuration only if neither `PlanRefreshPolicy` nor `ValidateLifecycle`
objects. `PlanRefreshPolicy` is translated with the width of a Duration as a
parameter (`Wrap` is the sum of two `int64`). From then on the server acts: rows
arrive late within the declared tolerance, the refresh job recomputes the
buckets wholly inside its window, chunks are converted and dropped at their
boundaries, and `RefreshContinuousAggregate` refreshes by hand within the
declared backfill window. The clock is discrete and does not pass a refresh that
is due. Months are a parameter (`CalendarBack`) with the three facts assumed of
a calendar in `CalendarAssumption`.

### QueryBuilder (`repository/queries.go`, `repository.go`)

A chain of calls collects clauses; `Execute` validates (`SelectValid` and its
siblings), `RenderSet` and `RenderWhere` render clause by clause and append
arguments, `Send` ends the statement. A query may be extended and executed
again. The statement is kept as a tree; text that takes no arguments (joins,
CTEs, ORDER BY, LIMIT, ON CONFLICT) is left out. `Selected` is the database's
reading of the statement, `Asked` the caller's reading of the chain.

## 3. Runs

| run | question | bounds |
|---|---|---|
| `migrator_exclusive` | Is the ledger exact, are results true, are calls atomic, do calls return, if `Down` overlaps no other session? | two processes, two migrations, two calls each: calls in full, in part, in another order, with a name twice, empty |
| `migrator_overlap` | What is left without that exclusion? Whatever is recorded is in effect, and every wait ends. | two processes, three migrations, two calls each; each process reverts names of its own, or none |
| `policy_mixed` | Are policies exchanged in one step, strict reports true, same wishes agreed, has the pool always a connection to give, and do calls return? | three calls of every operation, two configurations and an invalid one, refresh and columnstore, a connection more than calls |
| `consumer_shared` | Is delivery complete, ordered and clean, and does cancellation end a Listen? | two consumers on one or two channels, two connections, two Listens, two events |
| `consumer_stale` | counterexample: a handler gets an event of another channel out of a reused connection | as above |
| `refresh_batches` | Does a plan tile its range, exactly and within its limit? | 12 instants, widths up to 6, limits up to 6, saturation included |
| `data_lifecycle` | Are plans exact, and what is a lifecycle worth that was accepted? | a Duration of 6 bits, about 160 configurations of which some twenty run, 13 instants, two rows |
| `query_builder` | Do placeholders and arguments agree, and does the statement mean what was asked? | chains of three clauses of all shapes, two columns with NULL, on all four builders |
| `trigger_catalog` | Do installed triggers stay intact, are `Apply` and `DropSQL` atomic to listeners, does every call return? | two processes, six notifications (two that clash in everything, two in the function only, one the server does not parse, one `BuildSQL` refuses; a letter that is not ASCII), ten calls, three changes, one of them too large |
| `policy_readback` | Does what is written read back as what was asked, and is nothing misread? | a Duration of 6 bits, microseconds of two nanoseconds, days of five microseconds; all kinds; about 90 wishes and 60 jobs of other clients around every overflow |
| `frame_query` | Does the statement mean what was asked, and does everything valid run? | objects of six calls over six measures, four predicates, two widths, offsets, three zones (known to both sides, `Local`, unknown), an origin, three trusted SELECTs; 1.65 million states |
| `storage_setup` | Is a conversion ever seen half done, does the storage end as planned, do repeatable plans get through? | two services, eight plans (four of them refused by validation), servers with and without each feature, rows at any time |

Why the bounds are enough to see the interesting cases: a lost update, a stale
check or a wait cycle of these protocols needs two actors, and each
mutant of a protocol is found with two; a third policy call gets between the steps
of the other two; two calls per migrator process include a retry after every
kind of failure and a `Down` after an `Up`; a connection is reused after two
Listens; two rows put one late row beside one that is already aggregated,
converted or dropped; a third clause is the first that can join a group which is
not the first. `CHECK_DEADLOCK FALSE` is set everywhere because the calls of a
bounded instance are used up, or its clock stands still at the bound.

### Fairness

- Migrator: weak fairness of every process's steps and of the deadlock detector.
  A goroutine that can send its next statement does; the server finishes a
  statement whose lock is free and breaks every cycle after `deadlock_timeout`.
  Failing, crashing and losing an answer are never required.
- PolicyLifecycle and NotificationConsumer: strong fairness of a call's steps.
  The pool serves waiters in turn and lock queues are first in, first out, so a
  caller that can get a connection again and again gets one. Cancellation and
  failure are never required.
- TriggerCatalog: strong fairness of a call's statements, as lock queues are
  first in, first out, and weak fairness of the deadlock detector. Failing is
  never required.
- StorageSetup: a service goes on (weak fairness of `Check`) and not every
  attempt of a call is hit by a failure (strong fairness of `Exec`). Without the
  second no retry loop ends; the code has no loop of its own, its callers have.
- The other modules state no liveness: their loops are bounded by their input.

## 4. Proofs

All proofs are for every value of the constants; the only assumptions are the
named `ASSUME`s of the modules (which TLC evaluates on each instance) and,
where it is stated, `ExclusiveDown` or `DisjointReverts`.

- `Migrator_proofs`: type correctness, and `RecordedStaysApplied`: what is
  recorded is in effect even where `Down` overlaps other calls, as long as no
  two processes revert one migration (`DisjointReverts`). `OverlapInv` says that
  the rows a `Down` has found stay until it deletes them: nobody else deletes
  them (`Reverts` are disjoint), and nobody drops a table that another session
  has locked (`Apart`), which rests on one session at most creating it.
  For the rest of the file, `LedgerExact` is not inductive. The invariant
  `LedgerInv` adds, for each session, which fields of its transaction can be
  non-trivial at each statement (`SessionShape`), that uncommitted rows are new
  and belong to one session, and that a dropped table holds nothing else
  (`RowsDisjoint`), that a query has run once for each row written (`RanOnce`)
  and that what the loop has passed is as it found or left it (`LoopDone`), and
  that only `Up`s overlap (`DownAlone`). The key point is the primary key: an
  INSERT that finishes next to another session's uncommitted row would break
  `RowsDisjoint`. From `LedgerInv` follow `LedgerIsExact`, `ReportsAreTrue` and
  the refinement `MigratorRefinesLedger`: commits map to the abstract step,
  every other step to a stutter. All three assume `ExclusiveDown`, which
  cannot be dropped (section 5).
- `PolicyLifecycle_proofs`: `PolicyInv` ties the statement a call is at to its
  operation (`Phase`), says which call holds the lock and what it will commit
  (`Holds`), and, for callers of one mind, that a policy found missing can only
  have been created as wished, while one found as wished is still there
  (`Agreed`). It gives `StrictReportsAreTrue`, `SameWishIsAgreed` and
  `ChangesAreOwned` for any number of calls and connections.
  `PoolServesAll` is the safety behind `Terminates`, with a connection more than
  calls. `PoolInv` says that between its round trips a call keeps one connection at
  most, which is nobody else's, and only where `Holding` says so; then one
  connection is free by the pigeonhole principle (`SpareIsFree`), also for the
  second one that Inspect takes, and whoever has the policy's lock is inside its
  transaction and waits for nobody.
- `PolicyReadback_proofs`: the lemma `ReadExactly` follows the three range checks
  of `intervalFromPG` and shows that they let through exactly what fits, for
  every width; `RoundTrip` and `WrittenIsRead` show that a valid wish comes back as
  itself. From these, `ReadsAreExact` and, by induction over the steps,
  `NoDriftAfterAgreement`.
- `TriggerCatalog_proofs`: `CatalogInv` has exclusive locks, that `Apply` holds
  its function's lock before it touches the table, that a function about to be
  dropped stays without dependents (nobody can add one without its lock), and
  where each trigger comes from (`Origins`, by which nothing unpromised is
  announced if no names clash). Then `CatalogStaysIntact`, and the refinement
  `CatalogRefinesRegistry`: commits map to `Apply` and `Drop`, changes of rows to
  `Change` or `Refuse`, everything else stutters.
- `NotificationConsumer_proofs`: `ConsumerInv` follows the events of a session
  from the log (`Log`) through the server's queue and the client's buffer
  (`Wire`: both are genuine, in order, and the buffer comes first) to the handler
  (`Handled`). Its center is `Following`: while a Listen runs, all its buffer
  holds is from before its LISTEN, all its queue holds is of its channel and from
  after, and each event of the channel since is in the handler's history or in
  the queue (`Complete`). That a handler's history has no gap is not inductive
  without this, for an event lost from the queue would only be missed later, and
  neither is cleanliness of the sessions in the pool without `Exclusive` (one
  consumer a connection), which makes a failed or cancelled Listen free what
  nobody else holds. It gives `ConsumerTypes`, `NothingIsMissed` and
  `SessionsStayClean` for any number of consumers and connections.
- `RefreshBatches_proofs`: the loop invariant, tiling whatever `Add` returns,
  and, where `Add` is the sum, exactness and `BucketsAreRefreshed`: `BucketsSoFar`
  says that the cursor stays on a boundary of buckets until the plan ends, so
  no bucket is split between two ranges.
- `QueryBuilder_proofs`: placeholders stand for the values of their own clause
  and every argument is mentioned (`RenderInv`), for any clauses and any number of them. And
  `StatementMeansChain`: the statement selects exactly what the chain asks for.
  `GroupInv` says, while the clauses are grouped and afterwards, that each group
  is the run of clauses from a leading one up to the next and that the last
  group is the one a further clause joins; clauses bind as they were written
  (`RenderWhereGroups`), so both readings are a disjunction over the same runs
  (`SameTruth`).
- `Timescale_proofs`, DataLifecycle: `LifecycleInv` records that what was dropped or
  converted ended before a boundary, which only moves forward
  (`BoundaryAdvances`), and that the running configuration is an accepted one,
  with the orders that `ValidateLifecycle` checks only indirectly
  (`RunningOrder`: tolerance before retention, through the columnstore age or
  through the planned start offset). Then no refresh reaches below the retention
  boundary (`HistoryIsKept`), no declared write meets a converted chunk
  (`WritesAvoidColumnstore`), no drop takes a row still open
  (`RetentionRespectsLateRows`), and the plan is exact for every width of a
  Duration (`PlanExact`). `AlignedRunsRevisit` adds that with aligned runs delayed
  writes are revisited. Its invariant `RevisitInv` needs the next run to be no
  more than a schedule ahead (`OnTime`); the witness for a new row is the first
  run at which its bucket has ended for as long as the end offset asks
  (`SomeRunCovers`), which alignment puts inside the window. The theorem assumes
  `PromptStart`, that the first run is at most a schedule after the deployment:
  `PlanRefreshPolicy` sets no `InitialStart`, so the server runs the job at once.
  With a later first run the property is false, as TLC shows if `Phases` has one.

- `Timescale_proofs`, StorageSetup: `Does` says what a whole call makes of the
  storage, whatever its statements find there: `StatementDone` is the case of one
  statement, `CallDone` of their sequence. `SetupInv` adds to `AsPlanned` the types
  and two facts it needs: a second dimension is only on a hypertable, and where
  the plan creates its table no plain one is in the way (over a plain table
  CREATE TABLE IF NOT EXISTS would do nothing). `CallKeeps` is the step: a
  service that has not passed call k repeats one at or before k, and by `LastOf`
  no later one touches what k decides; so it does not matter whether its answer
  is lost (`TakesEffect` covers `Exec` and a `Fails` whose COMMIT went through).
  `StorageAsPlanned` needs no limit on services, calls or failures, and the
  plans are any sequences of calls, not only repeatable ones.
- `Timescale_proofs`, FrameQuery: `FrameInv` says how far the statement is. While
  it is rendered it stays as `RenderFrame` made it, but for longer arguments
  (`Extends`) and one condition more for each predicate passed, with the numbers
  of its own values (`Carries`, `ConditionAdded`). The numbers before those
  depend on which of zone, origin and offset are given (`BucketOfQuery`). What
  the rows have to do with it is `Microseconds` (the floor of the two bounds
  selects the same rows as the bounds) and `SameMeaning` (a condition holds where
  its predicate does, empty lists included). From it follow
  `FrameMeansWhatWasAsked`, for any number of calls, and `ValidFramesRun`, where
  `SelectListRuns` shows that the numbers in GROUP BY are those of the columns
  that are no aggregates. Assumed of the constants: what callers pass has the
  types the constructors give it, `Null` is no value, `Absent` is neither a
  number nor a zone, and the database knows every zone `time.LoadLocation` finds,
  other than `Local` (`ZonesAssumption`: both read the IANA data).

Every invariant that a passing run checks is the property of a theorem, and so is
every action property and refinement. Only model-checked is the liveness
(`Terminates`, `Delivered`, `CancelEnds`, `SetupEnds`), which is beyond the prover.

## 5. Where code and text disagree

`consumer_stale` ends in a counterexample to a sentence of the repository:
`consumer.go:14` says that a Consumer listens on one channel, but a reused
connection still holds notifications of its previous channel, and `Listen` hands
them to the new handler (`consumer.go:60`).

Five more limits show in the models as premises that cannot be dropped. The
first three contradict no text; the last two do, and are stated with the premise
under which the text is true instead of in a run of their own:

1. `migrator.go:138`: overlapping `Down`s run a `DownQuery` twice, because the
   count of the DELETE is not looked at. `LedgerExact` needs `ExclusiveDown`.
2. `migrator.go:153`: between the emptiness check and DROP TABLE an `Up` can
   commit; its records are dropped with the table. `RecordedIsApplied` claims
   only the other direction.
3. `refresh.go:303`: Inspect holds a connection while it waits for another; as
   many calls as connections wait for ever. `policy_mixed` has one more
   connection than calls, which is the premise of `PoolServes`.
4. `refresh.go:124`: the planned start offset leaves out the schedule interval,
   so a row that arrives between two runs, late within the tolerance, is never
   revisited unless runs, buckets and tolerance are aligned, which is the
   premise of `RevisitedWhenAligned`. `timescaledb/README.md:245` says without a
   condition that the plan "revisits delayed writes".
5. `bucket.go:21-25`: a bucket's zone is checked with `time.LoadLocation`, which
   accepts `Local`; the database has no such zone and refuses the statement.
   `validateTimezone` of a policy rejects it for this reason
   (`refresh.go:85-88`, `policy_test.go:61-64`). `ValidRuns` leaves out queries
   with this zone.

## 6. Not modelled, and what could follow

Not modelled, with reasons: `functional/` and the rendering of identifiers,
intervals and DDL (formatting); `config.go` (setters of a record that is read
once; only their order matters, for TLS); result scanning and reflection (no
state); metadata listings (single SELECTs); custom transactions and batches of
the `DataSource` (no caller in the repository); notification hooks of the
`Config`, with which `Listen` cannot work (`hazards`).

What could follow:

1. `MigrationSet.Join` with slices that share an array, in front of `Migrator`.
2. The texts of `QueryBuilder` that take arguments of their own in later
   versions: joins, CTEs, ON CONFLICT.
3. An abstract specification of the policy calls that `PolicyLifecycle`
   implements, with `PolicyReadback` as the meaning of its configurations.
4. A larger alphabet for `StorageSetup`: several tables in one plan, and the
   listings of `metadata.go` as what services see of each other's work.
