--------------------------- MODULE DataLifecycle ---------------------------
(***************************************************************************)
(* What a refresh policy of PlanRefreshPolicy (src/timescaledb/refresh.go) *)
(* and a configuration that ValidateLifecycle (lifecycle.go) finds nothing *)
(* wrong with mean for the data: rows arrive late, a continuous aggregate  *)
(* is refreshed, chunks are converted and dropped as time goes by.         *)
(*                                                                         *)
(* TimescaleDB is external: a refresh recomputes the buckets wholly inside *)
(* its window from the rows there are; retention drops chunks that end     *)
(* before its boundary; the columnstore policy converts them.  Durations   *)
(* are nanoseconds of a bounded width, timestamps are multiples of Micro.  *)
(***************************************************************************)
EXTENDS Intervals, FiniteSets

CONSTANTS
    Configs,                \* lifecycles an application may deploy
    CalendarBack(_, _),     \* the time so many months before another
    ChunkWidth,
    Phases,                 \* times of the first run of the refresh job
    MaxMonths,              \* bound: months of a calendar interval
    MaxTime, MaxRows        \* bounds: the clock, and rows per behaviour

Config ==
    [aggregate : BOOLEAN, bucket : Int, schedule : Int,
     late : Interval, columnstore : Interval, retention : Interval, backfill : Interval]

ASSUME ConfigsAssumption ==
    /\ Configs \subseteq Config
    /\ \A c \in Configs :
          /\ {c.bucket, c.schedule, c.late.n} \subseteq (-MaxInt - 1)..MaxInt
          /\ \A i \in {c.late, c.columnstore, c.retention, c.backfill} :
                i.kind = "months" => i.n <= MaxMonths
ASSUME UnitsAssumption == ChunkWidth \in Nat \ {0} /\ MaxRows \in Nat
ASSUME TimeAssumption == MaxTime \in Nat /\ MaxMonths \in Nat /\ Phases \subseteq Nat

(* All the calendar is asked for: more months before is no later, and the  *)
(* order of two times is kept.                                             *)
ASSUME CalendarAssumption ==
    \A t, u \in 0..MaxTime : \A m, n \in 1..MaxMonths :
        /\ CalendarBack(t, n) \in Int
        /\ m <= n => CalendarBack(t, n) <= CalendarBack(t, m)
        /\ t <= u => CalendarBack(t, n) <= CalendarBack(u, n)
        /\ CalendarBack(t, n) < t

VARIABLES
    config, policy,     \* the deployment and its refresh policy
    pc,                 \* "plan", "running" or "refused"
    now, nextRefresh,
    rows,               \* times of the rows there are
    inserted,           \* history: times of all rows ever inserted
    aggregated,         \* times of the rows the aggregate has materialized
    columnstore         \* ends of the chunks in the columnstore

data == <<rows, inserted, aggregated, columnstore>>
vars == <<config, policy, pc, now, nextRefresh, data>>

Times == {t \in 0..MaxTime : t % Micro = 0}

NoPolicy == [start |-> 0, end |-> 0, schedule |-> 0]

TypeOK ==
    /\ config \in Configs
    /\ policy \in [start : 0..MaxInt, end : 0..MaxInt, schedule : 0..MaxInt]
    /\ pc \in {"plan", "running", "refused"}
    /\ now \in 0..MaxTime /\ nextRefresh \in Nat
    /\ inserted \subseteq Times /\ rows \subseteq inserted /\ aggregated \subseteq inserted
    /\ columnstore \subseteq Nat

-----------------------------------------------------------------------------
(* Intervals.                                                              *)

(* compareIntervals, as ValidateLifecycle uses it: boundaries that are not *)
(* declared are not compared, fixed and calendar intervals cannot be.      *)
Present(l, r) == ~IsOpenEnded(l) /\ ~IsOpenEnded(r)
Comparable(l, r) == Present(l, r) => l.kind = r.kind

ValidDuration(d) == Validate(FixedInterval(d))

ValidArguments(bucket, late, schedule) ==
    /\ ValidDuration(bucket)
    /\ late >= 0 /\ late % Micro = 0
    /\ schedule = 0 \/ ValidDuration(schedule)

Derived(bucket, late, schedule) ==
    LET start == Wrap(late + bucket)
        twoBuckets == Wrap(2 * bucket)
    IN [start |-> IF twoBuckets > start THEN twoBuckets ELSE start, end |-> bucket,
        schedule |-> IF schedule = 0 THEN bucket ELSE schedule]

(* Mutant: the sums are not guarded.                                       *)
PlanUnguarded(bucket, late, schedule) ==
    IF ValidArguments(bucket, late, schedule)
    THEN Derived(bucket, late, schedule) ELSE NoPolicy

(* Mutant: only the sum is guarded, not the two buckets.                   *)
PlanDoublesUnguarded(bucket, late, schedule) ==
    IF ValidArguments(bucket, late, schedule) /\ late <= MaxInt - bucket
    THEN Derived(bucket, late, schedule) ELSE NoPolicy

(* Mutant: the bucket that has just ended is not added to the window.      *)
PlanWithoutBucket(bucket, late, schedule) ==
    LET p == Derived(bucket, late, schedule)
    IN IF /\ ValidArguments(bucket, late, schedule)
          /\ bucket <= MaxInt \div 2 /\ late <= MaxInt - bucket
       THEN [p EXCEPT !.start = IF late > 2 * bucket THEN late ELSE 2 * bucket]
       ELSE NoPolicy

PlanRefreshPolicy(bucket, late, schedule) ==
    IF /\ ValidArguments(bucket, late, schedule)
       /\ bucket <= MaxInt \div 2 /\ late <= MaxInt - bucket
    THEN Derived(bucket, late, schedule) ELSE NoPolicy

-----------------------------------------------------------------------------
(* ValidateLifecycle.                                                      *)

Codes == {"columnstore_before_late_arrival", "columnstore_after_retention",
          "refresh_beyond_retention", "backfill_beyond_retention"}

Boundaries(c, start) == {c.late, c.columnstore, c.retention, start, c.backfill}

LifecycleError(c, start) ==
    \/ \E i \in Boundaries(c, start) : ~IsOpenEnded(i) /\ ~Validate(i)
    \/ ~Comparable(c.columnstore, c.late) \/ ~Comparable(c.columnstore, c.retention)
    \/ ~Comparable(start, c.retention) \/ ~Comparable(c.backfill, c.retention)

(* Mutant: the columnstore is not compared with the late-arrival window.   *)
UnsafeWithoutLate(c, start, code) ==
    CASE code = "columnstore_before_late_arrival" -> FALSE
      [] code = "columnstore_after_retention" ->
            Present(c.columnstore, c.retention) /\ c.columnstore.n >= c.retention.n
      [] code = "refresh_beyond_retention" ->
            Present(start, c.retention) /\ start.n > c.retention.n
      [] code = "backfill_beyond_retention" ->
            Present(c.backfill, c.retention) /\ c.backfill.n > c.retention.n

(* Mutant: comparisons with the retention age are the wrong way round.     *)
UnsafeReversed(c, start, code) ==
    CASE code = "columnstore_before_late_arrival" ->
            Present(c.columnstore, c.late) /\ c.columnstore.n <= c.late.n
      [] code = "columnstore_after_retention" ->
            Present(c.columnstore, c.retention) /\ c.columnstore.n <= c.retention.n
      [] code = "refresh_beyond_retention" ->
            Present(start, c.retention) /\ start.n < c.retention.n
      [] code = "backfill_beyond_retention" ->
            Present(c.backfill, c.retention) /\ c.backfill.n < c.retention.n

Unsafe(c, start, code) ==
    CASE code = "columnstore_before_late_arrival" ->
            Present(c.columnstore, c.late) /\ c.columnstore.n <= c.late.n
      [] code = "columnstore_after_retention" ->
            Present(c.columnstore, c.retention) /\ c.columnstore.n >= c.retention.n
      [] code = "refresh_beyond_retention" ->
            Present(start, c.retention) /\ start.n > c.retention.n
      [] code = "backfill_beyond_retention" ->
            Present(c.backfill, c.retention) /\ c.backfill.n > c.retention.n

ValidateLifecycle(c, start) == {code \in Codes : Unsafe(c, start, code)}

-----------------------------------------------------------------------------
(* The deployment.                                                         *)

Init ==
    /\ config \in Configs
    /\ policy = NoPolicy
    /\ pc = "plan"
    /\ now = 0 /\ nextRefresh \in Phases
    /\ rows = {} /\ inserted = {} /\ aggregated = {} /\ columnstore = {}

(* An application that heeds errors and diagnostics: it plans a policy for *)
(* its aggregate, if it has one, and runs what ValidateLifecycle accepts.  *)
Deploy ==
    LET c == config
        p == IF c.aggregate /\ c.late.kind # "months"
             THEN PlanRefreshPolicy(c.bucket, c.late.n, c.schedule)
             ELSE NoPolicy
        start == IF c.aggregate THEN FixedInterval(p.start) ELSE Open
    IN /\ pc = "plan"
       /\ policy' = p
       /\ pc' = IF \/ c.aggregate /\ p = NoPolicy
                   \/ LifecycleError(c, start) \/ ValidateLifecycle(c, start) # {}
                THEN "refused" ELSE "running"
       /\ UNCHANGED <<config, now, nextRefresh, data>>

(* The time an interval before t.                                          *)
Back(t, i) ==
    IF i.kind = "months" THEN CalendarBack(t, i.n) ELSE t - i.n

ChunkEnd(t) == (t - (t % ChunkWidth)) + ChunkWidth

BucketStart(t) == t - (t % config.bucket)

Inside(t, from, to) == from <= BucketStart(t) /\ BucketStart(t) + config.bucket <= to

(* The server's refresh of [from, to).                                     *)
Materialize(from, to) ==
    /\ aggregated' = {t \in aggregated : ~Inside(t, from, to)} \cup {t \in rows : Inside(t, from, to)}
    /\ UNCHANGED <<config, policy, pc, now, rows, inserted, columnstore>>

(* The clock does not pass the run of the refresh job that is due.         *)
Tick ==
    /\ pc = "running"
    /\ now + Micro <= MaxTime
    /\ config.aggregate => now # nextRefresh
    /\ now' = now + Micro
    /\ UNCHANGED <<config, policy, pc, nextRefresh, data>>

(* A row arrives, not later than it was declared to.                       *)
Insert ==
    /\ pc = "running"
    /\ \E t \in Times :
          /\ Back(now, config.late) <= t /\ t <= now
          /\ t \notin inserted /\ Cardinality(inserted) < MaxRows
          /\ rows' = rows \cup {t}
          /\ inserted' = inserted \cup {t}
    /\ UNCHANGED <<config, policy, pc, now, nextRefresh, aggregated, columnstore>>

(* The refresh job runs with the window of the policy.                     *)
Refresh ==
    /\ pc = "running" /\ config.aggregate
    /\ now = nextRefresh
    /\ nextRefresh' = now + policy.schedule
    /\ Materialize(now - policy.start, now - policy.end)

(* RefreshContinuousAggregate, within the declared backfill window.        *)
RefreshContinuousAggregate(from, to) ==
    /\ pc = "running" /\ config.aggregate
    /\ ~IsOpenEnded(config.backfill)
    /\ from < to
    /\ Back(now, config.backfill) <= from /\ to <= now
    /\ Materialize(from, to)
    /\ UNCHANGED nextRefresh

(* The retention job drops the chunks that end before the boundary.        *)
DropChunks ==
    LET boundary == Back(now, config.retention) IN
    /\ pc = "running" /\ ~IsOpenEnded(config.retention)
    /\ rows' = {t \in rows : ChunkEnd(t) > boundary}
    /\ columnstore' = {e \in columnstore : e > boundary}
    /\ UNCHANGED <<config, policy, pc, now, nextRefresh, inserted, aggregated>>

(* The columnstore job converts the chunks that end before the boundary.   *)
Convert ==
    LET boundary == Back(now, config.columnstore) IN
    /\ pc = "running" /\ ~IsOpenEnded(config.columnstore)
    /\ columnstore' = columnstore \cup {ChunkEnd(t) : t \in {u \in rows : ChunkEnd(u) <= boundary}}
    /\ UNCHANGED <<config, policy, pc, now, nextRefresh, rows, inserted, aggregated>>

Next ==
    \/ Deploy \/ Tick \/ Insert \/ Refresh \/ DropChunks \/ Convert
    \/ \E from, to \in Times : RefreshContinuousAggregate(from, to)

Spec == Init /\ [][Next]_vars

-----------------------------------------------------------------------------
(* Properties.                                                             *)

(* PlanRefreshPolicy answers with the window of its documentation, without *)
(* overflow, exactly when there is one: its checks refuse no arguments     *)
(* whose window a Duration can hold and let no others through, and a       *)
(* policy it returns passes RefreshPolicy.Validate.                        *)
PlanIsExact ==
    LET start == IF 2 * config.bucket > config.late.n + config.bucket
                 THEN 2 * config.bucket ELSE config.late.n + config.bucket
    IN pc # "plan" /\ config.aggregate /\ config.late.kind # "months" =>
       IF /\ ValidArguments(config.bucket, config.late.n, config.schedule)
          /\ start <= MaxInt
       THEN /\ policy.start = start /\ policy.end = config.bucket
            /\ policy.start > policy.end /\ Validate(FixedInterval(policy.start))
            /\ Validate(FixedInterval(policy.schedule))
       ELSE policy = NoPolicy

(* What the aggregate has of rows that retention has dropped stays: no     *)
(* refresh of an accepted lifecycle, scheduled or by hand, recomputes a    *)
(* bucket from raw rows that are gone.                                     *)
HistoryKept == [][aggregated \subseteq aggregated']_vars

(* A row that is not later than declared is never written to a chunk that  *)
(* has already been converted to the columnstore.                          *)
NoWriteToColumnstore ==
    [][\A t \in rows' \ rows : ChunkEnd(t) \notin columnstore]_vars

(* ValidateLifecycle never compares the late-arrival window with retention *)
(* directly, yet with a columnstore age or an aggregate between them a     *)
(* drop takes no row whose time may still be written.                      *)
DroppedClosed ==
    [][~IsOpenEnded(config.late) /\ (~IsOpenEnded(config.columnstore) \/ config.aggregate) =>
          \A t \in rows \ rows' : t < Back(now, config.late)]_vars

(* Every row is in the aggregate, or will be wholly inside the window of a *)
(* scheduled run: "revisits delayed writes" (timescaledb/README.md).       *)
Covers(run, t) == Inside(t, run - policy.start, run - policy.end)

WithinARun(t) ==
    \E k \in 0..policy.start : Covers(nextRefresh + k * policy.schedule, t)

DelayedWritesRevisited ==
    pc = "running" /\ config.aggregate =>
        \A t \in inserted : t \in aggregated \/ (t \in rows /\ WithinARun(t))

(* The planned window does revisit every delayed write when the runs are   *)
(* aligned: the schedule divides the bucket, the bucket the tolerance, and *)
(* the job runs at multiples of its schedule.                              *)
Aligned ==
    /\ config.bucket % policy.schedule = 0 /\ config.late.n % config.bucket = 0
    /\ nextRefresh % policy.schedule = 0

(* It needs the first run in time: PlanRefreshPolicy sets no InitialStart, *)
(* so the job starts at once, but for the alignment.                       *)
PromptStart ==
    \A c \in Configs, first \in Phases :
        c.aggregate /\ ValidArguments(c.bucket, c.late.n, c.schedule) =>
            first <= Derived(c.bucket, c.late.n, c.schedule).schedule

RevisitedWhenAligned ==
    pc = "running" /\ config.aggregate => (Aligned => DelayedWritesRevisited)

=============================================================================
