-------------------------- MODULE Timescale_proofs --------------------------
(***************************************************************************)
(* Proofs about three components of src/timescaledb: DataLifecycle,        *)
(* StorageSetup and FrameQuery, one part each.                             *)
(***************************************************************************)
EXTENDS DataLifecycle, StorageSetup, FrameQuery, SequenceTheorems, TLAPS

-----------------------------------------------------------------------------
(***************************************************************************)
(* DataLifecycle, for every set of configurations, every width of a        *)
(* Duration, every calendar that CalendarAssumption describes.             *)
(*                                                                         *)
(* What makes the action properties hold is kept by LifecycleInv: what was *)
(* converted or dropped ended before a boundary that only moves forward,   *)
(* and the deployment that runs is one ValidateLifecycle accepted.  That   *)
(* delayed writes are revisited rests on RevisitInv: the job is on time.   *)
(***************************************************************************)

(* The start offset that ValidateLifecycle was given.                      *)
Start == IF config.aggregate THEN FixedInterval(policy.start) ELSE Open

Accepted ==
    pc = "running" =>
        /\ config.aggregate => config.late.kind # "months"
        /\ ~LifecycleError(config, Start) /\ ValidateLifecycle(config, Start) = {}

Quiet == pc # "running" => inserted = {} /\ columnstore = {}

ConvertedOld ==
    \A e \in columnstore :
        ~IsOpenEnded(config.columnstore) /\ e <= Back(now, config.columnstore)

DroppedOld ==
    \A t \in inserted \ rows :
        ~IsOpenEnded(config.retention) /\ ChunkEnd(t) <= Back(now, config.retention)

LifecycleInv ==
    TypeOK /\ PlanIsExact /\ Accepted /\ Quiet /\ ConvertedOld /\ DroppedOld

-----------------------------------------------------------------------------
(* Time.                                                                   *)

LEMMA ModRange ==
    ASSUME NEW t \in Int, NEW w \in Nat \ {0}
    PROVE  t % w \in Int /\ 0 <= t % w /\ t % w < w
OBVIOUS

LEMMA Division ==
    ASSUME NEW a \in Int, NEW w \in Nat \ {0}
    PROVE  a \div w \in Int /\ a = w * (a \div w) + (a % w)
OBVIOUS

LEMMA MultipleDivides ==
    ASSUME NEW k \in Int, NEW w \in Nat \ {0}
    PROVE  (w * k) % w = 0
<1>1. PICK a \in Int : a = w * k
  OBVIOUS
<1> DEFINE q == a \div w
           r == a % w
<1>2. q \in Int /\ a = w * q + r
  BY Division
<1>3. r \in Int /\ 0 <= r /\ r < w
  BY ModRange
<1> HIDE DEF q, r
<1>4. r = w * (k - q)
  <2>1. w * (k - q) = w * k - w * q /\ w * k \in Int /\ w * q \in Int
    BY <1>2
  <2> QED
    BY <1>1, <1>2, <1>3, <2>1
<1>5. (k - q > 0 => w * (k - q) >= w) /\ (k - q < 0 => w * (k - q) < 0)
  BY <1>2
<1>6. k - q = 0
  BY <1>2, <1>3, <1>4, <1>5
<1>7. r = 0
  BY <1>2, <1>4, <1>6
<1> QED
  BY <1>1, <1>7 DEF r

LEMMA SumDivides ==
    ASSUME NEW a \in Int, NEW b \in Int, NEW w \in Nat \ {0}, a % w = 0, b % w = 0
    PROVE  (a + b) % w = 0
<1> DEFINE q == a \div w
           r == b \div w
<1>1. a = w * q /\ b = w * r /\ q \in Int /\ r \in Int
  BY Division
<1> HIDE DEF q, r
<1>2. a + b = w * (q + r) /\ q + r \in Int
  BY <1>1
<1>3. (w * (q + r)) % w = 0
  BY <1>2, MultipleDivides
<1> QED
  BY <1>2, <1>3

(* A chunk ends after every time it holds.                                 *)
LEMMA ChunkEndsLater ==
    ASSUME NEW t \in Nat
    PROVE  ChunkEnd(t) \in Nat /\ t < ChunkEnd(t)
<1>1. ChunkWidth \in Nat \ {0}
  BY UnitsAssumption, WidthAssumption
<1>2. t % ChunkWidth \in Int /\ 0 <= t % ChunkWidth /\ t % ChunkWidth < ChunkWidth
  BY <1>1, ModRange
<1> QED
  BY <1>1, <1>2 DEF ChunkEnd

(* An interval that passes Interval.Validate, its months counted by the    *)
(* calendar of the assumption.                                             *)
Sound(i) == i \in Interval /\ (IsOpenEnded(i) \/ Validate(i)) /\ (i.kind = "months" => i.n <= MaxMonths)

LEMMA SoundKinds ==
    ASSUME NEW i, Sound(i)
    PROVE  /\ i.n \in Int /\ i.n >= 0
           /\ i.kind = "open" => i.n = 0
           /\ i.kind = "months" => i.n \in 1..MaxMonths
<1>1. MaxMonths \in Nat
  BY TimeAssumption
<1> QED
  BY <1>1 DEF Sound, Interval, Open, Validate, IsOpenEnded

(* The boundary an interval before the present only moves forward.         *)
LEMMA BoundaryAdvances ==
    ASSUME NEW i, Sound(i), NEW t \in 0..MaxTime, NEW u \in 0..MaxTime, t <= u
    PROVE  Back(t, i) \in Int /\ Back(u, i) \in Int /\ Back(t, i) <= Back(u, i)
<1>1. MaxTime \in Nat
  BY TimeAssumption
<1>2. CASE i.kind = "months"
  <2>1. i.n \in 1..MaxMonths /\ i.n <= i.n
    BY <1>2, SoundKinds, TimeAssumption
  <2> QED
    BY <1>2, <2>1, CalendarAssumption DEF Back
<1>3. CASE i.kind # "months"
  BY <1>1, <1>3, SoundKinds DEF Back
<1> QED
  BY <1>2, <1>3

(* The longer of two comparable intervals reaches further back.            *)
LEMMA LongerReachesFurther ==
    ASSUME NEW i, NEW j, Sound(i), Sound(j), i.kind = j.kind, i.n <= j.n,
           NEW t \in 0..MaxTime
    PROVE  Back(t, j) <= Back(t, i)
<1>1. MaxTime \in Nat /\ t <= t
  BY TimeAssumption
<1>2. CASE i.kind = "months"
  <2>1. i.n \in 1..MaxMonths /\ j.n \in 1..MaxMonths
    BY <1>2, SoundKinds
  <2> QED
    BY <1>2, <2>1, CalendarAssumption DEF Back
<1>3. CASE i.kind # "months"
  BY <1>1, <1>3, SoundKinds DEF Back
<1> QED
  BY <1>2, <1>3

-----------------------------------------------------------------------------
(* What the checks of PlanRefreshPolicy and ValidateLifecycle establish.   *)

LEMMA PlanCorrect ==
    ASSUME NEW c \in Configs
    PROVE  LET bucket == c.bucket
               late == c.late.n
               p == PlanRefreshPolicy(bucket, late, c.schedule)
               start == IF 2 * bucket > late + bucket THEN 2 * bucket ELSE late + bucket
           IN /\ p \in [start : 0..MaxInt, end : 0..MaxInt, schedule : 0..MaxInt]
              /\ IF ValidArguments(bucket, late, c.schedule) /\ start <= MaxInt
                 THEN /\ p.start = start /\ p.end = bucket
                      /\ p.start > p.end /\ Validate(FixedInterval(p.start))
                      /\ Validate(FixedInterval(p.schedule))
                 ELSE p = NoPolicy
<1> DEFINE b == c.bucket
           l == c.late.n
           s == c.schedule
           p == PlanRefreshPolicy(b, l, s)
           start == IF 2 * b > l + b THEN 2 * b ELSE l + b
<1>1. /\ MaxInt \in Nat /\ Micro \in Nat \ {0}
      /\ b \in (-MaxInt - 1)..MaxInt /\ l \in (-MaxInt - 1)..MaxInt /\ s \in (-MaxInt - 1)..MaxInt
  BY ConfigsAssumption, UnitsAssumption, WidthAssumption
<1> HIDE DEF b, l, s
<1>2. ASSUME ValidArguments(b, l, s)
      PROVE  /\ b > 0 /\ b % Micro = 0 /\ l >= 0 /\ l % Micro = 0
             /\ s = 0 \/ (s > 0 /\ s % Micro = 0)
  BY <1>2 DEF ValidArguments, ValidDuration, Validate, FixedInterval
<1>3. CASE ValidArguments(b, l, s) /\ start <= MaxInt
  <2>1. 2 * b <= MaxInt /\ l + b <= MaxInt
    BY <1>1, <1>3
  <2>2. b <= MaxInt \div 2 /\ l <= MaxInt - b
    BY <1>1, <2>1
  <2>3. Wrap(l + b) = l + b /\ Wrap(2 * b) = 2 * b
    BY <1>1, <1>2, <1>3, <2>1 DEF Wrap
  <2>4. p = [start |-> start, end |-> b, schedule |-> IF s = 0 THEN b ELSE s]
    BY <1>3, <2>2, <2>3 DEF PlanRefreshPolicy, Derived
  <2>5. start \in 0..MaxInt /\ start > b /\ b \in 0..MaxInt /\ s \in 0..MaxInt
    <3>1. 2 * b > b
      BY <1>1, <1>2, <1>3
    <3> QED
      BY <1>1, <1>2, <1>3, <2>1, <3>1
  <2>6. start % Micro = 0
    <3>1. (2 * b) % Micro = 0 /\ (l + b) % Micro = 0
      <4>1. b \in Int /\ l \in Int /\ 2 * b = b + b
        BY <1>1
      <4>2. b % Micro = 0 /\ l % Micro = 0 /\ Micro \in Nat \ {0}
        BY <1>1, <1>2, <1>3
      <4>3. (b + b) % Micro = 0
        BY <4>1, <4>2, SumDivides
      <4>4. (l + b) % Micro = 0
        BY <4>1, <4>2, SumDivides
      <4> QED
        BY <4>1, <4>3, <4>4
    <3> QED
      BY <3>1
  <2>7. Validate(FixedInterval(p.start)) /\ Validate(FixedInterval(p.schedule))
    BY <1>1, <1>2, <1>3, <2>4, <2>5, <2>6 DEF Validate, FixedInterval
  <2> QED
    BY <1>3, <2>4, <2>5, <2>7 DEF b, l, s
<1>4. CASE ~(ValidArguments(b, l, s) /\ start <= MaxInt)
  <2>1. p = NoPolicy
    <3>1. CASE ~ValidArguments(b, l, s)
      BY <3>1 DEF PlanRefreshPolicy
    <3>2. CASE ValidArguments(b, l, s) /\ start > MaxInt
      <4>1. ~(b <= MaxInt \div 2 /\ l <= MaxInt - b)
        BY <1>1, <3>2
      <4> QED
        BY <4>1 DEF PlanRefreshPolicy
    <3> QED
      BY <1>1, <1>4, <3>1, <3>2
  <2> QED
    BY <1>1, <1>4, <2>1 DEF NoPolicy, b, l, s
<1> QED
  BY <1>3, <1>4

(* The order of the intervals of a deployment that runs, with the orders   *)
(* ValidateLifecycle does not check but that follow.                       *)
LEMMA RunningOrder ==
    ASSUME LifecycleInv, pc = "running"
    PROVE  /\ Sound(config.late) /\ Sound(config.columnstore)
           /\ Sound(config.retention) /\ Sound(config.backfill)
           /\ Present(config.columnstore, config.late) =>
                  config.late.kind = config.columnstore.kind /\ config.late.n <= config.columnstore.n
           /\ Present(config.columnstore, config.retention) =>
                  config.columnstore.kind = config.retention.kind /\ config.columnstore.n <= config.retention.n
           /\ Present(config.backfill, config.retention) =>
                  config.backfill.kind = config.retention.kind /\ config.backfill.n <= config.retention.n
           /\ config.aggregate /\ ~IsOpenEnded(config.retention) =>
                  config.retention.kind = "fixed" /\ policy.start <= config.retention.n
           /\ config.aggregate =>
                  /\ config.bucket \in Nat \ {0} /\ config.late.kind # "months"
                  /\ config.late.n <= policy.start
<1>1. /\ config \in Config /\ policy.start \in 0..MaxInt /\ MaxInt \in Nat
      /\ {config.bucket, config.schedule, config.late.n} \subseteq (-MaxInt - 1)..MaxInt
      /\ \A i \in {config.late, config.columnstore, config.retention, config.backfill} :
            i.kind = "months" => i.n <= MaxMonths
  BY ConfigsAssumption, UnitsAssumption, WidthAssumption DEF LifecycleInv, TypeOK
<1>2. \A i \in {config.late, config.columnstore, config.retention, config.backfill} : Sound(i)
  <2>1. \A i \in {config.late, config.columnstore, config.retention, config.backfill} :
            IsOpenEnded(i) \/ Validate(i)
    BY DEF LifecycleInv, Accepted, LifecycleError, Boundaries
  <2> QED
    BY <1>1, <2>1 DEF Sound, Config
<1>3. /\ Comparable(config.columnstore, config.late) /\ Comparable(config.columnstore, config.retention)
      /\ Comparable(Start, config.retention) /\ Comparable(config.backfill, config.retention)
  BY DEF LifecycleInv, Accepted, LifecycleError
<1>4. \A code \in Codes : ~Unsafe(config, Start, code)
  BY DEF LifecycleInv, Accepted, ValidateLifecycle
<1>5. /\ ~(Present(config.columnstore, config.late) /\ config.columnstore.n <= config.late.n)
      /\ ~(Present(config.columnstore, config.retention) /\ config.columnstore.n >= config.retention.n)
      /\ ~(Present(Start, config.retention) /\ Start.n > config.retention.n)
      /\ ~(Present(config.backfill, config.retention) /\ config.backfill.n > config.retention.n)
  <2>1. /\ ~Unsafe(config, Start, "columnstore_before_late_arrival")
        /\ ~Unsafe(config, Start, "columnstore_after_retention")
        /\ ~Unsafe(config, Start, "refresh_beyond_retention")
        /\ ~Unsafe(config, Start, "backfill_beyond_retention")
    BY <1>4 DEF Codes
  <2> QED
    BY <2>1 DEF Unsafe
<1>6. \A i \in {config.late, config.columnstore, config.retention, config.backfill} : i.n \in Int
  BY <1>2, SoundKinds
<1>7. ASSUME config.aggregate
      PROVE  /\ ~IsOpenEnded(config.retention) =>
                    config.retention.kind = "fixed" /\ policy.start <= config.retention.n
             /\ config.bucket \in Nat \ {0} /\ config.late.kind # "months"
             /\ config.late.n <= policy.start
  <2>1. Start = FixedInterval(policy.start) /\ config.late.kind # "months"
    BY <1>7 DEF Start, LifecycleInv, Accepted
  <2>2. ~IsOpenEnded(Start) /\ Start.kind = "fixed" /\ Start.n = policy.start
    BY <2>1 DEF IsOpenEnded, FixedInterval
  <2>3. policy.start > 0
    BY <2>2 DEF LifecycleInv, Accepted, LifecycleError, Boundaries, Validate
  <2>4. ValidArguments(config.bucket, config.late.n, config.schedule)
    BY <1>7, <2>1, <2>3 DEF LifecycleInv, PlanIsExact, NoPolicy
  <2>5. policy.start >= config.late.n + config.bucket
    BY <1>1, <1>7, <2>1, <2>3 DEF LifecycleInv, PlanIsExact, NoPolicy
  <2>6. config.bucket > 0
    BY <2>4 DEF ValidArguments, ValidDuration, Validate, FixedInterval
  <2>7. ~IsOpenEnded(config.retention) =>
            config.retention.kind = "fixed" /\ policy.start <= config.retention.n
    BY <1>1, <1>3, <1>5, <1>6, <2>2 DEF Comparable, Present
  <2> QED
    BY <1>1, <2>1, <2>5, <2>6, <2>7
<1> QED
  BY <1>2, <1>3, <1>5, <1>6, <1>7 DEF Comparable, Present

LEMMA InitEstablishes == Init => LifecycleInv
<1> SUFFICES ASSUME Init PROVE LifecycleInv
  OBVIOUS
<1>1. TypeOK
  BY UnitsAssumption, WidthAssumption, TimeAssumption DEF Init, TypeOK, NoPolicy, Times
<1> QED
  BY <1>1 DEF Init, LifecycleInv, PlanIsExact, Accepted, Quiet, ConvertedOld, DroppedOld

LEMMA DeployPreserves ==
    ASSUME LifecycleInv, Deploy
    PROVE  LifecycleInv'
<1> DEFINE p == PlanRefreshPolicy(config.bucket, config.late.n, config.schedule)
           planned == config.aggregate /\ config.late.kind # "months"
<1>1. /\ policy' = IF planned THEN p ELSE NoPolicy
      /\ pc = "plan" /\ pc' \in {"refused", "running"}
      /\ UNCHANGED <<config, now, nextRefresh, rows, inserted, aggregated, columnstore>>
  BY DEF Deploy, data
<1>2. /\ config \in Configs /\ NoPolicy \in [start : 0..MaxInt, end : 0..MaxInt, schedule : 0..MaxInt]
      /\ p \in [start : 0..MaxInt, end : 0..MaxInt, schedule : 0..MaxInt]
  <2>1. NoPolicy \in [start : 0..MaxInt, end : 0..MaxInt, schedule : 0..MaxInt]
    BY UnitsAssumption, WidthAssumption DEF NoPolicy
  <2>2. config \in Configs
    BY DEF LifecycleInv, TypeOK
  <2> QED
    BY <2>1, <2>2, PlanCorrect
<1>3. TypeOK'
  BY <1>1, <1>2 DEF LifecycleInv, TypeOK
<1>4. PlanIsExact'
  <2>1. CASE planned
    BY <1>1, <1>2, <2>1, PlanCorrect DEF PlanIsExact
  <2>2. CASE ~planned
    BY <1>1, <2>2 DEF PlanIsExact
  <2> QED
    BY <2>1, <2>2
<1>5. Accepted'
  <2>1. SUFFICES ASSUME pc' = "running"
                 PROVE  /\ config.aggregate => config.late.kind # "months"
                        /\ ~LifecycleError(config, Start') /\ ValidateLifecycle(config, Start') = {}
    BY <1>1 DEF Accepted
  <2>2. Start' = IF config.aggregate THEN FixedInterval(policy'.start) ELSE Open
    BY <1>1 DEF Start
  <2>3. config.aggregate => policy' # NoPolicy
    BY <1>1, <2>1 DEF Deploy
  <2>4. ~LifecycleError(config, Start') /\ ValidateLifecycle(config, Start') = {}
    BY <1>1, <2>1, <2>2 DEF Deploy
  <2> QED
    BY <1>1, <2>3, <2>4
<1>6. Quiet' /\ ConvertedOld' /\ DroppedOld'
  BY <1>1 DEF LifecycleInv, Quiet, ConvertedOld, DroppedOld, Back, ChunkEnd
<1> QED
  BY <1>3, <1>4, <1>5, <1>6 DEF LifecycleInv

LEMMA TickPreserves ==
    ASSUME LifecycleInv, Tick
    PROVE  LifecycleInv'
<1>1. /\ pc = "running" /\ now \in 0..MaxTime /\ now' \in 0..MaxTime /\ now <= now'
      /\ UNCHANGED <<config, policy, pc, nextRefresh, rows, inserted, aggregated, columnstore>>
  BY UnitsAssumption, WidthAssumption, TimeAssumption DEF Tick, LifecycleInv, TypeOK, data
<1>2. TypeOK' /\ PlanIsExact' /\ Accepted' /\ Quiet'
  BY <1>1 DEF LifecycleInv, TypeOK, PlanIsExact, Accepted, Quiet, Start
<1>3. ConvertedOld'
  <2>1. Sound(config.columnstore)
    BY <1>1, RunningOrder
  <2>2. /\ Back(now, config.columnstore) \in Int /\ Back(now', config.columnstore) \in Int
        /\ Back(now, config.columnstore) <= Back(now', config.columnstore)
    BY <1>1, <2>1, BoundaryAdvances
  <2>3. columnstore \subseteq Nat
    BY DEF LifecycleInv, TypeOK
  <2> QED
    BY <1>1, <2>2, <2>3 DEF LifecycleInv, ConvertedOld
<1>4. DroppedOld'
  <2>1. Sound(config.retention)
    BY <1>1, RunningOrder
  <2>2. /\ Back(now, config.retention) \in Int /\ Back(now', config.retention) \in Int
        /\ Back(now, config.retention) <= Back(now', config.retention)
    BY <1>1, <2>1, BoundaryAdvances
  <2>3. \A t \in inserted : ChunkEnd(t) \in Nat
    BY TimeAssumption, ChunkEndsLater DEF LifecycleInv, TypeOK, Times
  <2> QED
    BY <1>1, <2>2, <2>3 DEF LifecycleInv, DroppedOld, ChunkEnd
<1> QED
  BY <1>2, <1>3, <1>4 DEF LifecycleInv

LEMMA InsertPreserves ==
    ASSUME LifecycleInv, Insert
    PROVE  LifecycleInv'
<1>1. PICK t \in Times : rows' = rows \cup {t} /\ inserted' = inserted \cup {t}
  BY DEF Insert
<1>2. pc = "running" /\ UNCHANGED <<config, policy, pc, now, nextRefresh, aggregated, columnstore>>
  BY DEF Insert
<1>3. TypeOK' /\ PlanIsExact' /\ Accepted' /\ Quiet'
  BY <1>1, <1>2 DEF LifecycleInv, TypeOK, PlanIsExact, Accepted, Quiet, Start
<1>4. ConvertedOld' /\ DroppedOld'
  BY <1>1, <1>2 DEF LifecycleInv, ConvertedOld, DroppedOld, Back, ChunkEnd
<1> QED
  BY <1>3, <1>4 DEF LifecycleInv

(* A refresh by the job or by hand: the bounds of its window.              *)
LEMMA RefreshWindows ==
    ASSUME LifecycleInv, Refresh \/ \E from, to \in Times : RefreshContinuousAggregate(from, to)
    PROVE  /\ pc = "running" /\ config.aggregate /\ nextRefresh' \in Nat
           /\ \E from, to \in Int :
                /\ Materialize(from, to)
                /\ ~IsOpenEnded(config.retention) => Back(now, config.retention) <= from
<1>1. /\ now \in 0..MaxTime /\ MaxTime \in Nat /\ nextRefresh \in Nat /\ Times \subseteq Int
      /\ policy.start \in Nat /\ policy.end \in Nat /\ policy.schedule \in Nat
  BY UnitsAssumption, WidthAssumption, TimeAssumption DEF LifecycleInv, TypeOK, Times
<1>2. CASE Refresh
  <2>1. /\ pc = "running" /\ config.aggregate /\ nextRefresh' \in Nat
        /\ Materialize(now - policy.start, now - policy.end)
    BY <1>1, <1>2 DEF Refresh
  <2>2. ~IsOpenEnded(config.retention) => Back(now, config.retention) <= now - policy.start
    BY <1>1, <2>1, RunningOrder, SoundKinds DEF Back
  <2>3. now - policy.start \in Int /\ now - policy.end \in Int
    BY <1>1
  <2> QED
    BY <2>1, <2>2, <2>3
<1>3. CASE \E from, to \in Times : RefreshContinuousAggregate(from, to)
  <2>1. PICK from \in Times, to \in Times : RefreshContinuousAggregate(from, to)
    BY <1>3
  <2>2. /\ pc = "running" /\ config.aggregate /\ nextRefresh' \in Nat
        /\ ~IsOpenEnded(config.backfill) /\ Back(now, config.backfill) <= from
        /\ Materialize(from, to)
    BY <1>1, <2>1 DEF RefreshContinuousAggregate
  <2>3. ASSUME ~IsOpenEnded(config.retention)
        PROVE  Back(now, config.retention) <= from
    <3>1. Present(config.backfill, config.retention)
      BY <2>2, <2>3 DEF Present
    <3>2. /\ Sound(config.backfill) /\ Sound(config.retention)
          /\ config.backfill.kind = config.retention.kind /\ config.backfill.n <= config.retention.n
      BY <2>2, <3>1, RunningOrder
    <3>3. Back(now, config.retention) <= Back(now, config.backfill)
      BY <1>1, <3>2, LongerReachesFurther
    <3>4. Back(now, config.retention) \in Int /\ Back(now, config.backfill) \in Int
      BY <1>1, <3>2, BoundaryAdvances
    <3> QED
      BY <1>1, <2>2, <3>3, <3>4
  <2> QED
    BY <1>1, <2>2, <2>3
<1> QED
  BY <1>2, <1>3

LEMMA MaterializePreserves ==
    ASSUME LifecycleInv, Refresh \/ \E from, to \in Times : RefreshContinuousAggregate(from, to)
    PROVE  LifecycleInv'
<1>1. PICK from \in Int, to \in Int : Materialize(from, to)
  BY RefreshWindows
<1>2. nextRefresh' \in Nat /\ UNCHANGED <<config, policy, pc, now, rows, inserted, columnstore>>
  BY <1>1, RefreshWindows DEF Materialize
<1>3. aggregated' \subseteq aggregated \cup rows
  BY <1>1 DEF Materialize
<1>4. TypeOK' /\ PlanIsExact' /\ Accepted' /\ Quiet'
  BY <1>2, <1>3 DEF LifecycleInv, TypeOK, PlanIsExact, Accepted, Quiet, Start
<1>5. ConvertedOld' /\ DroppedOld'
  BY <1>2 DEF LifecycleInv, ConvertedOld, DroppedOld, Back, ChunkEnd
<1> QED
  BY <1>4, <1>5 DEF LifecycleInv

LEMMA DropPreserves ==
    ASSUME LifecycleInv, DropChunks
    PROVE  LifecycleInv'
<1>1. /\ pc = "running" /\ ~IsOpenEnded(config.retention)
      /\ rows' = {t \in rows : ChunkEnd(t) > Back(now, config.retention)}
      /\ columnstore' \subseteq columnstore
      /\ UNCHANGED <<config, policy, pc, now, nextRefresh, inserted, aggregated>>
  BY DEF DropChunks
<1>2. TypeOK' /\ PlanIsExact' /\ Accepted' /\ Quiet'
  BY <1>1 DEF LifecycleInv, TypeOK, PlanIsExact, Accepted, Quiet, Start
<1>3. ConvertedOld'
  BY <1>1 DEF LifecycleInv, ConvertedOld, Back
<1>4. DroppedOld'
  <2>1. SUFFICES ASSUME NEW t \in inserted, t \notin rows'
                 PROVE  ChunkEnd(t) <= Back(now, config.retention)
    BY <1>1 DEF DroppedOld, Back, ChunkEnd
  <2>2. now \in 0..MaxTime /\ now <= now /\ Sound(config.retention)
    BY <1>1, RunningOrder, TimeAssumption DEF LifecycleInv, TypeOK
  <2>3. Back(now, config.retention) \in Int
    BY <2>2, BoundaryAdvances
  <2>4. ChunkEnd(t) \in Nat
    BY TimeAssumption, ChunkEndsLater DEF LifecycleInv, TypeOK, Times
  <2> QED
    BY <1>1, <2>1, <2>3, <2>4 DEF LifecycleInv, DroppedOld
<1> QED
  BY <1>2, <1>3, <1>4 DEF LifecycleInv

LEMMA ConvertPreserves ==
    ASSUME LifecycleInv, Convert
    PROVE  LifecycleInv'
<1>1. /\ pc = "running" /\ ~IsOpenEnded(config.columnstore)
      /\ UNCHANGED <<config, policy, pc, now, nextRefresh, rows, inserted, aggregated>>
  BY DEF Convert
<1>2. \A e \in columnstore' :
         \/ e \in columnstore
         \/ \E t \in rows : e = ChunkEnd(t) /\ e <= Back(now, config.columnstore)
  BY DEF Convert
<1>3. \A t \in rows : ChunkEnd(t) \in Nat
  BY TimeAssumption, ChunkEndsLater DEF LifecycleInv, TypeOK, Times
<1>4. TypeOK' /\ PlanIsExact' /\ Accepted' /\ Quiet'
  BY <1>1, <1>2, <1>3 DEF LifecycleInv, TypeOK, PlanIsExact, Accepted, Quiet, Start
<1>5. ConvertedOld' /\ DroppedOld'
  BY <1>1, <1>2 DEF LifecycleInv, ConvertedOld, DroppedOld, Back, ChunkEnd
<1> QED
  BY <1>4, <1>5 DEF LifecycleInv

LEMMA StutterPreserves ==
    ASSUME LifecycleInv, UNCHANGED vars
    PROVE  LifecycleInv'
BY DEF LifecycleInv, TypeOK, PlanIsExact, Accepted, Quiet, ConvertedOld, DroppedOld,
       Start, Back, ChunkEnd, vars, data

LEMMA NextPreserves == LifecycleInv /\ [Next]_vars => LifecycleInv'
<1> SUFFICES ASSUME LifecycleInv, [Next]_vars PROVE LifecycleInv'
  OBVIOUS
<1>1. CASE Deploy
  BY <1>1, DeployPreserves
<1>2. CASE Tick
  BY <1>2, TickPreserves
<1>3. CASE Insert
  BY <1>3, InsertPreserves
<1>4. CASE Refresh \/ \E from, to \in Times : RefreshContinuousAggregate(from, to)
  BY <1>4, MaterializePreserves
<1>5. CASE DropChunks
  BY <1>5, DropPreserves
<1>6. CASE Convert
  BY <1>6, ConvertPreserves
<1>7. CASE UNCHANGED vars
  BY <1>7, StutterPreserves
<1> QED
  BY <1>1, <1>2, <1>3, <1>4, <1>5, <1>6, <1>7 DEF Next

LEMMA Invariance == Spec => []LifecycleInv
BY InitEstablishes, NextPreserves, PTL DEF Spec

-----------------------------------------------------------------------------
(* Theorems.                                                               *)

(* No arithmetic of PlanRefreshPolicy leaves the range of a Duration, and  *)
(* the data of a deployment stays consistent (TypeOK).                     *)
THEOREM TypeCorrect == Spec => []TypeOK
<1>1. LifecycleInv => TypeOK
  BY DEF LifecycleInv
<1> QED
  BY <1>1, Invariance, PTL

(* PlanRefreshPolicy (refresh.go:96-134) returns the documented window when *)
(* a Duration can hold it, and an error in every other case.               *)
THEOREM PlanExact == Spec => []PlanIsExact
<1>1. LifecycleInv => PlanIsExact
  BY DEF LifecycleInv
<1> QED
  BY <1>1, Invariance, PTL

LEMMA RefreshKeepsHistory == LifecycleInv /\ [Next]_vars => aggregated \subseteq aggregated'
<1> SUFFICES ASSUME LifecycleInv, [Next]_vars PROVE aggregated \subseteq aggregated'
  OBVIOUS
<1>1. CASE Refresh \/ \E from, to \in Times : RefreshContinuousAggregate(from, to)
  <2>1. PICK from \in Int, to \in Int :
            /\ Materialize(from, to)
            /\ ~IsOpenEnded(config.retention) => Back(now, config.retention) <= from
    BY <1>1, RefreshWindows
  <2>2. pc = "running" /\ config.aggregate
    BY <1>1, RefreshWindows
  <2>3. SUFFICES ASSUME NEW t \in aggregated, Inside(t, from, to) PROVE t \in rows
    BY <2>1 DEF Materialize
  <2>4. SUFFICES ASSUME t \notin rows PROVE FALSE
    OBVIOUS
  <2>5. t \in Nat /\ t \in inserted /\ now \in 0..MaxTime /\ now <= now
    BY TimeAssumption DEF LifecycleInv, TypeOK, Times
  <2>6. ~IsOpenEnded(config.retention) /\ ChunkEnd(t) <= Back(now, config.retention)
    BY <2>4, <2>5 DEF LifecycleInv, DroppedOld
  <2>7. Sound(config.retention) /\ config.bucket \in Nat \ {0}
    BY <2>2, RunningOrder
  <2>8. Back(now, config.retention) \in Int
    BY <2>5, <2>7, BoundaryAdvances
  <2>9. t % config.bucket \in Int /\ 0 <= t % config.bucket
    BY <2>5, <2>7, ModRange
  <2>10. from <= t
    BY <2>1, <2>3, <2>5, <2>9 DEF Inside, BucketStart
  <2>11. ChunkEnd(t) \in Nat /\ t < ChunkEnd(t)
    BY <2>5, ChunkEndsLater
  <2> QED
    BY <2>1, <2>5, <2>6, <2>8, <2>10, <2>11
<1>2. CASE Deploy \/ Tick \/ Insert \/ DropChunks \/ Convert \/ UNCHANGED vars
  BY <1>2 DEF Deploy, Tick, Insert, DropChunks, Convert, vars, data
<1> QED
  BY <1>1, <1>2 DEF Next

(* No refresh of a lifecycle that ValidateLifecycle accepts loses history  *)
(* that the aggregate has kept of dropped chunks.                          *)
THEOREM HistoryIsKept == Spec => HistoryKept
BY Invariance, RefreshKeepsHistory, PTL DEF Spec, HistoryKept

(* A boundary is never in the future.                                      *)
LEMMA BoundaryIsPast ==
    ASSUME NEW i, Sound(i), NEW t \in 0..MaxTime
    PROVE  Back(t, i) \in Int /\ Back(t, i) <= t
<1>1. MaxTime \in Nat /\ t <= t
  BY TimeAssumption
<1>2. CASE i.kind = "months"
  BY <1>1, <1>2, SoundKinds, CalendarAssumption DEF Back
<1>3. CASE i.kind # "months"
  BY <1>1, <1>3, SoundKinds DEF Back
<1> QED
  BY <1>2, <1>3

LEMMA InsertsAvoidColumnstore ==
    LifecycleInv /\ [Next]_vars => \A t \in rows' \ rows : ChunkEnd(t) \notin columnstore
<1> SUFFICES ASSUME LifecycleInv, [Next]_vars, NEW t \in rows' \ rows, ChunkEnd(t) \in columnstore
             PROVE  FALSE
  OBVIOUS
<1>1. CASE Insert
  <2>1. pc = "running" /\ t \in Times /\ Back(now, config.late) <= t
    BY <1>1 DEF Insert
  <2>2. now \in 0..MaxTime /\ MaxTime \in Nat
    BY TimeAssumption DEF LifecycleInv, TypeOK
  <2>3. ~IsOpenEnded(config.columnstore) /\ ChunkEnd(t) <= Back(now, config.columnstore)
    BY DEF LifecycleInv, ConvertedOld
  <2>4. Sound(config.late) /\ Sound(config.columnstore)
    BY <2>1, RunningOrder
  <2>5. /\ Back(now, config.late) \in Int
        /\ Back(now, config.columnstore) \in Int /\ Back(now, config.columnstore) <= now
    BY <2>2, <2>4, BoundaryIsPast
  <2>6. Back(now, config.columnstore) <= Back(now, config.late)
    <3>1. CASE IsOpenEnded(config.late)
      <4>1. Back(now, config.late) = now
        BY <2>2, <2>4, <3>1, SoundKinds DEF Back, IsOpenEnded
      <4> QED
        BY <2>5, <4>1
    <3>2. CASE ~IsOpenEnded(config.late)
      <4>1. config.late.kind = config.columnstore.kind /\ config.late.n <= config.columnstore.n
        BY <2>1, <2>3, <3>2, RunningOrder DEF Present
      <4> QED
        BY <2>2, <2>4, <4>1, LongerReachesFurther
    <3> QED
      BY <3>1, <3>2
  <2>7. t \in Nat
    BY <2>1, TimeAssumption DEF Times
  <2>8. ChunkEnd(t) \in Nat /\ t < ChunkEnd(t)
    BY <2>7, ChunkEndsLater
  <2> QED
    BY <2>1, <2>3, <2>5, <2>6, <2>7, <2>8
<1>2. CASE \/ Deploy \/ Tick \/ Refresh \/ DropChunks \/ Convert \/ UNCHANGED vars
           \/ \E from, to \in Times : RefreshContinuousAggregate(from, to)
  BY <1>2 DEF Deploy, Tick, Refresh, RefreshContinuousAggregate, Materialize, DropChunks, Convert, vars, data
<1> QED
  BY <1>1, <1>2 DEF Next

(* Rows that are not later than declared find their chunk in the rowstore, *)
(* by the comparison of ColumnstoreBeforeLateArrival (lifecycle.go:72-79). *)
THEOREM WritesAvoidColumnstore == Spec => NoWriteToColumnstore
BY Invariance, InsertsAvoidColumnstore, PTL DEF Spec, NoWriteToColumnstore

LEMMA DropsAreClosed ==
    LifecycleInv /\ [Next]_vars =>
        (~IsOpenEnded(config.late) /\ (~IsOpenEnded(config.columnstore) \/ config.aggregate) =>
            \A t \in rows \ rows' : t < Back(now, config.late))
<1> SUFFICES ASSUME LifecycleInv, [Next]_vars, NEW t \in rows \ rows',
                    ~IsOpenEnded(config.late), ~IsOpenEnded(config.columnstore) \/ config.aggregate
             PROVE  t < Back(now, config.late)
  OBVIOUS
<1>1. CASE DropChunks
  <2>1. pc = "running" /\ ~IsOpenEnded(config.retention) /\ ~(ChunkEnd(t) > Back(now, config.retention))
    BY <1>1 DEF DropChunks
  <2>2. now \in 0..MaxTime /\ t \in Nat
    BY TimeAssumption DEF LifecycleInv, TypeOK, Times
  <2>3. Sound(config.late) /\ Sound(config.columnstore) /\ Sound(config.retention)
    BY <2>1, RunningOrder
  <2>4. Back(now, config.late) \in Int /\ Back(now, config.retention) \in Int
    BY <2>2, <2>3, BoundaryIsPast
  <2>5. config.late.n \in Int /\ config.columnstore.n \in Int /\ config.retention.n \in Int
    BY <2>3, SoundKinds
  <2>6. config.late.kind = config.retention.kind /\ config.late.n <= config.retention.n
    <3>1. CASE ~IsOpenEnded(config.columnstore)
      <4>1. /\ config.late.kind = config.columnstore.kind /\ config.late.n <= config.columnstore.n
            /\ config.columnstore.kind = config.retention.kind /\ config.columnstore.n <= config.retention.n
        BY <2>1, <3>1, RunningOrder DEF Present
      <4> QED
        BY <2>5, <4>1
    <3>2. CASE config.aggregate
      <4>1. /\ config.retention.kind = "fixed" /\ policy.start <= config.retention.n
            /\ config.late.kind # "months" /\ config.late.n <= policy.start
        BY <2>1, <3>2, RunningOrder
      <4>2. config.late.kind = "fixed"
        BY <2>3, <4>1 DEF Sound, Interval, Open, IsOpenEnded
      <4>3. policy.start \in Int
        BY UnitsAssumption, WidthAssumption DEF LifecycleInv, TypeOK
      <4> QED
        BY <2>5, <4>1, <4>2, <4>3
    <3> QED
      BY <3>1, <3>2
  <2>7. Back(now, config.retention) <= Back(now, config.late)
    BY <2>2, <2>3, <2>6, LongerReachesFurther
  <2>8. ChunkEnd(t) \in Nat /\ t < ChunkEnd(t)
    BY <2>2, ChunkEndsLater
  <2> QED
    BY <2>1, <2>2, <2>4, <2>7, <2>8
<1>2. CASE \/ Deploy \/ Tick \/ Insert \/ Refresh \/ Convert \/ UNCHANGED vars
           \/ \E from, to \in Times : RefreshContinuousAggregate(from, to)
  BY <1>2 DEF Deploy, Tick, Insert, Refresh, RefreshContinuousAggregate, Materialize, Convert, vars, data
<1> QED
  BY <1>1, <1>2 DEF Next

(* Retention of an accepted lifecycle takes no row that may still be       *)
(* written, by comparisons that ValidateLifecycle makes only indirectly.   *)
THEOREM RetentionRespectsLateRows == Spec => DroppedClosed
BY Invariance, DropsAreClosed, PTL DEF Spec, DroppedClosed

-----------------------------------------------------------------------------
(* Multiples.  The provers do not reason about % of sums; Divides hides it. *)

Divides(w, a) == \E k \in Int : a = w * k

LEMMA DividesMod ==
    ASSUME NEW a \in Int, NEW w \in Nat \ {0}
    PROVE  Divides(w, a) <=> a % w = 0
<1>1. ASSUME a % w = 0 PROVE Divides(w, a)
  <2>1. a \div w \in Int /\ a = w * (a \div w)
    BY <1>1, Division
  <2> QED BY <2>1, Zenon DEF Divides
<1>2. Divides(w, a) => a % w = 0
  BY MultipleDivides DEF Divides
<1> QED BY <1>1, <1>2

LEMMA DividesSum ==
    ASSUME NEW a \in Int, NEW b \in Int, NEW w \in Nat \ {0}, Divides(w, a), Divides(w, b)
    PROVE  Divides(w, a + b) /\ Divides(w, a - b)
<1>1. PICK q \in Int, r \in Int : a = w * q /\ b = w * r
  BY DEF Divides
<1>2. a + b = w * (q + r) /\ a - b = w * (q - r) /\ q + r \in Int /\ q - r \in Int
  BY <1>1
<1> QED BY <1>2 DEF Divides

LEMMA DividesTransitive ==
    ASSUME NEW a \in Int, NEW b \in Int, NEW w \in Nat \ {0}, Divides(w, b), Divides(b, a)
    PROVE  Divides(w, a)
<1>1. PICK q \in Int, r \in Int : a = b * q /\ b = w * r
  BY DEF Divides
<1>2. a = w * (r * q) /\ r * q \in Int
  BY <1>1
<1> QED BY <1>2 DEF Divides

LEMMA SmallMultiple ==
    ASSUME NEW a \in Int, NEW w \in Nat \ {0}, Divides(w, a), a < w
    PROVE  a <= 0
<1>1. PICK q \in Int : a = w * q
  BY DEF Divides
<1>2. q > 0 => w * q >= w
  BY <1>1
<1>3. q <= 0
  BY <1>1, <1>2
<1> QED BY <1>1, <1>3

LEMMA Quotient ==
    ASSUME NEW a \in Nat, NEW w \in Nat \ {0}, Divides(w, a)
    PROVE  \E k \in 0..a : a = k * w
<1>1. PICK q \in Int : a = w * q
  BY DEF Divides
<1>2. q < 0 => w * q < 0
  BY <1>1
<1>3. q >= 0
  BY <1>1, <1>2
<1>4. w * q >= q
  BY <1>3
<1>5. q \in 0..a /\ a = q * w
  BY <1>1, <1>3, <1>4
<1> QED BY <1>5

(* The start of a bucket is the last multiple of its width.                *)
LEMMA BucketOf ==
    ASSUME NEW t \in Nat, NEW b \in Nat \ {0}
    PROVE  /\ t - (t % b) \in Int /\ Divides(b, t - (t % b))
           /\ t - (t % b) <= t /\ t < (t - (t % b)) + b
<1>1. /\ t \div b \in Int /\ t - (t % b) = b * (t \div b)
      /\ t % b \in Int /\ 0 <= t % b /\ t % b < b
  BY Division, ModRange
<1>2. Divides(b, t - (t % b))
  BY <1>1, Zenon DEF Divides
<1> QED BY <1>1, <1>2

(* The runs of the job are at multiples of s, one of them at most s away,  *)
(* and a row is at most l late: its bucket [B, B + b) is inside the window *)
(* [run - start, run - b) of one of the runs to come.                      *)
LEMMA SomeRunCovers ==
    ASSUME NEW b \in Nat \ {0}, NEW s \in Nat \ {0}, NEW l \in Nat, Divides(s, b), Divides(b, l),
           NEW t \in Nat, NEW n \in Nat, n - l <= t, t <= n,
           NEW r \in Nat, Divides(s, r), n <= r, r <= n + s,
           NEW B \in Int, Divides(b, B), B <= t, t < B + b,
           NEW start \in Nat, 2 * b <= start, l + b <= start
    PROVE  \E k \in 0..start : r + k * s - start <= B /\ B + b <= r + k * s - b
<1>1. Divides(s, B) /\ Divides(s, l)
  BY DividesTransitive
<1>2. PICK c \in Int, d \in Int : c = (B + b) + l /\ d = (B + b) + b
  OBVIOUS
<1>3. Divides(s, c) /\ Divides(s, d)
  <2>1. Divides(s, B + b) /\ B + b \in Int
    BY <1>1, DividesSum
  <2> QED BY <1>1, <1>2, <2>1, DividesSum
<1>4. CASE r <= d
  <2>1. d - r \in Nat /\ Divides(s, d - r)
    BY <1>3, <1>4, DividesSum
  <2>2. PICK k \in 0..(d - r) : d - r = k * s
    BY <2>1, Quotient
  <2>3. k \in 0..start /\ r + k * s = d
    BY <1>2, <2>1, <2>2
  <2>4. d - start <= B /\ B + b <= d - b
    BY <1>2
  <2>5. r + k * s - start <= B /\ B + b <= r + k * s - b
    BY <2>3, <2>4
  <2> QED BY <2>3, <2>5, Zenon
<1>5. CASE d < r
  <2>1. r - c \in Int /\ Divides(s, r - c)
    BY <1>3, DividesSum
  <2>2. r - c < s
    BY <1>2
  <2>3. r - c <= 0
    BY <2>1, <2>2, SmallMultiple
  <2>4. r + 0 * s - start <= B /\ B + b <= r + 0 * s - b
    BY <1>2, <1>5, <2>3
  <2> QED BY <2>4
<1> QED BY <1>4, <1>5

-----------------------------------------------------------------------------
(* Delayed writes are revisited.                                           *)

(* The job is on time: its next run is not passed, nor further away than   *)
(* its schedule.                                                           *)
OnTime ==
    /\ now % Micro = 0
    /\ pc = "plan" => now = 0 /\ nextRefresh \in Phases
    /\ pc = "running" /\ config.aggregate /\ Aligned =>
           now <= nextRefresh /\ nextRefresh <= now + policy.schedule

RevisitInv == OnTime /\ RevisitedWhenAligned

LEMMA RunningPolicy ==
    ASSUME LifecycleInv, pc = "running", config.aggregate
    PROVE  /\ config.bucket \in Nat \ {0} /\ config.late.n \in Nat
           /\ policy.schedule \in Nat \ {0} /\ policy.schedule % Micro = 0
           /\ policy.end = config.bucket /\ policy.start \in Nat
           /\ 2 * config.bucket <= policy.start
           /\ config.late.n + config.bucket <= policy.start
           /\ now \in Nat /\ nextRefresh \in Nat
           /\ \A n \in Int : Back(n, config.late) = n - config.late.n
<1>1. /\ policy \in [start : 0..MaxInt, end : 0..MaxInt, schedule : 0..MaxInt] /\ MaxInt \in Nat
      /\ config.late.kind # "months" /\ Sound(config.late) /\ config.bucket \in Nat \ {0}
  BY UnitsAssumption, WidthAssumption, RunningOrder DEF LifecycleInv, TypeOK
<1>2. config.late.n \in Nat
  BY <1>1, SoundKinds
<1>3. policy # NoPolicy
  <2>1. Start = FixedInterval(policy.start)
    BY DEF Start
  <2>2. ~IsOpenEnded(Start) /\ Start.n = policy.start
    BY <2>1 DEF IsOpenEnded, FixedInterval
  <2>3. policy.start > 0
    BY <2>1, <2>2 DEF LifecycleInv, Accepted, LifecycleError, Boundaries, Validate, FixedInterval
  <2> QED BY <1>1, <2>3 DEF NoPolicy
<1>4. /\ policy.start = IF 2 * config.bucket > config.late.n + config.bucket
                        THEN 2 * config.bucket ELSE config.late.n + config.bucket
      /\ policy.end = config.bucket /\ Validate(FixedInterval(policy.schedule))
  BY <1>1, <1>3 DEF LifecycleInv, PlanIsExact
<1>5. policy.schedule \in Nat \ {0} /\ policy.schedule % Micro = 0
  BY <1>1, <1>4 DEF Validate, FixedInterval
<1>6. now \in Nat /\ nextRefresh \in Nat
  BY TimeAssumption DEF LifecycleInv, TypeOK
<1> QED BY <1>1, <1>2, <1>4, <1>5, <1>6 DEF Back

LEMMA AlignedDivides ==
    ASSUME LifecycleInv, pc = "running", config.aggregate, Aligned
    PROVE  /\ Divides(policy.schedule, config.bucket)
           /\ Divides(config.bucket, config.late.n)
           /\ Divides(policy.schedule, nextRefresh)
           /\ Divides(Micro, nextRefresh)
<1>1. /\ config.bucket \in Nat \ {0} /\ config.late.n \in Nat /\ Micro \in Nat \ {0}
      /\ policy.schedule \in Nat \ {0} /\ policy.schedule % Micro = 0 /\ nextRefresh \in Nat
  BY RunningPolicy, WidthAssumption
<1>2. /\ config.bucket \in Int /\ policy.schedule \in Int
  BY <1>1
<1>3. /\ config.bucket % policy.schedule = 0 /\ config.late.n % config.bucket = 0
      /\ nextRefresh % policy.schedule = 0
  BY DEF Aligned
<1>4. Divides(policy.schedule, config.bucket)
  BY <1>1, <1>2, <1>3, DividesMod, Zenon
<1>5. Divides(config.bucket, config.late.n)
  <2>1. config.late.n \in Int
    BY <1>1
  <2> QED BY <1>1, <1>3, <2>1, DividesMod, Zenon
<1>6. nextRefresh \in Int /\ Divides(policy.schedule, nextRefresh)
  <2>1. nextRefresh \in Int
    BY <1>1
  <2> QED BY <1>1, <1>3, <2>1, DividesMod, Zenon
<1>7. Divides(Micro, policy.schedule)
  BY <1>1, <1>2, DividesMod, Zenon
<1>8. Divides(Micro, nextRefresh)
  BY <1>1, <1>2, <1>6, <1>7, DividesTransitive
<1> QED BY <1>4, <1>5, <1>6, <1>8

LEMMA SameRuns ==
    ASSUME UNCHANGED <<config, policy, nextRefresh>>
    PROVE  (Aligned' <=> Aligned) /\ \A t : WithinARun(t)' <=> WithinARun(t)
BY DEF Aligned, WithinARun, Covers, Inside, BucketStart

(* A row that arrives in time is covered by a run to come.                 *)
LEMMA InsertRevisits ==
    ASSUME LifecycleInv, OnTime, pc = "running", config.aggregate, Aligned,
           NEW t \in Times, Back(now, config.late) <= t, t <= now
    PROVE  WithinARun(t)
<1> DEFINE b == config.bucket
           s == policy.schedule
           l == config.late.n
           B == BucketStart(t)
<1>1. /\ b \in Nat \ {0} /\ s \in Nat \ {0} /\ l \in Nat /\ policy.start \in Nat
      /\ 2 * b <= policy.start /\ l + b <= policy.start /\ policy.end = b
      /\ now \in Nat /\ nextRefresh \in Nat /\ now - l <= t
  BY RunningPolicy
<1>2. Divides(s, b) /\ Divides(b, l) /\ Divides(s, nextRefresh)
  BY AlignedDivides
<1>3. now <= nextRefresh /\ nextRefresh <= now + s
  BY DEF OnTime
<1>4. t \in Nat
  BY TimeAssumption DEF Times
<1>5. B \in Int /\ Divides(b, B) /\ B <= t /\ t < B + b
  BY <1>1, <1>4, BucketOf DEF BucketStart
<1>6. \E k \in 0..policy.start :
         nextRefresh + k * s - policy.start <= B /\ B + b <= nextRefresh + k * s - b
  <2> DEFINE start == policy.start
             n == now
             r == nextRefresh
  <2>1. /\ b \in Nat \ {0} /\ s \in Nat \ {0} /\ l \in Nat /\ Divides(s, b) /\ Divides(b, l)
        /\ t \in Nat /\ n \in Nat /\ n - l <= t /\ t <= n
        /\ r \in Nat /\ Divides(s, r) /\ n <= r /\ r <= n + s
        /\ B \in Int /\ Divides(b, B) /\ B <= t /\ t < B + b
        /\ start \in Nat /\ 2 * b <= start /\ l + b <= start
    BY <1>1, <1>2, <1>3, <1>4, <1>5
  <2> HIDE DEF b, s, l, B, start, n, r
  <2>2. \E k \in 0..start : r + k * s - start <= B /\ B + b <= r + k * s - b
    BY <2>1, SomeRunCovers, Zenon
  <2> QED BY <2>2 DEF start, r
<1>7. PICK k \in 0..policy.start :
         nextRefresh + k * s - policy.start <= B /\ B + b <= nextRefresh + k * s - b
  BY <1>6
<1>8. PICK run : run = nextRefresh + k * policy.schedule
  OBVIOUS
<1>9. Covers(run, t)
  <2>1. run - policy.start <= B /\ B + b <= run - policy.end
    BY <1>1, <1>7, <1>8
  <2> QED BY <2>1 DEF Covers, Inside
<1> QED BY <1>7, <1>8, <1>9, Zenon DEF WithinARun

LEMMA RevisitInit == Init => RevisitInv
<1> SUFFICES ASSUME Init PROVE RevisitInv
  OBVIOUS
<1>1. 0 % Micro = 0
  BY WidthAssumption
<1> QED BY <1>1 DEF Init, RevisitInv, OnTime, RevisitedWhenAligned

LEMMA DeployRevisits ==
    ASSUME PromptStart, LifecycleInv, RevisitInv, Deploy
    PROVE  RevisitInv'
<1>1. /\ pc = "plan" /\ UNCHANGED <<config, now, nextRefresh, inserted>>
      /\ pc' # "plan" /\ now = 0 /\ nextRefresh \in Phases /\ inserted' = {}
      /\ now' % Micro = 0
  BY DEF Deploy, data, RevisitInv, OnTime, LifecycleInv, Quiet
<1>2. ASSUME pc' = "running", config.aggregate
      PROVE  nextRefresh <= policy'.schedule
  <2>1. /\ policy' # NoPolicy
        /\ policy' \in {PlanRefreshPolicy(config.bucket, config.late.n, config.schedule), NoPolicy}
    BY <1>2 DEF Deploy
  <2>2. /\ ValidArguments(config.bucket, config.late.n, config.schedule)
        /\ policy' = Derived(config.bucket, config.late.n, config.schedule)
    BY <2>1 DEF PlanRefreshPolicy
  <2>3. config \in Configs
    BY DEF LifecycleInv, TypeOK
  <2> QED BY <1>1, <1>2, <2>2, <2>3 DEF PromptStart
<1>3. nextRefresh \in Nat
  BY <1>1, TimeAssumption
<1>4. policy'.schedule \in Int
  BY DeployPreserves, UnitsAssumption, WidthAssumption DEF LifecycleInv, TypeOK
<1>5. OnTime'
  BY <1>1, <1>2, <1>3, <1>4 DEF OnTime
<1> QED BY <1>1, <1>5 DEF RevisitInv, RevisitedWhenAligned, DelayedWritesRevisited

(* The clock goes by whole Micro, and so it does not jump over a run.      *)
LEMMA TickRevisits ==
    ASSUME LifecycleInv, RevisitInv, Tick
    PROVE  RevisitInv'
<1>1. /\ pc = "running" /\ now' = now + Micro /\ (config.aggregate => now # nextRefresh)
      /\ UNCHANGED <<config, policy, pc, nextRefresh, rows, inserted, aggregated>>
      /\ now \in Nat /\ Micro \in Nat \ {0} /\ now % Micro = 0
  BY WidthAssumption, TimeAssumption DEF Tick, data, RevisitInv, OnTime, LifecycleInv, TypeOK
<1>2. now \in Int /\ Micro \in Int /\ Divides(Micro, now)
  <2>1. now \in Int /\ Micro \in Int
    BY <1>1
  <2>2. Divides(Micro, now)
    BY <1>1, <2>1, DividesMod, Zenon
  <2> QED BY <2>1, <2>2
<1>3. now' % Micro = 0
  <2>1. Divides(Micro, Micro)
    <3>1. Micro = Micro * 1 /\ 1 \in Int
      BY <1>1
    <3> QED BY <3>1, Zenon DEF Divides
  <2>2. Divides(Micro, now + Micro) /\ now + Micro \in Int
    BY <1>1, <1>2, <2>1, DividesSum
  <2>3. (now + Micro) % Micro = 0
    BY <1>1, <2>2, DividesMod, Zenon
  <2> QED BY <1>1, <2>3
<1>4. ASSUME config.aggregate, Aligned
      PROVE  now' <= nextRefresh /\ nextRefresh <= now' + policy.schedule
  <2>1. /\ now <= nextRefresh /\ nextRefresh <= now + policy.schedule /\ now # nextRefresh
        /\ nextRefresh \in Nat /\ policy.schedule \in Nat
    BY <1>1, <1>4, RunningPolicy DEF RevisitInv, OnTime
  <2>2. Divides(Micro, nextRefresh - now) /\ nextRefresh - now \in Int
    <3>1. Divides(Micro, nextRefresh)
      BY <1>1, <1>4, AlignedDivides
    <3>2. nextRefresh \in Int /\ nextRefresh - now \in Int
      BY <1>1, <2>1
    <3> QED BY <1>1, <1>2, <3>1, <3>2, DividesSum
  <2>3. ~(nextRefresh - now < Micro)
    BY <1>1, <2>1, <2>2, SmallMultiple
  <2> QED BY <1>1, <2>1, <2>3
<1>5. OnTime'
  BY <1>1, <1>3, <1>4, SameRuns DEF OnTime
<1>6. RevisitedWhenAligned'
  BY <1>1, SameRuns DEF RevisitInv, RevisitedWhenAligned, DelayedWritesRevisited
<1> QED BY <1>5, <1>6 DEF RevisitInv

LEMMA InsertKeepsRevisits ==
    ASSUME LifecycleInv, RevisitInv, Insert
    PROVE  RevisitInv'
<1>1. PICK t \in Times :
         /\ Back(now, config.late) <= t /\ t <= now
         /\ rows' = rows \cup {t} /\ inserted' = inserted \cup {t}
  BY DEF Insert
<1>2. pc = "running" /\ UNCHANGED <<config, policy, pc, now, nextRefresh, aggregated>>
  BY DEF Insert
<1>3. OnTime'
  BY <1>2, SameRuns DEF RevisitInv, OnTime
<1>4. ASSUME config.aggregate, Aligned PROVE WithinARun(t)
  BY <1>1, <1>2, <1>4, InsertRevisits DEF RevisitInv
<1>5. RevisitedWhenAligned'
  BY <1>1, <1>2, <1>4, SameRuns DEF RevisitInv, RevisitedWhenAligned, DelayedWritesRevisited
<1> QED BY <1>3, <1>5 DEF RevisitInv

(* Retention takes no row that is still to be revisited.                   *)
LEMMA DropRevisits ==
    ASSUME LifecycleInv, RevisitInv, DropChunks
    PROVE  RevisitInv'
<1>1. /\ pc = "running" /\ ~IsOpenEnded(config.retention)
      /\ rows' = {t \in rows : ChunkEnd(t) > Back(now, config.retention)}
      /\ UNCHANGED <<config, policy, pc, now, nextRefresh, inserted, aggregated>>
  BY DEF DropChunks
<1>2. OnTime'
  BY <1>1, SameRuns DEF RevisitInv, OnTime
<1>3. ASSUME config.aggregate, Aligned, NEW t \in rows, WithinARun(t)
      PROVE  ChunkEnd(t) > Back(now, config.retention)
  <2>1. /\ config.bucket \in Nat \ {0} /\ policy.schedule \in Nat /\ policy.start \in Nat
        /\ now \in Nat /\ nextRefresh \in Nat /\ now <= nextRefresh
    BY <1>1, <1>3, RunningPolicy DEF RevisitInv, OnTime
  <2>2. t \in Nat
    BY TimeAssumption DEF LifecycleInv, TypeOK, Times
  <2>3. config.retention.kind = "fixed" /\ policy.start <= config.retention.n
        /\ config.retention.n \in Int
    BY <1>1, <1>3, RunningOrder, SoundKinds
  <2>4. Back(now, config.retention) = now - config.retention.n
    BY <2>3 DEF Back
  <2>5. PICK k \in 0..policy.start : Covers(nextRefresh + k * policy.schedule, t)
    BY <1>3 DEF WithinARun
  <2>6. PICK run \in Int : run = nextRefresh + k * policy.schedule /\ nextRefresh <= run
    <3>1. k * policy.schedule \in Nat
      BY <2>1
    <3> QED BY <2>1, <3>1
  <2>7. run - policy.start <= BucketStart(t)
    BY <2>5, <2>6 DEF Covers, Inside
  <2>8. BucketStart(t) <= t /\ BucketStart(t) \in Int
    BY <2>1, <2>2, BucketOf DEF BucketStart
  <2>9. ChunkEnd(t) \in Nat /\ t < ChunkEnd(t)
    BY <2>2, ChunkEndsLater
  <2> QED BY <2>1, <2>2, <2>3, <2>4, <2>6, <2>7, <2>8, <2>9
<1>4. RevisitedWhenAligned'
  BY <1>1, <1>3, SameRuns DEF RevisitInv, RevisitedWhenAligned, DelayedWritesRevisited
<1> QED BY <1>2, <1>4 DEF RevisitInv

(* What a run was to revisit it does, and the other rows have one run less *)
(* to wait for.                                                            *)
LEMMA RefreshRevisits ==
    ASSUME LifecycleInv, RevisitInv, Refresh
    PROVE  RevisitInv'
<1>1. /\ pc = "running" /\ config.aggregate /\ now = nextRefresh
      /\ nextRefresh' = now + policy.schedule
      /\ UNCHANGED <<config, policy, pc, now, rows, inserted>>
      /\ {t \in rows : Inside(t, now - policy.start, now - policy.end)} \subseteq aggregated'
  BY DEF Refresh, Materialize
<1>2. /\ policy.schedule \in Nat \ {0} /\ policy.start \in Nat /\ now \in Nat
      /\ nextRefresh \in Nat
  BY <1>1, RunningPolicy
<1>3. aggregated \subseteq aggregated'
  BY RefreshKeepsHistory DEF Next
<1>4. Aligned' => Aligned
  <2> DEFINE s == policy.schedule
             n == nextRefresh
  <2> SUFFICES ASSUME (n + s) % s = 0 PROVE n % s = 0
    BY <1>1 DEF Aligned
  <2>1. s \in Nat \ {0} /\ s \in Int /\ n \in Int /\ n + s \in Int
    BY <1>2
  <2>2. Divides(s, n + s)
    BY <2>1, DividesMod, Zenon
  <2>3. Divides(s, s)
    <3>1. s = s * 1 /\ 1 \in Int
      BY <2>1
    <3> QED BY <3>1, Zenon DEF Divides
  <2>4. Divides(s, n)
    <3>1. Divides(s, (n + s) - s)
      BY <2>1, <2>2, <2>3, DividesSum
    <3>2. (n + s) - s = n
      BY <2>1
    <3> QED BY <3>1, <3>2
  <2> QED BY <2>1, <2>4, DividesMod, Zenon
<1>5. OnTime'
  BY <1>1, <1>2 DEF RevisitInv, OnTime
<1>6. ASSUME NEW t \in rows, WithinARun(t), t \notin aggregated' PROVE WithinARun(t)'
  <2>1. PICK k \in 0..policy.start : Covers(nextRefresh + k * policy.schedule, t)
    BY <1>6 DEF WithinARun
  <2>2. k # 0
    <3>1. k = 0 => nextRefresh + k * policy.schedule = now
      BY <1>1, <1>2
    <3>2. ~Covers(now, t)
      BY <1>1, <1>6 DEF Covers
    <3> QED BY <2>1, <3>1, <3>2
  <2>3. PICK j \in 0..policy.start : j = k - 1
    BY <1>2, <2>2
  <2>4. nextRefresh' + j * policy.schedule = nextRefresh + k * policy.schedule
    BY <1>1, <1>2, <2>3
  <2>5. Covers(nextRefresh' + j * policy.schedule, t)
    BY <2>1, <2>4
  <2>6. \A run : Covers(run, t)' <=> Covers(run, t)
    BY <1>1 DEF Covers, Inside, BucketStart
  <2> QED BY <1>1, <2>5, <2>6 DEF WithinARun, Covers, Inside, BucketStart
<1>7. RevisitedWhenAligned'
  BY <1>1, <1>3, <1>4, <1>6 DEF RevisitInv, RevisitedWhenAligned, DelayedWritesRevisited
<1> QED BY <1>5, <1>7 DEF RevisitInv

LEMMA OthersRevisit ==
    ASSUME LifecycleInv, RevisitInv, [Next]_vars,
           \/ Convert \/ UNCHANGED vars
           \/ \E from, to \in Times : RefreshContinuousAggregate(from, to)
    PROVE  RevisitInv'
<1>1. /\ UNCHANGED <<config, policy, pc, now, nextRefresh, rows, inserted>>
      /\ aggregated \subseteq aggregated'
  BY RefreshKeepsHistory DEF Convert, RefreshContinuousAggregate, Materialize, vars, data
<1>2. OnTime'
  BY <1>1, SameRuns DEF RevisitInv, OnTime
<1>3. RevisitedWhenAligned'
  BY <1>1, SameRuns DEF RevisitInv, RevisitedWhenAligned, DelayedWritesRevisited
<1> QED BY <1>2, <1>3 DEF RevisitInv

(* If the schedule divides the bucket, the bucket the tolerance, and the   *)
(* first run comes within one schedule of the deployment, every row that   *)
(* is not later than declared is materialized, or stays until a run whose  *)
(* window holds its bucket: the "revisits delayed writes" of the README,   *)
(* for every policy that PlanRefreshPolicy plans.                          *)
THEOREM AlignedRunsRevisit == ASSUME PromptStart PROVE Spec => []RevisitedWhenAligned
<1>1. Init => LifecycleInv /\ RevisitInv
  BY InitEstablishes, RevisitInit
<1>2. LifecycleInv /\ RevisitInv /\ [Next]_vars => LifecycleInv' /\ RevisitInv'
  <2> SUFFICES ASSUME LifecycleInv, RevisitInv, [Next]_vars PROVE RevisitInv'
    BY NextPreserves
  <2> QED BY DeployRevisits, TickRevisits, InsertKeepsRevisits, DropRevisits, RefreshRevisits,
             OthersRevisit DEF Next
<1>3. RevisitInv => RevisitedWhenAligned
  BY DEF RevisitInv
<1> QED BY <1>1, <1>2, <1>3, PTL DEF Spec

-----------------------------------------------------------------------------
(***************************************************************************)
(* StorageSetup, for every set of services and every set of plans.         *)
(*                                                                         *)
(* Does says what a call makes of the storage, whatever its statements find*)
(* there.  SetupInv is AsPlanned with the types and what the plan rules    *)
(* out; one call of one service keeps it (CallKeeps) because no call after *)
(* the k-th touches what a plan decides at k, and every service that has   *)
(* not passed k repeats a call at k or before.                             *)
(***************************************************************************)

(* The statements a call can send.                                         *)
Statement ==
    [do : Tables \cup {"dimension", "interval", "columnstore", "aggregate", "drop",
                       "aggregateColumnstore", "realTime"},
     lenient : BOOLEAN, interval : Interval, migrate : BOOLEAN, columnstore : BOOLEAN,
     realTime : BOOLEAN]

LEMMA CallStatements ==
    ASSUME NEW c \in CallType
    PROVE  /\ Create(c) \in Statement /\ AddDimension(c) \in Statement
           /\ EnableColumnstore(c) \in Statement
           /\ Create(c).do = c.op /\ AddDimension(c).do = "dimension"
           /\ EnableColumnstore(c).do = "columnstore"
           /\ Create(c).interval = c.interval /\ Create(c).realTime = c.realTime
           /\ Create(c).columnstore = c.columnstore /\ EnableColumnstore(c).columnstore = c.columnstore
BY DEF CallType, Statement, Create, AddDimension, EnableColumnstore, Tables

(* A hypertable stays one, with its second dimension, and only a statement *)
(* that creates one makes one.                                             *)
Grows(s, r) ==
    /\ r \in StorageType
    /\ IsHypertable(s) => IsHypertable(r) /\ (s.table.hash => r.table.hash)
    /\ r.table.hash => IsHypertable(r)
    /\ r.table.kind = "plain" => s.table.kind = "plain"

(* One statement that the server does not refuse: what it leaves alone, and*)
(* what is there after it.                                                 *)
LEMMA StatementDone ==
    ASSUME NEW s \in StorageType, s.table.hash => IsHypertable(s), NEW st \in Statement,
           After(s, st) # Refused
    PROVE  LET r == After(s, st)
           IN /\ Grows(s, r)
              /\ st.do \notin Tables => r.table.kind = s.table.kind
              /\ st.do = "dimension" => r.table.hash
              /\ st.do \in {"hypertable", "interval", "columnstore"} => IsHypertable(r)
              /\ st.do = "table" => r.table.kind # "none"
              /\ st.do = "table" => r.table.columnstore \/ r = s
              /\ st.do = "interval" => r.table.interval = st.interval
              /\ st.do \notin Tables \cup {"interval"} => r.table.interval = s.table.interval
              /\ st.do = "columnstore" => r.table.columnstore = st.columnstore
              /\ st.do \notin Tables \cup {"columnstore"} =>
                    r.table.columnstore = s.table.columnstore
              /\ st.do = "aggregate" => IsAggregate(r)
              /\ st.do = "drop" => ~IsAggregate(r)
              /\ st.do \notin {"aggregate", "drop"} => r.view.kind = s.view.kind
              /\ st.do = "realTime" => r.view.realTime = st.realTime
              /\ st.do \notin {"aggregate", "drop", "realTime"} =>
                    r.view.realTime = s.view.realTime
              /\ st.do = "aggregateColumnstore" => r.view.columnstore = st.columnstore
              /\ st.do \notin {"aggregate", "drop", "aggregateColumnstore"} =>
                    r.view.columnstore = s.view.columnstore
<1> DEFINE r == After(s, st)
<1>1. \/ Unchanged(s, st) /\ r = s
      \/ Possible(s, st) /\ r = Effect(s, st)
  BY RefusedAssumption DEF After
<1>2. /\ s.table \in [kind : {"none", "plain", "hyper"}, interval : Interval \cup {Default},
                      hash : BOOLEAN, columnstore : BOOLEAN]
      /\ s.view \in [kind : {"none", "aggregate"}, realTime : BOOLEAN, columnstore : BOOLEAN]
      /\ s = [table |-> s.table, view |-> s.view, data |-> s.data] /\ s.data \in BOOLEAN
  BY DEF StorageType
<1>3. ASSUME NEW t, NEW v, r = [table |-> t, view |-> v, data |-> s.data],
             t \in [kind : {"none", "plain", "hyper"}, interval : Interval \cup {Default},
                    hash : BOOLEAN, columnstore : BOOLEAN],
             v \in [kind : {"none", "aggregate"}, realTime : BOOLEAN, columnstore : BOOLEAN]
      PROVE  r \in StorageType /\ r.table = t /\ r.view = v
  BY <1>2, <1>3 DEF StorageType
<1>4. CASE Unchanged(s, st) /\ r = s
  BY <1>2, <1>4 DEF Unchanged, Statement, Tables, Grows, IsHypertable, IsAggregate
<1>5. CASE Possible(s, st) /\ r = Effect(s, st)
  <2>1. CASE st.do = "hypertable"
    <3> DEFINE t == NewTable(st, FALSE)
               v == s.view
    <3>1. r = [table |-> t, view |-> v, data |-> s.data] /\ Possible(s, st)
      BY <1>2, <1>5, <2>1 DEF Effect
    <3>2. /\ t \in [kind : {"none", "plain", "hyper"}, interval : Interval \cup {Default},
                     hash : BOOLEAN, columnstore : BOOLEAN]
          /\ v \in [kind : {"none", "aggregate"}, realTime : BOOLEAN, columnstore : BOOLEAN]
      BY <1>2 DEF NewTable, Statement
    <3>3. r \in StorageType /\ r.table = t /\ r.view = v
      BY <1>3, <3>1, <3>2
    <3> QED BY <1>2, <3>1, <3>3, <2>1
            DEF Possible, NewTable, Tables, Grows, IsHypertable, IsAggregate
  <2>2. CASE st.do = "table"
    <3> DEFINE t == NewTable(st, TRUE)
               v == s.view
    <3>1. r = [table |-> t, view |-> v, data |-> s.data] /\ Possible(s, st)
      BY <1>2, <1>5, <2>2 DEF Effect
    <3>2. /\ t \in [kind : {"none", "plain", "hyper"}, interval : Interval \cup {Default},
                     hash : BOOLEAN, columnstore : BOOLEAN]
          /\ v \in [kind : {"none", "aggregate"}, realTime : BOOLEAN, columnstore : BOOLEAN]
      BY <1>2 DEF NewTable, Statement
    <3>3. r \in StorageType /\ r.table = t /\ r.view = v
      BY <1>3, <3>1, <3>2
    <3> QED BY <1>2, <3>1, <3>3, <2>2
            DEF Possible, NewTable, Tables, Grows, IsHypertable, IsAggregate
  <2>3. CASE st.do = "dimension"
    <3> DEFINE t == [s.table EXCEPT !.hash = TRUE]
               v == s.view
    <3>1. r = [table |-> t, view |-> v, data |-> s.data] /\ Possible(s, st)
      BY <1>2, <1>5, <2>3 DEF Effect
    <3>2. /\ t \in [kind : {"none", "plain", "hyper"}, interval : Interval \cup {Default},
                     hash : BOOLEAN, columnstore : BOOLEAN]
          /\ v \in [kind : {"none", "aggregate"}, realTime : BOOLEAN, columnstore : BOOLEAN]
      BY <1>2
    <3>3. r \in StorageType /\ r.table = t /\ r.view = v
      BY <1>3, <3>1, <3>2
    <3> QED BY <1>2, <3>1, <3>3, <2>3
            DEF Possible, Tables, Grows, IsHypertable, IsAggregate
  <2>4. CASE st.do = "columnstore"
    <3> DEFINE t == [s.table EXCEPT !.columnstore = st.columnstore]
               v == s.view
    <3>1. r = [table |-> t, view |-> v, data |-> s.data] /\ Possible(s, st)
      BY <1>2, <1>5, <2>4 DEF Effect
    <3>2. /\ t \in [kind : {"none", "plain", "hyper"}, interval : Interval \cup {Default},
                     hash : BOOLEAN, columnstore : BOOLEAN]
          /\ v \in [kind : {"none", "aggregate"}, realTime : BOOLEAN, columnstore : BOOLEAN]
      BY <1>2 DEF Statement
    <3>3. r \in StorageType /\ r.table = t /\ r.view = v
      BY <1>3, <3>1, <3>2
    <3> QED BY <1>2, <3>1, <3>3, <2>4
            DEF Possible, Tables, Grows, IsHypertable, IsAggregate
  <2>5. CASE st.do = "interval"
    <3> DEFINE t == [s.table EXCEPT !.interval = st.interval]
               v == s.view
    <3>1. r = [table |-> t, view |-> v, data |-> s.data] /\ Possible(s, st)
      BY <1>2, <1>5, <2>5 DEF Effect
    <3>2. /\ t \in [kind : {"none", "plain", "hyper"}, interval : Interval \cup {Default},
                     hash : BOOLEAN, columnstore : BOOLEAN]
          /\ v \in [kind : {"none", "aggregate"}, realTime : BOOLEAN, columnstore : BOOLEAN]
      BY <1>2 DEF Statement
    <3>3. r \in StorageType /\ r.table = t /\ r.view = v
      BY <1>3, <3>1, <3>2
    <3> QED BY <1>2, <3>1, <3>3, <2>5
            DEF Possible, Tables, Grows, IsHypertable, IsAggregate
  <2>6. CASE st.do = "aggregate"
    <3> DEFINE t == s.table
               v == [kind |-> "aggregate", realTime |-> st.realTime, columnstore |-> FALSE]
    <3>1. r = [table |-> t, view |-> v, data |-> s.data] /\ Possible(s, st)
      BY <1>2, <1>5, <2>6 DEF Effect
    <3>2. /\ t \in [kind : {"none", "plain", "hyper"}, interval : Interval \cup {Default},
                     hash : BOOLEAN, columnstore : BOOLEAN]
          /\ v \in [kind : {"none", "aggregate"}, realTime : BOOLEAN, columnstore : BOOLEAN]
      BY <1>2 DEF Statement
    <3>3. r \in StorageType /\ r.table = t /\ r.view = v
      BY <1>3, <3>1, <3>2
    <3> QED BY <1>2, <3>1, <3>3, <2>6
            DEF Possible, Tables, Grows, IsHypertable, IsAggregate
  <2>7. CASE st.do = "drop"
    <3> DEFINE t == s.table
               v == NoView
    <3>1. r = [table |-> t, view |-> v, data |-> s.data] /\ Possible(s, st)
      BY <1>2, <1>5, <2>7 DEF Effect
    <3>2. /\ t \in [kind : {"none", "plain", "hyper"}, interval : Interval \cup {Default},
                     hash : BOOLEAN, columnstore : BOOLEAN]
          /\ v \in [kind : {"none", "aggregate"}, realTime : BOOLEAN, columnstore : BOOLEAN]
      BY <1>2 DEF NoView
    <3>3. r \in StorageType /\ r.table = t /\ r.view = v
      BY <1>3, <3>1, <3>2
    <3> QED BY <1>2, <3>1, <3>3, <2>7
            DEF Possible, NoView, Tables, Grows, IsHypertable, IsAggregate
  <2>8. CASE st.do = "aggregateColumnstore"
    <3> DEFINE t == s.table
               v == [s.view EXCEPT !.columnstore = st.columnstore]
    <3>1. r = [table |-> t, view |-> v, data |-> s.data] /\ Possible(s, st)
      BY <1>2, <1>5, <2>8 DEF Effect
    <3>2. /\ t \in [kind : {"none", "plain", "hyper"}, interval : Interval \cup {Default},
                     hash : BOOLEAN, columnstore : BOOLEAN]
          /\ v \in [kind : {"none", "aggregate"}, realTime : BOOLEAN, columnstore : BOOLEAN]
      BY <1>2 DEF Statement
    <3>3. r \in StorageType /\ r.table = t /\ r.view = v
      BY <1>3, <3>1, <3>2
    <3> QED BY <1>2, <3>1, <3>3, <2>8
            DEF Possible, Tables, Grows, IsHypertable, IsAggregate
  <2>9. CASE st.do = "realTime"
    <3> DEFINE t == s.table
               v == [s.view EXCEPT !.realTime = st.realTime]
    <3>1. r = [table |-> t, view |-> v, data |-> s.data] /\ Possible(s, st)
      BY <1>2, <1>5, <2>9 DEF Effect
    <3>2. /\ t \in [kind : {"none", "plain", "hyper"}, interval : Interval \cup {Default},
                     hash : BOOLEAN, columnstore : BOOLEAN]
          /\ v \in [kind : {"none", "aggregate"}, realTime : BOOLEAN, columnstore : BOOLEAN]
      BY <1>2 DEF Statement
    <3>3. r \in StorageType /\ r.table = t /\ r.view = v
      BY <1>3, <3>1, <3>2
    <3> QED BY <1>2, <3>1, <3>3, <2>9
            DEF Possible, Tables, Grows, IsHypertable, IsAggregate
  <2> QED BY <2>1, <2>2, <2>3, <2>4, <2>5, <2>6, <2>7, <2>8, <2>9 DEF Statement, Tables
<1> QED BY <1>1, <1>4, <1>5

(* What a whole call does, from storage s to r.                            *)
Does(s, r, c) ==
    /\ Grows(s, r)
    /\ c.op \notin Tables /\ IsHypertable(r) => IsHypertable(s)
    /\ c.hash => r.table.hash
    /\ c.op \in {"hypertable", "interval", "columnstore"} => IsHypertable(r)
    /\ c.op = "table" /\ s.table.kind # "plain" => IsHypertable(r)
    /\ c.op = "hypertable" /\ c.columnstore => r.table.columnstore
    /\ c.op = "table" =>
          \/ r.table.columnstore
          \/ r.table.columnstore = s.table.columnstore /\ r.table.kind = s.table.kind
    /\ c.op = "interval" => r.table.interval = c.interval
    /\ c.op \notin Tables \cup {"interval"} => r.table.interval = s.table.interval
    /\ c.op = "columnstore" => r.table.columnstore = c.columnstore
    /\ c.op \notin Tables \cup {"columnstore"} => r.table.columnstore = s.table.columnstore
    /\ c.op = "aggregate" => IsAggregate(r)
    /\ c.op = "drop" => ~IsAggregate(r)
    /\ c.op \notin {"aggregate", "drop"} => r.view.kind = s.view.kind
    /\ c.op = "realTime" => r.view.realTime = c.realTime
    /\ c.op \notin {"aggregate", "drop", "realTime"} => r.view.realTime = s.view.realTime
    /\ c.op = "aggregateColumnstore" => r.view.columnstore = c.columnstore
    /\ c.op \notin {"aggregate", "drop", "aggregateColumnstore"} =>
          r.view.columnstore = s.view.columnstore

(* The whole string of a call, when no statement of it is refused.  Only a *)
(* call of the operations named may have changed a field; what a call sets *)
(* last is as it asked, for no statement after that one touches it.        *)
LEMMA CallDone ==
    ASSUME NEW s \in StorageType, s.table.hash => IsHypertable(s), NEW c \in CallType,
           Run(s, c) # Refused
    PROVE  Does(s, Run(s, c), c)
<1> DEFINE created == After(s, Create(c))
           dimensioned == IF c.hash THEN After(created, AddDimension(c)) ELSE created
           r == Run(s, c)
<1>1. r = IF c.op = "hypertable" /\ c.columnstore
          THEN After(dimensioned, EnableColumnstore(c)) ELSE dimensioned
  BY DEF Run, Stages
<1>2. created # Refused /\ dimensioned # Refused
  BY <1>1 DEF After
<1>3. /\ created \in StorageType /\ Grows(s, created)
      /\ c.op \notin Tables => created.table.kind = s.table.kind
      /\ c.op \in {"hypertable", "interval", "columnstore"} => IsHypertable(created)
      /\ c.op = "table" => created.table.kind # "none"
      /\ c.op = "table" => created.table.columnstore \/ created = s
      /\ c.op = "interval" => created.table.interval = c.interval
      /\ c.op \notin Tables \cup {"interval"} => created.table.interval = s.table.interval
      /\ c.op = "columnstore" => created.table.columnstore = c.columnstore
      /\ c.op \notin Tables \cup {"columnstore"} =>
            created.table.columnstore = s.table.columnstore
      /\ c.op = "aggregate" => IsAggregate(created)
      /\ c.op = "drop" => ~IsAggregate(created)
      /\ c.op \notin {"aggregate", "drop"} => created.view.kind = s.view.kind
      /\ c.op = "realTime" => created.view.realTime = c.realTime
      /\ c.op \notin {"aggregate", "drop", "realTime"} =>
            created.view.realTime = s.view.realTime
      /\ c.op = "aggregateColumnstore" => created.view.columnstore = c.columnstore
      /\ c.op \notin {"aggregate", "drop", "aggregateColumnstore"} =>
            created.view.columnstore = s.view.columnstore
  BY <1>2, CallStatements, StatementDone DEF Grows
<1>4. /\ dimensioned \in StorageType /\ Grows(created, dimensioned)
      /\ dimensioned.table.kind = created.table.kind
      /\ c.hash => dimensioned.table.hash
      /\ dimensioned.table.interval = created.table.interval
      /\ dimensioned.table.columnstore = created.table.columnstore
      /\ dimensioned.view.kind = created.view.kind
      /\ dimensioned.view.realTime = created.view.realTime
      /\ dimensioned.view.columnstore = created.view.columnstore
  <2>1. created.table.hash => IsHypertable(created)
    BY <1>3 DEF Grows
  <2>2. CASE c.hash
    <3>1. /\ dimensioned = After(created, AddDimension(c)) /\ AddDimension(c) \in Statement
          /\ AddDimension(c).do = "dimension"
      BY <2>2, CallStatements
    <3> QED BY <1>2, <1>3, <2>1, <3>1, StatementDone DEF Grows, Tables
  <2>3. CASE ~c.hash
    BY <1>3, <2>1, <2>3 DEF Grows
  <2> QED BY <2>2, <2>3
<1>5. /\ r \in StorageType /\ Grows(dimensioned, r)
      /\ r.table.kind = dimensioned.table.kind
      /\ r.table.interval = dimensioned.table.interval
      /\ c.op = "hypertable" /\ c.columnstore => r.table.columnstore
      /\ ~(c.op = "hypertable" /\ c.columnstore) => r = dimensioned
      /\ r.view.kind = dimensioned.view.kind
      /\ r.view.realTime = dimensioned.view.realTime
      /\ r.view.columnstore = dimensioned.view.columnstore
  <2>1. dimensioned.table.hash => IsHypertable(dimensioned)
    BY <1>4 DEF Grows
  <2>2. CASE c.op = "hypertable" /\ c.columnstore
    <3>1. /\ r = After(dimensioned, EnableColumnstore(c)) /\ EnableColumnstore(c) \in Statement
          /\ EnableColumnstore(c).do = "columnstore" /\ EnableColumnstore(c).columnstore
      BY <1>1, <2>2, CallStatements
    <3>2. IsHypertable(dimensioned)
      BY <1>3, <1>4, <2>2 DEF Grows
    <3> QED BY <1>4, <2>1, <2>2, <3>1, <3>2, StatementDone DEF Grows, Tables
  <2>3. CASE ~(c.op = "hypertable" /\ c.columnstore)
    BY <1>1, <1>4, <2>1, <2>3 DEF Grows
  <2> QED BY <2>2, <2>3
<1> HIDE DEF created, dimensioned, r
<1>6. Grows(s, r)
  BY <1>3, <1>4, <1>5 DEF Grows
<1>7. c.op = "table" /\ s.table.kind # "plain" => IsHypertable(r)
  BY <1>3, <1>4, <1>5 DEF Grows, StorageType, IsHypertable
<1>8. /\ c.op \notin Tables /\ IsHypertable(r) => IsHypertable(s)
      /\ c.hash => r.table.hash
      /\ c.op \in {"hypertable", "interval", "columnstore"} => IsHypertable(r)
  BY <1>3, <1>4, <1>5 DEF Grows, IsHypertable
<1>9. /\ c.op = "table" =>
                  \/ r.table.columnstore
                  \/ r.table.columnstore = s.table.columnstore /\ r.table.kind = s.table.kind
      /\ c.op = "columnstore" => r.table.columnstore = c.columnstore
      /\ c.op \notin Tables \cup {"columnstore"} =>
                  r.table.columnstore = s.table.columnstore
  BY <1>3, <1>4, <1>5 DEF Tables
<1>10. /\ c.op = "aggregate" => IsAggregate(r)
       /\ c.op = "drop" => ~IsAggregate(r)
  BY <1>3, <1>4, <1>5 DEF IsAggregate
<1> QED BY <1>3, <1>4, <1>5, <1>6, <1>7, <1>8, <1>9, <1>10 DEF r, Does

(* The induction: types, what of the storage the plan excludes, and what   *)
(* AsPlanned says of every call.                                           *)
SetupInv ==
    /\ plan \in Seq(CallType) /\ storage \in StorageType
    /\ next \in [Services -> Nat \ {0}] /\ checked \in [Services -> BOOLEAN]
    /\ \A s \in Services : checked[s] => ~Done(s)
    /\ storage.table.hash => IsHypertable(storage)
    /\ Creates(plan) => storage.table.kind # "plain"
    /\ AsPlanned

LEMMA InitSetup == SetupInit => SetupInv
<1> SUFFICES ASSUME SetupInit PROVE SetupInv
  OBVIOUS
<1>1. plan \in Seq(CallType)
  BY PlansAssumption DEF SetupInit
<1>2. /\ storage.table \in {NoTable, PlainTable} /\ storage.view = NoView
      /\ storage = [table |-> storage.table, view |-> NoView, data |-> FALSE]
      /\ Creates(plan) => storage.table = NoTable
  BY DEF SetupInit
<1>3. storage \in StorageType /\ ~storage.table.hash /\ ~IsHypertable(storage)
  <2>1. NoView \in [kind : {"none", "aggregate"}, realTime : BOOLEAN, columnstore : BOOLEAN]
    BY DEF NoView
  <2>2. Open \in Interval
    BY DEF Interval
  <2>3. ASSUME NEW t \in {NoTable, PlainTable}
        PROVE  /\ t \in [kind : {"none", "plain", "hyper"}, interval : Interval \cup {Default},
                          hash : BOOLEAN, columnstore : BOOLEAN]
               /\ ~t.hash /\ t.kind # "hyper"
    <3>1. CASE t = NoTable
      BY <2>2, <3>1 DEF NoTable
    <3>2. CASE t = PlainTable
      BY <2>2, <3>2 DEF PlainTable
    <3> QED BY <3>1, <3>2
  <2>4. storage \in StorageType
    <3> DEFINE t == storage.table
    <3>1. t \in [kind : {"none", "plain", "hyper"}, interval : Interval \cup {Default},
                 hash : BOOLEAN, columnstore : BOOLEAN]
      BY <1>2, <2>3
    <3>2. storage = [table |-> t, view |-> NoView, data |-> FALSE]
      BY <1>2
    <3> HIDE DEF t
    <3> QED BY <2>1, <3>1, <3>2 DEF StorageType
  <2> QED BY <1>2, <2>3, <2>4 DEF IsHypertable
<1>4. /\ next = [s \in Services |-> 1] /\ checked = [s \in Services |-> FALSE]
      /\ \A k \in DOMAIN plan : k \in Nat /\ k >= 1
  <2>1. DOMAIN plan = 1..Len(plan) /\ Len(plan) \in Nat
    BY <1>1
  <2>2. \A k \in DOMAIN plan : k \in Nat /\ k >= 1
    BY <2>1
  <2> QED BY <2>2 DEF SetupInit
<1>5. AsPlanned
  BY <1>3, <1>4, PlansAssumption DEF AsPlanned, WholeConversion
<1> QED BY <1>1, <1>2, <1>3, <1>4, <1>5 DEF SetupInv, NoTable

(* A call does not leave a conversion half done.                           *)
LEMMA WholeKept ==
    ASSUME NEW s, NEW c, NEW r, Does(s, r, c), IsHypertable(r)
    PROVE  /\ (c.op \in Tables => c.hash) /\ (IsHypertable(s) => s.table.hash) => r.table.hash
           /\ /\ c.op # "columnstore" /\ (c.op = "hypertable" => c.columnstore)
              /\ IsHypertable(s) => s.table.columnstore
              => r.table.columnstore
BY DEF Does, Grows, Tables, IsHypertable

(* What is there stays, and what the call is for is there after it.        *)
LEMMA MadeKept ==
    ASSUME NEW s, NEW c, NEW r, Does(s, r, c)
    PROVE  /\ IsHypertable(s) => IsHypertable(r)
           /\ IsHypertable(s) /\ s.table.hash => r.table.hash
           /\ /\ c.op = "table" => s.table.kind # "plain"
              /\ c.op \in Tables \cup {"interval", "columnstore"}
              => IsHypertable(r)
           /\ c.hash => r.table.hash
BY DEF Does, Grows, Tables, IsHypertable

(* A call of service s takes effect, whether or not s learns of it.        *)
TakesEffect(s) ==
    /\ checked[s] /\ UNCHANGED plan
    /\ Outcome(s) # Refused /\ storage' = Outcome(s)
    /\ next' = next \/ next' = [next EXCEPT ![s] = @ + 1]

LEMMA CallKeeps ==
    ASSUME SetupInv, NEW s \in Services, TakesEffect(s)
    PROVE  /\ storage' \in StorageType
           /\ storage'.table.hash => IsHypertable(storage')
           /\ Creates(plan) => storage'.table.kind # "plain"
           /\ AsPlanned'
<1>1. PICK n, c, r :
          /\ n = next[s] /\ c = plan[n] /\ r = storage'
          /\ n \in DOMAIN plan /\ n \in Nat /\ c \in CallType
          /\ storage' = Run(storage, c) /\ Run(storage, c) # Refused
  <2>1. /\ DOMAIN plan = 1..Len(plan) /\ Len(plan) \in Nat
        /\ next[s] \in Nat \ {0} /\ next[s] <= Len(plan)
    BY DEF SetupInv, Done, TakesEffect
  <2>2. plan[next[s]] \in CallType
    BY <2>1 DEF SetupInv
  <2> QED BY <2>1, <2>2 DEF TakesEffect, Call, Outcome
<1>2. /\ \A t \in Services : next[t] \in Nat /\ next'[t] \in {next[t], next[t] + 1}
      /\ \A t \in Services \ {s} : next'[t] = next[t]
      /\ \A k \in DOMAIN plan : k \in Nat /\ k >= 1
      /\ plan' = plan
  BY DEF SetupInv, TakesEffect
<1>3. Does(storage, r, c)
  BY <1>1, CallDone DEF SetupInv
<1>4. /\ r \in StorageType /\ (r.table.hash => IsHypertable(r))
      /\ Creates(plan) => r.table.kind # "plain"
  BY <1>3 DEF Does, Grows, SetupInv
<1>5. WholeConversion'
  <2>1. WholeConversion
    BY DEF SetupInv, AsPlanned
  <2>2. ASSUME IsHypertable(r), \A i \in DOMAIN plan : plan[i].op \in Tables => plan[i].hash
        PROVE  r.table.hash
    BY <1>1, <1>3, <2>1, <2>2, WholeKept DEF WholeConversion
  <2>3. ASSUME IsHypertable(r),
               \A i \in DOMAIN plan :
                   plan[i].op # "columnstore" /\ (plan[i].op = "hypertable" => plan[i].columnstore)
        PROVE  r.table.columnstore
    BY <1>1, <1>3, <2>1, <2>3, WholeKept DEF WholeConversion
  <2> QED BY <1>1, <1>2, <2>2, <2>3 DEF WholeConversion, IsHypertable
<1>6. ASSUME NEW k \in DOMAIN plan, NEW t \in Services, next'[t] > k
      PROVE  Made(k)'
  <2>1. CASE next[t] > k
    <3>1. Made(k)
      BY <2>1 DEF SetupInv, AsPlanned
    <3>2. /\ IsHypertable(storage) => IsHypertable(r)
          /\ IsHypertable(storage) /\ storage.table.hash => r.table.hash
      BY <1>3, MadeKept
    <3> QED BY <1>1, <1>2, <3>1, <3>2 DEF Made, IsHypertable
  <2>2. CASE ~(next[t] > k)
    <3>1. k = n /\ plan[k] = c
      BY <1>1, <1>2, <1>6, <2>2
    <3>2. c.op = "table" => storage.table.kind # "plain"
      BY <1>1, <3>1 DEF SetupInv, Creates
    <3>3. /\ c.op \in Tables \cup {"interval", "columnstore"} => IsHypertable(r)
          /\ c.hash => r.table.hash
      BY <1>3, <3>2, MadeKept
    <3> QED BY <1>1, <1>2, <3>1, <3>3 DEF Made, IsHypertable
  <2> QED BY <2>1, <2>2
<1>7. ASSUME NEW k \in DOMAIN plan, \A t \in Services : next'[t] > k
      PROVE  Decided(k)'
  <2> DEFINE d == plan[k]
  <2>1. CASE k = n
    <3>1. plan[k] = c
      BY <1>1, <2>1
    <3>2. /\ c.op = "interval" => r.table.interval = c.interval
          /\ c.op = "columnstore" => r.table.columnstore = c.columnstore
          /\ c.op \in {"aggregate", "drop"} => (IsAggregate(r) <=> c.op = "aggregate")
          /\ c.op = "realTime" => r.view.realTime = c.realTime
          /\ c.op = "aggregateColumnstore" => r.view.columnstore = c.columnstore
      BY <1>3 DEF Does
    <3> QED BY <1>1, <1>2, <3>1, <3>2 DEF Decided, IsAggregate
  <2>2. CASE k # n
    <3>1. n > k /\ \A t \in Services : next[t] > k
      BY <1>1, <1>2, <1>7, <2>2
    <3>2. Decided(k)
      BY <3>1 DEF SetupInv, AsPlanned
    <3>3. ASSUME NEW ops, LastOf(k, ops) PROVE c.op \notin ops
      BY <1>1, <1>2, <3>1, <3>3 DEF LastOf
    <3>4. d.op = "interval" /\ LastOf(k, Tables \cup {"interval"}) =>
              r.table.interval = d.interval
      BY <1>3, <3>2, <3>3 DEF Decided, Does
    <3>5. d.op = "columnstore" /\ LastOf(k, Tables \cup {"columnstore"}) =>
              r.table.columnstore = d.columnstore
      BY <1>3, <3>2, <3>3 DEF Decided, Does
    <3>6. d.op \in {"aggregate", "drop"} /\ LastOf(k, {"aggregate", "drop"}) =>
              (IsAggregate(r) <=> d.op = "aggregate")
      BY <1>3, <3>2, <3>3 DEF Decided, IsAggregate, Does
    <3>7. d.op = "realTime" /\ LastOf(k, {"aggregate", "drop", "realTime"}) =>
              r.view.realTime = d.realTime
      BY <1>3, <3>2, <3>3 DEF Decided, Does
    <3>8. d.op = "aggregateColumnstore" /\ LastOf(k, {"aggregate", "drop", "aggregateColumnstore"})
          => r.view.columnstore = d.columnstore
      BY <1>3, <3>2, <3>3 DEF Decided, Does
    <3> QED BY <1>1, <1>2, <3>4, <3>5, <3>6, <3>7, <3>8 DEF Decided, LastOf, IsAggregate
  <2> QED BY <2>1, <2>2
<1>8. AsPlanned'
  BY <1>2, <1>5, <1>6, <1>7 DEF AsPlanned
<1> QED BY <1>1, <1>2, <1>4, <1>8

(* What a call leaves alone, AsPlanned stays true of.                      *)
LEMMA SameTable ==
    ASSUME SetupInv, UNCHANGED <<plan, next>>,
           storage'.table = storage.table, storage'.view = storage.view
    PROVE  AsPlanned'
BY DEF SetupInv, AsPlanned, WholeConversion, Made, Decided, LastOf, IsHypertable, IsAggregate

LEMMA NextSetup == SetupInv /\ [SetupNext]_setupVars => SetupInv'
<1> SUFFICES ASSUME SetupInv, [SetupNext]_setupVars PROVE SetupInv'
  OBVIOUS
<1> USE DEF SetupInv
<1>1. CASE UNCHANGED setupVars
  BY <1>1, SameTable DEF setupVars, Done, Creates, IsHypertable
<1>2. ASSUME NEW s \in Services, Check(s) PROVE SetupInv'
  <2>1. AsPlanned'
    BY <1>2, SameTable DEF Check
  <2> QED BY <1>2, <2>1 DEF Check, Done, Creates, IsHypertable
<1>3. ASSUME NEW s \in Services, Exec(s) PROVE SetupInv'
  <2>1. /\ storage' \in StorageType
        /\ storage'.table.hash => IsHypertable(storage')
        /\ Creates(plan) => storage'.table.kind # "plain"
        /\ AsPlanned'
    BY <1>3, CallKeeps DEF Exec, Returns, TakesEffect
  <2> QED BY <1>3, <2>1 DEF Exec, Returns, Done, Creates, IsHypertable
<1>4. ASSUME NEW s \in Services, Fails(s) PROVE SetupInv'
  <2>1. CASE storage' = storage
    <3>1. AsPlanned'
      BY <1>4, <2>1, SameTable DEF Fails, Returns
    <3> QED BY <1>4, <2>1, <3>1 DEF Fails, Returns, Done, Creates, IsHypertable
  <2>2. CASE storage' = Outcome(s) /\ Outcome(s) # Refused
    <3>1. /\ storage' \in StorageType
          /\ storage'.table.hash => IsHypertable(storage')
          /\ Creates(plan) => storage'.table.kind # "plain"
          /\ AsPlanned'
      BY <1>4, <2>2, CallKeeps DEF Fails, Returns, TakesEffect
    <3> QED BY <1>4, <3>1 DEF Fails, Returns, Done, Creates, IsHypertable
  <2> QED BY <1>4, <2>1, <2>2 DEF Fails
<1>5. ASSUME InsertRow PROVE SetupInv'
  <2>1. /\ storage' = [storage EXCEPT !.data = TRUE] /\ UNCHANGED <<plan, next, checked>>
        /\ storage'.table = storage.table /\ storage'.view = storage.view
        /\ storage' \in StorageType
    BY <1>5 DEF InsertRow, StorageType
  <2>2. AsPlanned'
    BY <2>1, SameTable
  <2> QED BY <2>1, <2>2 DEF Done, Creates, IsHypertable
<1> QED BY <1>1, <1>2, <1>3, <1>4, <1>5 DEF SetupNext

(* Whatever the plan, its services and the failures: no conversion is seen *)
(* half done, what a service has behind it is there, and a call that all   *)
(* have behind them has the last word on what no later call changes.       *)
THEOREM StorageAsPlanned == FairSpec => []AsPlanned
<1>1. SetupSpec => []SetupInv
  BY InitSetup, NextSetup, PTL DEF SetupSpec
<1>2. SetupInv => AsPlanned
  BY DEF SetupInv
<1> QED BY <1>1, <1>2, PTL DEF FairSpec

-----------------------------------------------------------------------------
(***************************************************************************)
(* FrameQuery, for all values, lists and instants that callers may pass and*)
(* any number of calls.                                                    *)
(*                                                                         *)
(* The lemmas say what each renderer makes of a list: where the optional   *)
(* arguments of the bucket stand, what the SELECT list has, what a         *)
(* condition carries.  FrameInv says how far the statement is: valid, and  *)
(* the conditions rendered so far, with the numbers of their own arguments.*)
(***************************************************************************)

(* What calls make of a query object, and what travels as an argument.     *)
QueryType ==
    [width : Widths \cup {Open}, timezone : Zones \cup {NoZone}, origin : Origins \cup {NoTime},
     offset : Offsets \cup {Open}, offsetSet : BOOLEAN, dimensions : Seq(Columns),
     measures : Seq(Measures), predicates : Seq(Predicates), range : Int \X Int,
     rangeSet : BOOLEAN, gapfill : BOOLEAN, bucketAlias : Columns \cup {Bucket},
     select : TrustedSelects \cup {NoSelect}]

ArgumentType == Widths \cup {Open} \cup Zones \cup Int \cup Offsets \cup Values

(* Flooring an instant to a microsecond and comparing with whole ones.     *)
LEMMA Microseconds ==
    ASSUME NEW a \in Int, NEW t \in Int
    PROVE  /\ Timestamp(a) \in Int
           /\ Timestamp(a) <= t <=> a < (t + 1) * Micro
           /\ t < Timestamp(a) <=> (t + 1) * Micro <= a
<1> DEFINE q == a \div Micro
           r == a % Micro
<1>1. Micro \in Int /\ Micro > 0
  BY WidthAssumption
<1>2. a = Micro * q + r /\ q \in Int /\ r \in Int /\ 0 <= r /\ r < Micro
  BY <1>1
<1> HIDE DEF q, r
<1>3. ASSUME NEW x \in Int, NEW y \in Int, x <= y PROVE Micro * x <= Micro * y
  BY <1>1, <1>3
<1>4. CASE q <= t
  <2>1. q + 1 <= t + 1 /\ q + 1 \in Int /\ t + 1 \in Int
    BY <1>2, <1>4
  <2>2. Micro * (q + 1) <= Micro * (t + 1)
    BY <1>3, <2>1
  <2>3. Micro * (q + 1) = Micro * q + Micro /\ Micro * q \in Int
    BY <1>1, <1>2
  <2>4. a < Micro * q + Micro
    BY <1>1, <1>2, <2>3
  <2>5. Micro * (t + 1) = (t + 1) * Micro /\ Micro * (t + 1) \in Int
    BY <1>1
  <2>6. a < (t + 1) * Micro
    BY <1>1, <1>2, <2>2, <2>3, <2>4, <2>5
  <2> QED BY <1>1, <1>2, <1>4, <2>5, <2>6 DEF Timestamp, q
<1>5. CASE ~(q <= t)
  <2>1. t + 1 <= q /\ t + 1 \in Int
    BY <1>2, <1>5
  <2>2. Micro * (t + 1) <= Micro * q
    BY <1>2, <1>3, <2>1
  <2>3. Micro * (t + 1) = (t + 1) * Micro /\ Micro * (t + 1) \in Int /\ Micro * q \in Int
    BY <1>1, <1>2
  <2>4. (t + 1) * Micro <= a
    BY <1>2, <2>2, <2>3
  <2> QED BY <1>1, <1>2, <1>5, <2>3, <2>4 DEF Timestamp, q
<1> QED BY <1>4, <1>5

(* One optional argument: s is what was bound so far, a what was bound with*)
(* it, n where it stands.                                                  *)
Bound(s, a, n, given, value) ==
    /\ a \in Seq(ArgumentType) /\ Len(a) = Len(s) + (IF given THEN 1 ELSE 0)
    /\ \A i \in 1..Len(s) : a[i] = s[i]
    /\ IF given THEN n = Len(a) /\ a[n] = value ELSE n = Absent

LEMMA BindOptional ==
    ASSUME NEW s \in Seq(ArgumentType), NEW value, NEW given \in BOOLEAN,
           given => value \in ArgumentType, NEW a, a = IF given THEN Append(s, value) ELSE s
    PROVE  Bound(s, a, IF s = a THEN Absent ELSE Len(a), given, value)
<1>1. CASE given
  <2>1. /\ a \in Seq(ArgumentType) /\ Len(a) = Len(s) + 1 /\ a[Len(s) + 1] = value
        /\ \A i \in 1..Len(s) : a[i] = s[i]
    BY <1>1, AppendProperties
  <2>2. Len(s) \in Nat /\ s # a
    BY <2>1
  <2> QED BY <1>1, <2>1, <2>2 DEF Bound
<1>2. CASE ~given
  BY <1>2 DEF Bound
<1> QED BY <1>1, <1>2

(* RenderBucket: each optional argument that was set stands where the call *)
(* says, and no argument stands where none says.                           *)
BucketRendered(q, b) ==
    /\ b.args \in Seq(ArgumentType) /\ Len(b.args) >= 1
    /\ b.call.width = 1 /\ b.args[1] = q.width
    /\ IF q.timezone = NoZone THEN b.call.timezone = Absent
       ELSE b.call.timezone \in 1..Len(b.args) /\ b.args[b.call.timezone] = q.timezone
    /\ IF q.origin = NoTime THEN b.call.origin = Absent
       ELSE b.call.origin \in 1..Len(b.args) /\ b.args[b.call.origin] = Timestamp(q.origin)
    /\ IF q.offsetSet
       THEN b.call.offset \in 1..Len(b.args) /\ b.args[b.call.offset] = q.offset
       ELSE b.call.offset = Absent
    /\ 1..Len(b.args) =
          {b.call.width, b.call.timezone, b.call.origin, b.call.offset} \ {Absent}

LEMMA BucketOfQuery ==
    ASSUME NEW q \in QueryType, NEW g \in BOOLEAN, ValidBucket(q, g)
    PROVE  /\ BucketRendered(q, RenderBucket(q, g))
           /\ RenderBucket(q, g).call.function = IF g THEN "time_bucket_gapfill" ELSE "time_bucket"
<1> DEFINE s1 == <<q.width>>
           z == q.timezone # NoZone
           s2 == IF z THEN Append(s1, q.timezone) ELSE s1
           o == q.origin # NoTime
           s3 == IF o THEN Append(s2, Timestamp(q.origin)) ELSE s2
           f == q.offsetSet
           s4 == IF f THEN Append(s3, q.offset) ELSE s3
           At(before, after) == IF before = after THEN Absent ELSE Len(after)
           b == RenderBucket(q, g)
<1>1. g => q.origin = NoTime /\ ~q.offsetSet
  BY DEF ValidBucket
<1>2. /\ b.args = s4
      /\ b.call = [function |-> IF g THEN "time_bucket_gapfill" ELSE "time_bucket",
                   width |-> 1, timezone |-> At(s1, s2), origin |-> At(s2, s3),
                   offset |-> At(s3, s4)]
  BY <1>1 DEF RenderBucket, Bind
<1>3. /\ s1 \in Seq(ArgumentType) /\ Len(s1) = 1 /\ s1[1] = q.width
      /\ z \in BOOLEAN /\ (z => q.timezone \in ArgumentType)
      /\ o \in BOOLEAN /\ (o => Timestamp(q.origin) \in ArgumentType)
      /\ f \in BOOLEAN /\ q.offset \in ArgumentType
  <2>1. q.width \in ArgumentType /\ (z => q.timezone \in ArgumentType)
    BY DEF QueryType, ArgumentType
  <2>2. o => q.origin \in Int
    BY RangesAssumption DEF QueryType
  <2>3. o => Timestamp(q.origin) \in ArgumentType
    BY <2>2, Microseconds DEF ArgumentType
  <2>4. f \in BOOLEAN /\ q.offset \in ArgumentType
    BY DEF QueryType, ArgumentType
  <2> QED BY <2>1, <2>3, <2>4
<1> HIDE DEF s1, s2, s3, s4, z, o, f
<1>4. Bound(s1, s2, At(s1, s2), z, q.timezone)
  BY <1>3, BindOptional DEF s2
<1>5. Bound(s2, s3, At(s2, s3), o, Timestamp(q.origin))
  <2>1. s2 \in Seq(ArgumentType)
    BY <1>4 DEF Bound
  <2> QED BY <1>3, <2>1, BindOptional DEF s3
<1>6. Bound(s3, s4, At(s3, s4), f, q.offset)
  <2>1. s3 \in Seq(ArgumentType)
    BY <1>5 DEF Bound
  <2> QED BY <1>3, <2>1, BindOptional DEF s4
<1> DEFINE n2 == At(s1, s2)
           n3 == At(s2, s3)
           n4 == At(s3, s4)
<1>7. b.args = s4 /\ b.call.width = 1 /\ b.call.timezone = n2 /\ b.call.origin = n3
      /\ b.call.offset = n4
      /\ b.call.function = IF g THEN "time_bucket_gapfill" ELSE "time_bucket"
  BY <1>2
<1> HIDE DEF n2, n3, n4, b
<1>8. /\ Len(s2) \in Nat /\ Len(s3) \in Nat /\ Len(s4) \in Nat /\ s4 \in Seq(ArgumentType)
      /\ Len(s2) = 1 + (IF z THEN 1 ELSE 0) /\ Len(s3) = Len(s2) + (IF o THEN 1 ELSE 0)
      /\ Len(s4) = Len(s3) + (IF f THEN 1 ELSE 0)
      /\ \A i \in 1..Len(s1) : s2[i] = s1[i]
      /\ \A i \in 1..Len(s2) : s3[i] = s2[i]
      /\ \A i \in 1..Len(s3) : s4[i] = s3[i]
  BY <1>3, <1>4, <1>5, <1>6 DEF Bound
<1>9. /\ IF z THEN n2 = Len(s2) /\ s2[n2] = q.timezone ELSE n2 = Absent
      /\ IF o THEN n3 = Len(s3) /\ s3[n3] = Timestamp(q.origin) ELSE n3 = Absent
      /\ IF f THEN n4 = Len(s4) /\ s4[n4] = q.offset ELSE n4 = Absent
  BY <1>4, <1>5, <1>6 DEF Bound, n2, n3, n4
<1>10. /\ s4[1] = q.width
       /\ z => n2 \in 1..Len(s4) /\ s4[n2] = q.timezone
       /\ o => n3 \in 1..Len(s4) /\ s4[n3] = Timestamp(q.origin)
       /\ f => n4 \in 1..Len(s4) /\ s4[n4] = q.offset
  BY <1>3, <1>8, <1>9
<1>11. 1..Len(s4) = {1, n2, n3, n4} \ {Absent}
  <2>1. Absent \notin Nat
    BY NullsAssumption
  <2>2. /\ IF z THEN n2 = 2 ELSE n2 = Absent
        /\ IF o THEN n3 = 2 + (IF z THEN 1 ELSE 0) ELSE n3 = Absent
        /\ IF f THEN n4 = Len(s4) ELSE n4 = Absent
        /\ Len(s4) = 1 + (IF z THEN 1 ELSE 0) + (IF o THEN 1 ELSE 0) + (IF f THEN 1 ELSE 0)
    BY <1>8, <1>9
  <2>3. CASE z /\ o
    BY <2>1, <2>2, <2>3
  <2>4. CASE z /\ ~o
    BY <2>1, <2>2, <2>4
  <2>5. CASE ~z /\ o
    BY <2>1, <2>2, <2>5
  <2>6. CASE ~z /\ ~o
    BY <2>1, <2>2, <2>6
  <2> QED BY <2>3, <2>4, <2>5, <2>6
<1> QED BY <1>7, <1>8, <1>9, <1>10, <1>11 DEF BucketRendered, z, o, f, b

(* What stands where among the outputs, and in the SELECT list.            *)
Concatenated(s, first, n, d, m, e) ==
    /\ DOMAIN s = 1..(1 + n + m) /\ s[1] = first
    /\ \A i \in 1..n : s[1 + i] = d[i]
    /\ \A i \in 1..m : s[1 + n + i] = e[i]

LEMMA Listed ==
    ASSUME NEW S, NEW first \in S, NEW n \in Nat, NEW m \in Nat,
           NEW d, d \in [1..n -> S], NEW e, e \in [1..m -> S]
    PROVE  Concatenated(<<first>> \o d \o e, first, n, d, m, e)
<1>1. /\ d \in Seq(S) /\ Len(d) = n /\ e \in Seq(S) /\ Len(e) = m
      /\ <<first>> \in Seq(S) /\ Len(<<first>>) = 1
  OBVIOUS
<1> DEFINE h == <<first>> \o d
<1>2. /\ h \in Seq(S) /\ Len(h) = 1 + n
      /\ \A i \in 1..(1 + n) : h[i] = IF i <= 1 THEN <<first>>[i] ELSE d[i - 1]
  BY <1>1, ConcatProperties
<1> HIDE DEF h
<1>3. /\ h \o e \in Seq(S) /\ Len(h \o e) = 1 + n + m
      /\ \A i \in 1..(1 + n + m) :
            (h \o e)[i] = IF i <= 1 + n THEN h[i] ELSE e[i - (1 + n)]
  <2>1. /\ h \o e \in Seq(S) /\ Len(h \o e) = Len(h) + Len(e)
        /\ \A i \in 1..(Len(h) + Len(e)) :
              (h \o e)[i] = IF i <= Len(h) THEN h[i] ELSE e[i - Len(h)]
    BY <1>1, <1>2, ConcatProperties
  <2>2. Len(h) + Len(e) = 1 + n + m
    BY <1>1, <1>2
  <2> QED BY <1>2, <2>1, <2>2
<1>4. (h \o e)[1] = first
  BY <1>2, <1>3
<1>5. ASSUME NEW i \in 1..n PROVE (h \o e)[1 + i] = d[i]
  <2>1. (h \o e)[1 + i] = h[1 + i]
    BY <1>3
  <2>2. h[1 + i] = d[(1 + i) - 1]
    BY <1>2
  <2> QED BY <2>1, <2>2
<1>6. ASSUME NEW i \in 1..m PROVE (h \o e)[1 + n + i] = e[i]
  <2>1. (h \o e)[1 + n + i] = e[(1 + n + i) - (1 + n)]
    BY <1>3
  <2> QED BY <2>1
<1>7. DOMAIN (h \o e) = 1..(1 + n + m)
  BY <1>3
<1> QED BY <1>4, <1>5, <1>6, <1>7 DEF h, Concatenated

IsSelectList(s, q, b, g) ==
    LET n == Len(q.dimensions)
        m == Len(q.measures)
    IN /\ n \in Nat /\ m \in Nat /\ DOMAIN s = 1..(1 + n + m) /\ s[1] = Key(b)
       /\ \A i \in 1..n : s[1 + i] = Key(q.dimensions[i])
       /\ \A i \in 1..m : s[1 + n + i] = RenderMeasure(q.measures[i], g)

LEMMA SelectList ==
    ASSUME NEW q \in QueryType, NEW b, NEW g \in BOOLEAN
    PROVE  IsSelectList(Selects(q, b, g), q, b, g)
<1> DEFINE n == Len(q.dimensions)
           m == Len(q.measures)
           d == [i \in 1..n |-> Key(q.dimensions[i])]
           e == [i \in 1..m |-> RenderMeasure(q.measures[i], g)]
           S == {Key(b)} \cup {d[i] : i \in 1..n} \cup {e[i] : i \in 1..m}
<1>1. n \in Nat /\ m \in Nat
  BY DEF QueryType
<1>2. /\ \A i \in 1..n : d[i] = Key(q.dimensions[i])
      /\ \A i \in 1..m : e[i] = RenderMeasure(q.measures[i], g)
      /\ Selects(q, b, g) = <<Key(b)>> \o d \o e
  BY DEF Selects
<1> HIDE DEF n, m
<1>3. d \in [1..n -> S] /\ e \in [1..m -> S] /\ Key(b) \in S
  OBVIOUS
<1> HIDE DEF d, e, S
<1>4. Concatenated(<<Key(b)>> \o d \o e, Key(b), n, d, m, e)
  BY <1>1, <1>3, Listed
<1> QED BY <1>1, <1>2, <1>4 DEF n, m, Concatenated, IsSelectList

LEMMA OutputList ==
    ASSUME NEW q \in QueryType, NEW b
    PROVE  LET n == Len(q.dimensions)
               m == Len(q.measures)
           IN Concatenated(Outputs(q, b), b, n, q.dimensions,
                           m, [i \in 1..m |-> q.measures[i].alias])
<1> DEFINE n == Len(q.dimensions)
           m == Len(q.measures)
           e == [i \in 1..m |-> q.measures[i].alias]
           S == {b} \cup {q.dimensions[i] : i \in 1..n} \cup {e[i] : i \in 1..m}
<1>1. n \in Nat /\ m \in Nat /\ q.dimensions = [i \in 1..n |-> q.dimensions[i]]
  BY DEF QueryType
<1>2. q.dimensions \in [1..n -> S] /\ e \in [1..m -> S] /\ b \in S
  BY <1>1
<1>3. Outputs(q, b) = <<b>> \o q.dimensions \o e
  BY DEF Outputs
<1> HIDE DEF n, m, e, S
<1>4. Concatenated(<<b>> \o q.dimensions \o e, b, n, q.dimensions, m, e)
  BY <1>1, <1>2, Listed
<1> QED BY <1>3, <1>4 DEF n, m, e

LEMMA KeyFields ==
    ASSUME NEW name
    PROVE  /\ Key(name).alias = name /\ ~Key(name).aggregate /\ Key(name).function = "none"
           /\ ~Key(name).nulls /\ Key(name).next = ""
BY DEF Key

LEMMA MeasureFields ==
    ASSUME NEW m, NEW g \in BOOLEAN
    PROVE  /\ RenderMeasure(m, g).alias = m.alias /\ RenderMeasure(m, g).aggregate
           /\ RenderMeasure(m, g).function = (IF g /\ m.fill # "null" THEN m.fill ELSE "none")
           /\ RenderMeasure(m, g).nulls <=> g /\ m.treatNullAsMissing
           /\ RenderMeasure(m, g).next = (IF g /\ m.fill = "interpolate" THEN m.next ELSE "")
BY DEF RenderMeasure

(* What Executable asks of a SELECT list, and of the GROUP BY list.        *)
ListRuns(s, n, g) ==
    /\ IsInjective([i \in DOMAIN s |-> s[i].alias])
    /\ 1..(1 + n) = {i \in DOMAIN s : ~s[i].aggregate}
    /\ \A i \in DOMAIN s :
          /\ s[i].function # "none" => g
          /\ s[i].nulls => s[i].function = "locf"
          /\ s[i].next # "" => s[i].function = "interpolate"

(* The columns of the SELECT list are the outputs that are validated, the  *)
(* GROUP BY list numbers those that are no aggregate, and a function that  *)
(* fills gaps is selected only when the bucket is one with gaps filled.    *)
LEMMA SelectListRuns ==
    ASSUME NEW q \in QueryType, NEW b, NEW g \in BOOLEAN, ValidOutputs(q, b)
    PROVE  ListRuns(Selects(q, b, g), Len(q.dimensions), g)
<1> DEFINE s == Selects(q, b, g)
           n == Len(q.dimensions)
           m == Len(q.measures)
           o == Outputs(q, b)
<1>0. IsSelectList(s, q, b, g)
  BY SelectList
<1>1. /\ DOMAIN s = 1..(1 + n + m) /\ n \in Nat /\ m \in Nat
      /\ s[1] = Key(b)
      /\ \A i \in 1..n : s[1 + i] = Key(q.dimensions[i])
      /\ \A i \in 1..m : s[1 + n + i] = RenderMeasure(q.measures[i], g)
  <2> HIDE DEF s
  <2> QED BY <1>0 DEF IsSelectList
<1>2. /\ DOMAIN o = 1..(1 + n + m)
      /\ o[1] = b
      /\ \A i \in 1..n : o[1 + i] = q.dimensions[i]
      /\ \A i \in 1..m : o[1 + n + i] = q.measures[i].alias
  <2>1. Concatenated(o, b, n, q.dimensions, m, [i \in 1..m |-> q.measures[i].alias])
    BY OutputList
  <2> HIDE DEF o, s, n, m
  <2> QED BY <2>1 DEF Concatenated
<1>3. IsInjective(o) /\ \A i \in 1..m : ValidMeasure(q.measures[i])
  BY DEF ValidOutputs
<1> HIDE DEF s, o, n, m
<1>4. ASSUME NEW i \in DOMAIN s
      PROVE  \/ i = 1
             \/ \E k \in 1..n : i = 1 + k
             \/ \E k \in 1..m : i = 1 + n + k
  <2>1. i \in 1..(1 + n + m)
    BY <1>1
  <2>2. CASE i > 1 /\ i <= 1 + n
    <3>1. i - 1 \in 1..n /\ i = 1 + (i - 1)
      BY <1>1, <2>1, <2>2
    <3> QED BY <3>1
  <2>3. CASE i > 1 + n
    <3>1. i - (1 + n) \in 1..m /\ i = 1 + n + (i - (1 + n))
      BY <1>1, <2>1, <2>3
    <3> QED BY <3>1
  <2> QED BY <1>1, <2>1, <2>2, <2>3
<1>5. ASSUME NEW i \in DOMAIN s
      PROVE  /\ s[i].alias = o[i] /\ (s[i].aggregate <=> i \notin 1..(1 + n))
             /\ s[i].function # "none" => g
             /\ s[i].nulls => s[i].function = "locf"
             /\ s[i].next # "" => s[i].function = "interpolate"
  <2>1. CASE i = 1 \/ \E k \in 1..n : i = 1 + k
    <3>1. s[i] = Key(o[i]) /\ i \in 1..(1 + n)
      BY <1>1, <1>2, <2>1
    <3> QED BY <3>1, KeyFields
  <2>2. ASSUME NEW k \in 1..m, i = 1 + n + k
        PROVE  /\ s[i].alias = o[i] /\ (s[i].aggregate <=> i \notin 1..(1 + n))
               /\ s[i].function # "none" => g
               /\ s[i].nulls => s[i].function = "locf"
               /\ s[i].next # "" => s[i].function = "interpolate"
    <3>1. /\ s[i] = RenderMeasure(q.measures[k], g) /\ o[i] = q.measures[k].alias
          /\ i \notin 1..(1 + n)
      BY <1>1, <1>2, <2>2
    <3>2. q.measures[k].treatNullAsMissing => q.measures[k].fill = "locf"
      BY <1>3 DEF ValidMeasure
    <3>3. /\ s[i].alias = q.measures[k].alias /\ s[i].aggregate
          /\ s[i].function = (IF g /\ q.measures[k].fill # "null"
                              THEN q.measures[k].fill ELSE "none")
          /\ s[i].nulls <=> g /\ q.measures[k].treatNullAsMissing
          /\ s[i].next = (IF g /\ q.measures[k].fill = "interpolate"
                          THEN q.measures[k].next ELSE "")
      <4> DEFINE x == q.measures[k]
      <4>1. /\ RenderMeasure(x, g).alias = x.alias /\ RenderMeasure(x, g).aggregate
            /\ RenderMeasure(x, g).function = (IF g /\ x.fill # "null" THEN x.fill ELSE "none")
            /\ RenderMeasure(x, g).nulls <=> g /\ x.treatNullAsMissing
            /\ RenderMeasure(x, g).next = (IF g /\ x.fill = "interpolate" THEN x.next ELSE "")
        BY MeasureFields
      <4> QED BY <3>1, <4>1
    <3>4. /\ s[i].function # "none" => g
          /\ s[i].nulls => s[i].function = "locf"
          /\ s[i].next # "" => s[i].function = "interpolate"
      BY <3>2, <3>3
    <3> QED BY <3>1, <3>3, <3>4
  <2> QED BY <1>4, <2>1, <2>2
<1>7. IsInjective([i \in DOMAIN s |-> s[i].alias])
  <2> DEFINE a == [i \in DOMAIN s |-> s[i].alias]
  <2>1. DOMAIN a = DOMAIN o /\ \A i \in DOMAIN o : a[i] = o[i]
    BY <1>1, <1>2, <1>5
  <2> HIDE DEF a
  <2>2. IsInjective(a)
    BY <1>3, <2>1 DEF IsInjective
  <2> QED BY <2>2 DEF a
<1>8. 1..(1 + n) = {i \in DOMAIN s : ~s[i].aggregate}
  <2>1. \A i \in DOMAIN s : ~s[i].aggregate <=> i \in 1..(1 + n)
    BY <1>5
  <2>2. 1..(1 + n) \subseteq DOMAIN s
    BY <1>1
  <2> QED BY <2>1, <2>2
<1> QED BY <1>5, <1>7, <1>8 DEF s, n, ListRuns

(* A condition of the statement carries a predicate of the query: its      *)
(* operator, and for each value the number of an argument that holds it.   *)
Operators == Scalar \cup Lists \cup {"IS NULL", "TRUE", "FALSE"}
ConditionType == [column : STRING, op : Operators, at : Seq(Nat)]

Carries(w, p, args) ==
    /\ w.op = Operator(p) /\ DOMAIN w.at = 1..Len(p.values)
    /\ \A k \in 1..Len(p.values) : w.at[k] \in 1..Len(args) /\ args[w.at[k]] = p.values[k]

Extends(args, longer) ==
    /\ longer \in Seq(ArgumentType) /\ Len(args) <= Len(longer)
    /\ \A i \in 1..Len(args) : longer[i] = args[i]

(* A predicate's values are appended, and numbered where they come to lie. *)
LEMMA ConditionRendered ==
    ASSUME NEW args \in Seq(ArgumentType), NEW p \in PredicateType
    PROVE  /\ Condition(args, p) \in ConditionType
           /\ Extends(args, args \o p.values)
           /\ Carries(Condition(args, p), p, args \o p.values)
           /\ Range(Condition(args, p).at) = (Len(args) + 1)..Len(args \o p.values)
<1> DEFINE n == Len(args)
           m == Len(p.values)
           w == Condition(args, p)
           r == args \o p.values
<1>1. n \in Nat /\ m \in Nat /\ p.values \in Seq(ArgumentType)
  <2>1. p.values \in Seq(Values)
    BY DEF PredicateType
  <2>2. Values \subseteq ArgumentType
    BY DEF ArgumentType
  <2> QED BY <2>1, <2>2
<1>2. /\ r \in Seq(ArgumentType) /\ Len(r) = n + m
      /\ \A i \in 1..(n + m) : r[i] = IF i <= n THEN args[i] ELSE p.values[i - n]
  BY <1>1, ConcatProperties
<1>3. w.column = p.column /\ w.op = Operator(p) /\ w.at = [i \in 1..m |-> n + i]
      /\ w = [column |-> p.column, op |-> Operator(p), at |-> [i \in 1..m |-> n + i]]
  BY DEF Condition
<1> HIDE DEF n, m, w, r
<1>4. Operator(p) \in Operators /\ p.column \in STRING
  BY DEF PredicateType, Operator, Operators
<1>5. [i \in 1..m |-> n + i] \in Seq(Nat)
  BY <1>1
<1>6. w \in ConditionType
  BY <1>3, <1>4, <1>5 DEF ConditionType
<1>7. Extends(args, r)
  BY <1>1, <1>2 DEF Extends, n
<1>8. ASSUME NEW k \in 1..m PROVE w.at[k] \in 1..Len(r) /\ r[w.at[k]] = p.values[k]
  <2>1. w.at[k] = n + k
    BY <1>3
  <2>2. n + k \in 1..(n + m) /\ ~(n + k <= n) /\ (n + k) - n = k
    BY <1>1
  <2>3. r[n + k] = p.values[(n + k) - n]
    BY <1>2, <2>2
  <2> QED BY <1>2, <2>1, <2>2, <2>3
<1>9. Carries(w, p, r)
  <2>1. w.op = Operator(p) /\ DOMAIN w.at = 1..m
    BY <1>3
  <2> QED BY <1>8, <2>1 DEF Carries, m
<1>10. Range(w.at) = (n + 1)..(n + m)
  <2>1. Range(w.at) = {n + k : k \in 1..m}
    BY <1>3 DEF Range
  <2>2. ASSUME NEW j \in (n + 1)..(n + m) PROVE j \in {n + k : k \in 1..m}
    <3>1. j - n \in 1..m /\ j = n + (j - n)
      BY <1>1
    <3> QED BY <3>1
  <2>3. {n + k : k \in 1..m} \subseteq (n + 1)..(n + m)
    BY <1>1
  <2> QED BY <2>1, <2>2, <2>3
<1> QED BY <1>2, <1>6, <1>7, <1>9, <1>10 DEF n, m, w, r

(* What the conditions of a statement are, once some predicates are        *)
(* rendered: those carried, and the arguments after the first n are theirs.*)
Conditions(wheres, predicates, n, args) ==
    /\ wheres \in Seq(ConditionType) /\ Len(wheres) <= Len(predicates)
    /\ \A i \in 1..Len(wheres) : Carries(wheres[i], predicates[i], args)
    /\ UNION {Range(wheres[i].at) : i \in DOMAIN wheres} = (n + 1)..Len(args)

LEMMA ConditionAdded ==
    ASSUME NEW predicates \in Seq(PredicateType), NEW args \in Seq(ArgumentType),
           NEW n \in Nat, n <= Len(args), NEW wheres, Conditions(wheres, predicates, n, args),
           Len(wheres) < Len(predicates),
           NEW p, p = predicates[Len(wheres) + 1]
    PROVE  Conditions(Append(wheres, Condition(args, p)), predicates, n, args \o p.values)
<1> DEFINE l == Len(wheres)
           w == Condition(args, p)
           r == args \o p.values
           a == Append(wheres, w)
<1>1. l \in Nat /\ p \in PredicateType /\ l + 1 \in 1..Len(predicates)
  BY DEF Conditions
<1>2. /\ w \in ConditionType /\ Extends(args, r) /\ Carries(w, p, r)
      /\ Range(w.at) = (Len(args) + 1)..Len(r)
  BY <1>1, ConditionRendered
<1>3. /\ wheres \in Seq(ConditionType) /\ DOMAIN wheres = 1..l
      /\ \A i \in 1..l : Carries(wheres[i], predicates[i], args)
      /\ UNION {Range(wheres[i].at) : i \in 1..l} = (n + 1)..Len(args)
  <2>1. wheres \in Seq(ConditionType) /\ \A i \in 1..l : Carries(wheres[i], predicates[i], args)
    BY DEF Conditions
  <2>2. UNION {Range(wheres[i].at) : i \in DOMAIN wheres} = (n + 1)..Len(args)
    BY DEF Conditions
  <2>3. DOMAIN wheres = 1..l
    BY <2>1
  <2> HIDE DEF l
  <2>4. {Range(wheres[i].at) : i \in DOMAIN wheres} = {Range(wheres[i].at) : i \in 1..l}
    BY <2>3
  <2> QED BY <2>1, <2>2, <2>3, <2>4
<1> HIDE DEF w, r
<1>4. /\ a \in Seq(ConditionType) /\ Len(a) = l + 1 /\ a[l + 1] = w
      /\ \A i \in 1..l : a[i] = wheres[i]
      /\ DOMAIN a = 1..(l + 1)
  BY <1>1, <1>2, <1>3, AppendProperties
<1> HIDE DEF a, l
<1>5. ASSUME NEW i \in 1..(l + 1) PROVE Carries(a[i], predicates[i], r)
  <2>1. CASE i = l + 1
    BY <1>2, <1>4, <2>1 DEF l
  <2>2. CASE i # l + 1
    <3>1. i \in 1..l /\ a[i] = wheres[i] /\ Carries(wheres[i], predicates[i], args)
      BY <1>1, <1>3, <1>4, <2>2
    <3>2. /\ Len(args) \in Nat /\ Len(r) \in Nat /\ Len(args) <= Len(r)
          /\ \A j \in 1..Len(args) : j \in 1..Len(r) /\ r[j] = args[j]
      BY <1>2 DEF Extends
    <3> QED BY <3>1, <3>2 DEF Carries
  <2> QED BY <2>1, <2>2
<1>6. UNION {Range(a[i].at) : i \in DOMAIN a} = (n + 1)..Len(r)
  <2>1. {Range(a[i].at) : i \in DOMAIN a}
            = {Range(wheres[i].at) : i \in 1..l} \cup {Range(w.at)}
    <3>1. \A i \in 1..l : i \in DOMAIN a /\ Range(a[i].at) = Range(wheres[i].at)
      BY <1>1, <1>4
    <3>2. l + 1 \in DOMAIN a /\ Range(a[l + 1].at) = Range(w.at)
      BY <1>1, <1>4
    <3>3. \A i \in DOMAIN a : i \in 1..l \/ i = l + 1
      BY <1>1, <1>4
    <3> QED BY <3>1, <3>2, <3>3
  <2>2. UNION {Range(a[i].at) : i \in DOMAIN a}
            = (UNION {Range(wheres[i].at) : i \in 1..l}) \cup Range(w.at)
    BY <2>1
  <2>3. /\ Len(args) \in Nat /\ Len(r) \in Nat /\ Len(args) <= Len(r)
    BY <1>2 DEF Extends
  <2>4. ((n + 1)..Len(args)) \cup ((Len(args) + 1)..Len(r)) = (n + 1)..Len(r)
    BY <2>3
  <2> QED BY <1>2, <1>3, <2>2, <2>4
<1> QED BY <1>1, <1>4, <1>5, <1>6 DEF Conditions, a, l, w, r

(* The statement of a frame query as far as it is rendered: valid, with the*)
(* bucket, the SELECT list and the range as RenderFrame makes them, and the*)
(* conditions so far.                                                      *)
Fields == {"bucket", "selects", "range", "wheres", "groups", "args"}

Rendered(q, st) ==
    LET f == RenderFrame(q, Gapfill(q))
    IN /\ ValidFrame(q, Gapfill(q))
       /\ DOMAIN st = Fields
       /\ st.bucket = f.bucket /\ st.selects = f.selects /\ st.range = f.range
       /\ st.groups = f.groups
       /\ f.args \in Seq(ArgumentType) /\ Extends(f.args, st.args)
       /\ Conditions(st.wheres, q.predicates, Len(f.args), st.args)

(* The arguments before the conditions: the bucket's, then the range's.    *)
LEMMA FrameArguments ==
    ASSUME NEW q \in QueryType, NEW g \in BOOLEAN, ValidBucket(q, g)
    PROVE  LET f == RenderFrame(q, g)
               b == RenderBucket(q, g)
               n == Len(b.args)
           IN /\ f.args \in Seq(ArgumentType) /\ n \in Nat /\ Len(f.args) = n + 2
              /\ \A i \in 1..n : f.args[i] = b.args[i]
              /\ f.args[n + 1] = Timestamp(q.range[1]) /\ f.args[n + 2] = Timestamp(q.range[2])
              /\ f.range = <<n + 1, n + 2>>
<1> DEFINE a == RenderBucket(q, g).args
           t == <<Timestamp(q.range[1]), Timestamp(q.range[2])>>
           n == Len(a)
           r == a \o t
<1>1. a \in Seq(ArgumentType) /\ n \in Nat
  BY BucketOfQuery DEF BucketRendered
<1>2. t \in Seq(ArgumentType) /\ Len(t) = 2
  <2>1. q.range[1] \in Int /\ q.range[2] \in Int
    BY DEF QueryType
  <2>2. Timestamp(q.range[1]) \in ArgumentType /\ Timestamp(q.range[2]) \in ArgumentType
    BY <2>1, Microseconds DEF ArgumentType
  <2> QED BY <2>2
<1>3. RenderFrame(q, g).args = r /\ RenderFrame(q, g).range = <<Len(r) - 1, Len(r)>>
  BY DEF RenderFrame
<1>4. t[1] = Timestamp(q.range[1]) /\ t[2] = Timestamp(q.range[2])
  OBVIOUS
<1> HIDE DEF a, t
<1>5. /\ r \in Seq(ArgumentType) /\ Len(r) = n + 2
      /\ \A i \in 1..(n + 2) : r[i] = IF i <= n THEN a[i] ELSE t[i - n]
  <2>1. /\ r \in Seq(ArgumentType) /\ Len(r) = n + Len(t)
        /\ \A i \in 1..(n + Len(t)) : r[i] = IF i <= n THEN a[i] ELSE t[i - n]
    BY <1>1, <1>2, ConcatProperties
  <2> HIDE DEF r
  <2> QED BY <1>2, <2>1
<1> HIDE DEF r
<1>6. r[n + 1] = t[1] /\ r[n + 2] = t[2]
  BY <1>1, <1>5
<1>7. <<Len(r) - 1, Len(r)>> = <<n + 1, n + 2>>
  BY <1>1, <1>5
<1> QED BY <1>1, <1>3, <1>4, <1>5, <1>6, <1>7 DEF a

LEMMA GapfillIsBoolean ==
    ASSUME NEW q \in QueryType
    PROVE  Gapfill(q) \in BOOLEAN
BY DEF Gapfill, QueryType

(* Build up to its loop, and one round of the loop.                        *)
LEMMA RenderingStarts ==
    ASSUME NEW q \in QueryType, ValidFrame(q, Gapfill(q))
    PROVE  Rendered(q, RenderFrame(q, Gapfill(q)))
<1> DEFINE g == Gapfill(q)
           f == RenderFrame(q, g)
<1>1. g \in BOOLEAN /\ ValidBucket(q, g)
  BY GapfillIsBoolean DEF ValidFrame
<1>2. f.args \in Seq(ArgumentType)
  BY <1>1, FrameArguments
<1>3. DOMAIN f = Fields /\ f.wheres = <<>>
  BY DEF RenderFrame, Fields
<1> HIDE DEF f
<1>4. Extends(f.args, f.args)
  BY <1>2 DEF Extends
<1>5. Conditions(<<>>, q.predicates, Len(f.args), f.args)
  <2>1. Len(f.args) \in Nat /\ q.predicates \in Seq(Predicates)
    BY <1>2 DEF QueryType
  <2>2. (Len(f.args) + 1)..Len(f.args) = {}
    BY <2>1
  <2>3. <<>> \in Seq(ConditionType) /\ Len(<<>>) = 0 /\ DOMAIN <<>> = {}
    OBVIOUS
  <2>4. {Range(<<>>[i].at) : i \in DOMAIN <<>>} = {}
    BY <2>3
  <2> QED BY <2>1, <2>2, <2>3, <2>4 DEF Conditions
<1> QED BY <1>2, <1>3, <1>4, <1>5 DEF Rendered, f

LEMMA RenderingGoesOn ==
    ASSUME NEW q \in QueryType, NEW st, Rendered(q, st), Len(st.wheres) < Len(q.predicates)
    PROVE  Rendered(q, RenderPredicate(st, q.predicates[Len(st.wheres) + 1]))
<1> DEFINE f == RenderFrame(q, Gapfill(q))
           p == q.predicates[Len(st.wheres) + 1]
           r == RenderPredicate(st, p)
<1>1. /\ st.args \in Seq(ArgumentType) /\ f.args \in Seq(ArgumentType)
      /\ Extends(f.args, st.args) /\ Conditions(st.wheres, q.predicates, Len(f.args), st.args)
  BY DEF Rendered, Extends
<1>2. /\ DOMAIN r = Fields /\ r.bucket = st.bucket /\ r.selects = st.selects
      /\ r.range = st.range /\ r.groups = st.groups
      /\ r.args = st.args \o p.values /\ r.wheres = Append(st.wheres, Condition(st.args, p))
  <2>1. DOMAIN st = Fields
    BY DEF Rendered
  <2> QED BY <2>1 DEF RenderPredicate, Fields
<1> HIDE DEF f, r
<1>3. q.predicates \in Seq(PredicateType)
  <2>1. q.predicates \in Seq(Predicates) /\ Predicates \subseteq PredicateType
    BY TypesAssumption DEF QueryType
  <2> QED BY <2>1
<1>4. p \in PredicateType
  BY <1>1, <1>3 DEF Conditions
<1>5. Len(f.args) \in Nat /\ Len(f.args) <= Len(st.args)
  BY <1>1 DEF Extends
<1>6. Conditions(r.wheres, q.predicates, Len(f.args), r.args)
  BY <1>1, <1>2, <1>3, <1>5, ConditionAdded
<1>7. Extends(st.args, r.args)
  BY <1>1, <1>2, <1>4, ConditionRendered
<1>8. Extends(f.args, r.args)
  <2>1. /\ Len(st.args) \in Nat /\ Len(r.args) \in Nat /\ Len(f.args) \in Nat
        /\ \A i \in 1..Len(f.args) : i \in 1..Len(st.args)
    BY <1>1, <1>5, <1>7 DEF Extends
  <2> QED BY <1>1, <1>7, <2>1 DEF Extends
<1> QED BY <1>1, <1>2, <1>6, <1>8 DEF Rendered, f, r

(* The induction: the types of the object and how far its statement is.    *)
FrameInv ==
    /\ target \in {"frame", "aggregate"} /\ phase \in {"calls", "rendering", "built"}
    /\ query \in QueryType /\ (~query.offsetSet => query.offset = Open)
    /\ phase = "rendering" => target = "frame"
    /\ target = "frame" /\ phase # "calls" => Rendered(query, statement)
    /\ target = "frame" /\ phase = "built" => Len(statement.wheres) = Len(query.predicates)
    /\ target = "frame" => query.select = NoSelect
    /\ target = "aggregate" /\ phase = "built" /\ query.select # NoSelect =>
          statement = query.select /\ ValidTrusted(query.select)
    /\ target = "aggregate" /\ phase = "built" /\ query.select = NoSelect =>
          /\ ValidAggregate(query)
          /\ statement.bucket = RenderLiteral(query)
          /\ statement.selects = Selects(query, query.bucketAlias, FALSE)
          /\ statement.groups = 1..(1 + Len(query.dimensions))

LEMMA InitFrame == FrameInit => FrameInv
<1> SUFFICES ASSUME FrameInit PROVE FrameInv
  OBVIOUS
<1>1. target \in {"frame", "aggregate"} /\ phase = "calls" /\ query = NewQuery
  BY CallsAssumption DEF FrameInit
<1>2. NewQuery \in QueryType /\ NewQuery.offset = Open /\ NewQuery.select = NoSelect
  BY DEF NewQuery, QueryType, Bucket
<1> QED BY <1>1, <1>2 DEF FrameInv

(* A call changes one field to what callers pass, and drops the statement. *)
LEMMA CallsKeep ==
    ASSUME FrameInv, Both \/ FrameOnly \/ AggregateOnly
    PROVE  FrameInv'
<1>1. ASSUME NEW q \in QueryType, ~q.offsetSet => q.offset = Open, Change(q),
             target = "frame" => q.select = NoSelect
      PROVE  FrameInv'
  <2>1. target' = target /\ query' = q /\ phase' = "calls"
    BY <1>1 DEF Change
  <2> QED BY <1>1, <2>1 DEF FrameInv
<1>2. /\ query \in QueryType /\ (~query.offsetSet => query.offset = Open)
      /\ target = "frame" => query.select = NoSelect
  BY DEF FrameInv
<1>3. CASE \E w \in Widths : Change([query EXCEPT !.width = w])
  <2>1. PICK w \in Widths : Change([query EXCEPT !.width = w])
    BY <1>3
  <2> DEFINE q == [query EXCEPT !.width = w]
  <2>2. /\ q \in QueryType /\ (~q.offsetSet => q.offset = Open)
        /\ target = "frame" => q.select = NoSelect
    BY <1>2 DEF QueryType
  <2> QED BY <1>1, <2>1, <2>2
<1>4. CASE \E z \in Zones : Change([query EXCEPT !.timezone = z])
  <2>1. PICK z \in Zones : Change([query EXCEPT !.timezone = z])
    BY <1>4
  <2> DEFINE q == [query EXCEPT !.timezone = z]
  <2>2. /\ q \in QueryType /\ (~q.offsetSet => q.offset = Open)
        /\ target = "frame" => q.select = NoSelect
    BY <1>2 DEF QueryType
  <2> QED BY <1>1, <2>1, <2>2
<1>5. CASE \E t \in Origins : Change([query EXCEPT !.origin = t])
  <2>1. PICK t \in Origins : Change([query EXCEPT !.origin = t])
    BY <1>5
  <2> DEFINE q == [query EXCEPT !.origin = t]
  <2>2. /\ q \in QueryType /\ (~q.offsetSet => q.offset = Open)
        /\ target = "frame" => q.select = NoSelect
    BY <1>2 DEF QueryType
  <2> QED BY <1>1, <2>1, <2>2
<1>6. CASE \E o \in Offsets : Change([query EXCEPT !.offset = o, !.offsetSet = TRUE])
  <2>1. PICK o \in Offsets : Change([query EXCEPT !.offset = o, !.offsetSet = TRUE])
    BY <1>6
  <2> DEFINE q == [query EXCEPT !.offset = o, !.offsetSet = TRUE]
  <2>2. /\ q \in QueryType /\ (~q.offsetSet => q.offset = Open)
        /\ target = "frame" => q.select = NoSelect
    BY <1>2 DEF QueryType
  <2> QED BY <1>1, <2>1, <2>2
<1>7. CASE \E c \in Columns : Change([query EXCEPT !.dimensions = Append(@, c)])
  <2>1. PICK c \in Columns : Change([query EXCEPT !.dimensions = Append(@, c)])
    BY <1>7
  <2> DEFINE l == Append(query.dimensions, c)
             q == [query EXCEPT !.dimensions = l]
  <2>2. l \in Seq(Columns)
    BY <1>2 DEF QueryType
  <2>3. Change(q)
    BY <2>1
  <2> HIDE DEF l
  <2>4. /\ q \in QueryType /\ (~q.offsetSet => q.offset = Open)
        /\ target = "frame" => q.select = NoSelect
    BY <1>2, <2>2 DEF QueryType
  <2> QED BY <1>1, <2>3, <2>4
<1>8. CASE \E m \in Measures : Change([query EXCEPT !.measures = Append(@, m)])
  <2>1. PICK m \in Measures : Change([query EXCEPT !.measures = Append(@, m)])
    BY <1>8
  <2> DEFINE l == Append(query.measures, m)
             q == [query EXCEPT !.measures = l]
  <2>2. l \in Seq(Measures)
    BY <1>2 DEF QueryType
  <2>3. Change(q)
    BY <2>1
  <2> HIDE DEF l
  <2>4. /\ q \in QueryType /\ (~q.offsetSet => q.offset = Open)
        /\ target = "frame" => q.select = NoSelect
    BY <1>2, <2>2 DEF QueryType
  <2> QED BY <1>1, <2>3, <2>4
<1>9. CASE \E r \in Ranges : Change([query EXCEPT !.range = r, !.rangeSet = TRUE])
  <2>1. PICK r \in Ranges : Change([query EXCEPT !.range = r, !.rangeSet = TRUE])
    BY <1>9
  <2> DEFINE q == [query EXCEPT !.range = r, !.rangeSet = TRUE]
  <2>2. r \in Int \X Int
    BY RangesAssumption
  <2>3. /\ q \in QueryType /\ (~q.offsetSet => q.offset = Open)
        /\ target = "frame" => q.select = NoSelect
    BY <1>2, <2>2 DEF QueryType
  <2> QED BY <1>1, <2>1, <2>3
<1>10. CASE \E p \in Predicates : Change([query EXCEPT !.predicates = Append(@, p)])
  <2>1. PICK p \in Predicates : Change([query EXCEPT !.predicates = Append(@, p)])
    BY <1>10
  <2> DEFINE l == Append(query.predicates, p)
             q == [query EXCEPT !.predicates = l]
  <2>2. l \in Seq(Predicates)
    BY <1>2 DEF QueryType
  <2>3. Change(q)
    BY <2>1
  <2> HIDE DEF l
  <2>4. /\ q \in QueryType /\ (~q.offsetSet => q.offset = Open)
        /\ target = "frame" => q.select = NoSelect
    BY <1>2, <2>2 DEF QueryType
  <2> QED BY <1>1, <2>3, <2>4
<1>11. CASE Change([query EXCEPT !.gapfill = TRUE])
  <2> DEFINE q == [query EXCEPT !.gapfill = TRUE]
  <2>1. /\ q \in QueryType /\ (~q.offsetSet => q.offset = Open)
        /\ target = "frame" => q.select = NoSelect
    BY <1>2 DEF QueryType
  <2> QED BY <1>1, <1>11, <2>1
<1>12. CASE target = "aggregate" /\ \E c \in Columns : Change([query EXCEPT !.bucketAlias = c])
  <2>1. PICK c \in Columns : Change([query EXCEPT !.bucketAlias = c])
    BY <1>12
  <2> DEFINE q == [query EXCEPT !.bucketAlias = c]
  <2>2. /\ q \in QueryType /\ (~q.offsetSet => q.offset = Open)
        /\ target = "frame" => q.select = NoSelect
    BY <1>2 DEF QueryType
  <2> QED BY <1>1, <2>1, <2>2
<1>13. CASE target = "aggregate" /\ \E s \in TrustedSelects : Change([query EXCEPT !.select = s])
  <2>1. PICK s \in TrustedSelects : Change([query EXCEPT !.select = s])
    BY <1>13
  <2> DEFINE q == [query EXCEPT !.select = s]
  <2>2. /\ q \in QueryType /\ (~q.offsetSet => q.offset = Open)
        /\ target = "frame" => q.select = NoSelect
    BY <1>2, <1>13 DEF QueryType
  <2> QED BY <1>1, <2>1, <2>2
<1> QED BY <1>3, <1>4, <1>5, <1>6, <1>7, <1>8, <1>9, <1>10, <1>11, <1>12, <1>13
        DEF Both, FrameOnly, AggregateOnly

LEMMA NextFrame == FrameInv /\ [FrameNext]_frameVars => FrameInv'
<1> SUFFICES ASSUME FrameInv, [FrameNext]_frameVars PROVE FrameInv'
  OBVIOUS
<1>1. CASE UNCHANGED frameVars
  BY <1>1 DEF FrameInv, frameVars
<1>2. CASE Both \/ FrameOnly \/ AggregateOnly
  BY <1>2, CallsKeep
<1>3. CASE Build
  <2>1. /\ target = "frame" /\ ValidFrame(query, Gapfill(query)) /\ query \in QueryType
        /\ target' = target /\ query' = query
    BY <1>3 DEF Build, FrameInv
  <2>2. ~Unrendered(query, Gapfill(query))
    BY DEF Unrendered, Gapfill
  <2>3. phase' = "rendering" /\ statement' = RenderFrame(query, Gapfill(query))
    BY <1>3, <2>2 DEF Build
  <2>4. Rendered(query, RenderFrame(query, Gapfill(query)))
    BY <2>1, RenderingStarts
  <2> QED BY <2>1, <2>3, <2>4 DEF FrameInv
<1>4. CASE RenderNext
  <2>1. /\ phase = "rendering" /\ phase' = phase /\ target' = target /\ query' = query
        /\ target = "frame" /\ query \in QueryType /\ Rendered(query, statement)
    BY <1>4 DEF RenderNext, FrameInv
  <2>2. Len(statement.wheres) < Len(query.predicates)
    <3>1. Len(statement.wheres) \in Nat
      BY <2>1 DEF Rendered, Conditions
    <3>2. Len(query.predicates) \in Nat
      BY <2>1 DEF QueryType
    <3> QED BY <1>4, <3>1, <3>2 DEF RenderNext
  <2>3. statement' = RenderPredicate(statement, query.predicates[Len(statement.wheres) + 1])
    BY <1>4 DEF RenderNext
  <2>4. Rendered(query, RenderPredicate(statement, query.predicates[Len(statement.wheres) + 1]))
    BY <2>1, <2>2, RenderingGoesOn
  <2> QED BY <2>1, <2>3, <2>4 DEF FrameInv
<1>5. CASE BuildReturns
  BY <1>5 DEF BuildReturns, FrameInv
<1>6. CASE BuildSelect
  <2>1. statement'.bucket = RenderLiteral(query)
        /\ statement'.selects = Selects(query, query.bucketAlias, FALSE)
        /\ statement'.groups = 1..(1 + Len(query.dimensions))
    BY <1>6 DEF BuildSelect
  <2>2. /\ target = "aggregate" /\ target' = target /\ query' = query /\ phase' = "built"
        /\ ValidAggregate(query) /\ query.select = NoSelect
    BY <1>6 DEF BuildSelect
  <2> QED BY <2>1, <2>2 DEF FrameInv
<1>7. CASE BuildTrusted
  BY <1>7 DEF BuildTrusted, FrameInv
<1> QED BY <1>1, <1>2, <1>3, <1>4, <1>5, <1>6, <1>7 DEF FrameNext

(* A condition means the predicate it carries, in an empty list too.       *)
LEMMA SameMeaning ==
    ASSUME NEW w, NEW p \in PredicateType, NEW args, Carries(w, p, args), NEW value
    PROVE  Holds(w.op, value, [k \in DOMAIN w.at |-> args[w.at[k]]])
           <=> IF p.op \in Lists /\ p.values = <<>> THEN p.op = "NOT IN"
               ELSE Holds(p.op, value, p.values)
<1>1. p.values \in Seq(Values) /\ p.values = [k \in 1..Len(p.values) |-> p.values[k]]
  <2>1. p.values \in Seq(Values)
    BY DEF PredicateType
  <2> QED BY <2>1
<1>2. [k \in DOMAIN w.at |-> args[w.at[k]]] = p.values
  <2>1. /\ DOMAIN w.at = 1..Len(p.values)
        /\ \A k \in 1..Len(p.values) : args[w.at[k]] = p.values[k]
    BY DEF Carries
  <2>2. [k \in DOMAIN w.at |-> args[w.at[k]]] = [k \in 1..Len(p.values) |-> p.values[k]]
    BY <2>1
  <2> QED BY <1>1, <2>2
<1>3. w.op = Operator(p)
  BY DEF Carries
<1>4. Holds("TRUE", value, p.values) /\ ~Holds("FALSE", value, p.values)
  BY DEF Holds
<1>5. CASE p.op \in Lists /\ p.values = <<>>
  <2>1. p.op = "IN" \/ p.op = "NOT IN"
    BY <1>5 DEF Lists
  <2>2. w.op = IF p.op = "IN" THEN "FALSE" ELSE "TRUE"
    BY <1>3, <1>5 DEF Operator
  <2>3. Holds(w.op, value, p.values) <=> p.op = "NOT IN"
    BY <1>4, <2>1, <2>2
  <2> QED BY <1>2, <1>5, <2>3
<1>6. CASE ~(p.op \in Lists /\ p.values = <<>>)
  <2>1. w.op = p.op
    BY <1>3, <1>6 DEF Operator
  <2> QED BY <1>2, <1>6, <2>1
<1> QED BY <1>5, <1>6

LEMMA BuiltMeans == FrameInv => MeansWhatWasAsked
<1> SUFFICES ASSUME FrameInv, Built, target = "frame"
             PROVE  /\ Selected = Asked
                    /\ Argument(statement.bucket.width, Open) = query.width
                    /\ Argument(statement.bucket.timezone, NoZone) = query.timezone
                    /\ Argument(statement.bucket.origin, NoTime) =
                          IF query.origin = NoTime THEN NoTime ELSE Timestamp(query.origin)
                    /\ Argument(statement.bucket.offset, Open) = query.offset
                    /\ Mentioned = 1..Len(statement.args)
  BY DEF MeansWhatWasAsked
<1> DEFINE g == Gapfill(query)
           b == RenderBucket(query, g)
           f == RenderFrame(query, g)
           args == statement.args
           n == Len(b.args)
<1>1. /\ query \in QueryType /\ Rendered(query, statement)
      /\ Len(statement.wheres) = Len(query.predicates)
      /\ ~query.offsetSet => query.offset = Open
  BY DEF FrameInv, Built
<1>2. g \in BOOLEAN /\ ValidBucket(query, g)
  BY <1>1, GapfillIsBoolean DEF Rendered, ValidFrame
<1>3. /\ BucketRendered(query, b) /\ f.bucket = b.call /\ b.args \in Seq(ArgumentType)
      /\ n \in Nat /\ n >= 1
  <2>1. BucketRendered(query, b)
    BY <1>1, <1>2, BucketOfQuery
  <2>2. f.bucket = b.call
    BY DEF RenderFrame
  <2> HIDE DEF b
  <2> QED BY <2>1, <2>2 DEF BucketRendered
<1>4. /\ Len(f.args) = n + 2 /\ \A i \in 1..n : f.args[i] = b.args[i]
      /\ f.args[n + 1] = Timestamp(query.range[1])
      /\ f.args[n + 2] = Timestamp(query.range[2])
      /\ f.range = <<n + 1, n + 2>>
  BY <1>1, <1>2, FrameArguments
<1>5. /\ statement.bucket = f.bucket /\ statement.range = f.range
      /\ Extends(f.args, args)
      /\ Conditions(statement.wheres, query.predicates, Len(f.args), args)
  BY <1>1 DEF Rendered
<1> HIDE DEF b, f, g, n, args
<1>6. /\ Len(args) \in Nat /\ n + 2 <= Len(args)
      /\ \A i \in 1..n : args[i] = b.args[i]
      /\ args[n + 1] = Timestamp(query.range[1]) /\ args[n + 2] = Timestamp(query.range[2])
  BY <1>3, <1>4, <1>5 DEF Extends
<1>7. statement.bucket = b.call /\ statement.range[1] = n + 1 /\ statement.range[2] = n + 2
  BY <1>3, <1>4, <1>5
<1>8. Absent \notin Nat
  BY NullsAssumption
<1>9. /\ Argument(statement.bucket.width, Open) = query.width
      /\ Argument(statement.bucket.timezone, NoZone) = query.timezone
      /\ Argument(statement.bucket.origin, NoTime) =
            IF query.origin = NoTime THEN NoTime ELSE Timestamp(query.origin)
      /\ Argument(statement.bucket.offset, Open) = query.offset
  <2>1. ASSUME NEW i \in 1..n, NEW none PROVE Argument(i, none) = b.args[i]
    BY <1>6, <1>8 DEF Argument, args
  <2>2. ASSUME NEW none PROVE Argument(Absent, none) = none
    BY DEF Argument
  <2>3. /\ b.call.width = 1 /\ b.args[1] = query.width /\ 1 \in 1..n
        /\ IF query.timezone = NoZone THEN b.call.timezone = Absent
           ELSE b.call.timezone \in 1..n /\ b.args[b.call.timezone] = query.timezone
        /\ IF query.origin = NoTime THEN b.call.origin = Absent
           ELSE b.call.origin \in 1..n /\ b.args[b.call.origin] = Timestamp(query.origin)
        /\ IF query.offsetSet
           THEN b.call.offset \in 1..n /\ b.args[b.call.offset] = query.offset
           ELSE b.call.offset = Absent
    BY <1>3 DEF BucketRendered, n
  <2> QED BY <1>1, <1>7, <2>1, <2>2, <2>3
<1>10. Mentioned = 1..Len(args)
  <2>1. {statement.bucket[h] : h \in {"width", "timezone", "origin", "offset"}} \ {Absent} = 1..n
    <3>1. 1..n = {b.call.width, b.call.timezone, b.call.origin, b.call.offset} \ {Absent}
      BY <1>3 DEF BucketRendered, n
    <3> QED BY <1>7, <3>1
  <2>2. UNION {Range(statement.wheres[i].at) : i \in DOMAIN statement.wheres}
            = (n + 3)..Len(args)
    <3>1. Len(f.args) + 1 = n + 3
      BY <1>3, <1>4
    <3> QED BY <1>5, <3>1 DEF Conditions
  <2>3. (1..n) \cup {n + 1, n + 2} \cup ((n + 3)..Len(args)) = 1..Len(args)
    BY <1>3, <1>6
  <2> QED BY <1>7, <2>1, <2>2, <2>3 DEF Mentioned
<1>11. ASSUME NEW row \in Rows
       PROVE  args[n + 1] <= row.time /\ row.time < args[n + 2]
              <=> /\ query.range[1] < (row.time + 1) * Micro
                  /\ (row.time + 1) * Micro <= query.range[2]
  <2>1. query.range[1] \in Int /\ query.range[2] \in Int
    BY <1>1 DEF QueryType
  <2>2. row.time \in Int
    <3>1. PICK t \in UNION {{r[1], r[2]} : r \in Ranges} : row.time = Timestamp(t)
      BY DEF Rows
    <3>2. t \in Int
      BY RangesAssumption
    <3> QED BY <3>1, <3>2, Microseconds
  <2>3. args[n + 1] <= row.time <=> query.range[1] < (row.time + 1) * Micro
    BY <1>6, <2>1, <2>2, Microseconds
  <2>4. row.time < args[n + 2] <=> (row.time + 1) * Micro <= query.range[2]
    BY <1>6, <2>1, <2>2, Microseconds
  <2> QED BY <2>3, <2>4
<1>12. ASSUME NEW value
       PROVE  (\A i \in DOMAIN statement.wheres :
                  LET w == statement.wheres[i]
                  IN Holds(w.op, value, [k \in DOMAIN w.at |-> args[w.at[k]]]))
              <=> \A i \in DOMAIN query.predicates :
                     LET p == query.predicates[i]
                     IN IF p.op \in Lists /\ p.values = <<>> THEN p.op = "NOT IN"
                        ELSE Holds(p.op, value, p.values)
  <2>1. DOMAIN statement.wheres = DOMAIN query.predicates
    <3>1. DOMAIN statement.wheres = 1..Len(statement.wheres)
      BY <1>5 DEF Conditions
    <3>2. DOMAIN query.predicates = 1..Len(query.predicates)
      BY <1>1 DEF QueryType
    <3> QED BY <1>1, <3>1, <3>2
  <2>2. ASSUME NEW i \in DOMAIN query.predicates
        PROVE  /\ query.predicates[i] \in PredicateType
               /\ Carries(statement.wheres[i], query.predicates[i], args)
    <3>1. i \in 1..Len(statement.wheres) /\ query.predicates[i] \in Predicates
      BY <1>1 DEF QueryType
    <3> QED BY <1>5, <3>1, TypesAssumption DEF Conditions
  <2> QED BY <2>1, <2>2, SameMeaning
<1>13. Selected = Asked
  <2> DEFINE Kept(row) ==
                 /\ args[n + 1] <= row.time /\ row.time < args[n + 2]
                 /\ \A i \in DOMAIN statement.wheres :
                       LET w == statement.wheres[i]
                       IN Holds(w.op, row.value, [k \in DOMAIN w.at |-> args[w.at[k]]])
             Wanted(row) ==
                 /\ query.range[1] < (row.time + 1) * Micro
                 /\ (row.time + 1) * Micro <= query.range[2]
                 /\ \A i \in DOMAIN query.predicates :
                       LET p == query.predicates[i]
                       IN IF p.op \in Lists /\ p.values = <<>> THEN p.op = "NOT IN"
                          ELSE Holds(p.op, row.value, p.values)
  <2>1. Selected = {row \in Rows : Kept(row)}
    BY <1>7 DEF Selected, args
  <2>2. Asked = {row \in Rows : Wanted(row)}
    BY DEF Asked
  <2>3. ASSUME NEW row \in Rows PROVE Kept(row) <=> Wanted(row)
    BY <1>11, <1>12
  <2> HIDE DEF Kept, Wanted
  <2> QED BY <2>1, <2>2, <2>3
<1> QED BY <1>9, <1>10, <1>13 DEF args

LEMMA BuiltRuns == FrameInv => ValidRuns
<1> SUFFICES ASSUME FrameInv, Built, query.timezone # Local PROVE Executable
  BY DEF FrameInv, ValidRuns
<1>1. query \in QueryType
  BY DEF FrameInv
<1>2. ASSUME NEW g, ValidBucket(query, g)
      PROVE  query.timezone \in ServerZones \cup {NoZone}
  BY <1>2, ZonesAssumption DEF ValidBucket
<1>3. CASE target = "frame"
  <2> DEFINE g == Gapfill(query)
             b == RenderBucket(query, g).call
             s == Selects(query, Bucket, g)
  <2>1. Rendered(query, statement)
    BY <1>3 DEF FrameInv, Built
  <2>2. g \in BOOLEAN /\ ValidBucket(query, g) /\ ValidOutputs(query, Bucket)
    BY <1>1, <2>1, GapfillIsBoolean DEF Rendered, ValidFrame
  <2>3. BucketRendered(query, RenderBucket(query, g))
        /\ b.function = IF g THEN "time_bucket_gapfill" ELSE "time_bucket"
    BY <1>1, <2>2, BucketOfQuery
  <2>4. /\ statement.bucket = b /\ statement.selects = s
        /\ statement.groups = 1..(1 + Len(query.dimensions))
    BY <2>1 DEF Rendered, RenderFrame
  <2>5. ListRuns(s, Len(query.dimensions), g)
    BY <1>1, <2>2, SelectListRuns
  <2>6. /\ g => query.origin = NoTime /\ ~query.offsetSet
        /\ query.timezone = NoZone => query.origin = NoTime \/ ~query.offsetSet
    BY <2>2 DEF ValidBucket
  <2>7. /\ query.timezone # NoZone => b.timezone # Absent
        /\ query.origin = NoTime => b.origin = Absent
        /\ ~query.offsetSet => b.offset = Absent
    BY <2>3, NullsAssumption DEF BucketRendered
  <2>9. Zone(statement.bucket) = query.timezone
    BY <1>3, BuiltMeans DEF MeansWhatWasAsked, Zone
  <2>10. Zone(statement.bucket) \in ServerZones \cup {NoZone}
    BY <1>2, <2>2, <2>9
  <2>11. query.select = NoSelect
    BY <1>3 DEF FrameInv
  <2> HIDE DEF b, s, g
  <2>8. /\ \A i \in DOMAIN s : s[i].function # "none" => b.function = "time_bucket_gapfill"
        /\ b.function = "time_bucket_gapfill" => b.origin = Absent /\ b.offset = Absent
        /\ b.origin # Absent /\ b.offset # Absent => b.timezone # Absent
    BY <2>3, <2>5, <2>6, <2>7 DEF ListRuns
  <2> QED BY <1>3, <2>4, <2>5, <2>8, <2>10, <2>11 DEF Executable, GeneratedRuns, ListRuns
<1>4. CASE target = "aggregate" /\ query.select = NoSelect
  <2> DEFINE b == RenderLiteral(query)
             s == Selects(query, query.bucketAlias, FALSE)
  <2>1. /\ ValidAggregate(query) /\ statement.bucket = b /\ statement.selects = s
        /\ statement.groups = 1..(1 + Len(query.dimensions))
    BY <1>4 DEF FrameInv, Built
  <2>2. ValidBucket(query, FALSE) /\ ValidOutputs(query, query.bucketAlias)
    BY <2>1 DEF ValidAggregate
  <2>3. /\ b.function = "time_bucket"
        /\ query.timezone # NoZone => b.timezone = query.timezone
        /\ query.origin = NoTime => b.origin = Absent
        /\ ~query.offsetSet => b.offset = Absent
    BY DEF RenderLiteral
  <2>4. query.timezone # NoZone => query.timezone # Absent
    BY <1>1, NullsAssumption DEF QueryType
  <2>5. ListRuns(s, Len(query.dimensions), FALSE)
    BY <1>1, <2>2, SelectListRuns
  <2>6. query.timezone = NoZone => query.origin = NoTime \/ ~query.offsetSet
    BY <2>2 DEF ValidBucket
  <2>7. Zone(b) = query.timezone
    BY <1>4, <2>4 DEF Zone, RenderLiteral
  <2>8. Zone(b) \in ServerZones \cup {NoZone}
    BY <1>2, <2>2, <2>7
  <2> HIDE DEF b, s
  <2> QED BY <1>4, <2>1, <2>3, <2>4, <2>5, <2>6, <2>8 DEF Executable, GeneratedRuns, ListRuns
<1>5. CASE target = "aggregate" /\ query.select # NoSelect
  BY <1>5 DEF FrameInv, Built, ValidTrusted, Executable
<1> QED BY <1>3, <1>4, <1>5 DEF FrameInv

LEMMA FrameInduction == FrameSpec => []FrameInv
BY InitFrame, NextFrame, PTL DEF FrameSpec

(* However often a query is built and extended: the statement selects the  *)
(* rows that were asked for in the buckets that were asked for, and uses   *)
(* every argument it sends.                                                *)
THEOREM FrameMeansWhatWasAsked == FrameSpec => []MeansWhatWasAsked
BY FrameInduction, BuiltMeans, PTL

(* What validation lets through can be rendered, and TimescaleDB runs it,  *)
(* other than a statement whose zone is Local.                             *)
THEOREM ValidFramesRun == FrameSpec => []ValidRuns
BY FrameInduction, BuiltRuns, PTL
=============================================================================
