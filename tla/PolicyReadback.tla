--------------------------- MODULE PolicyReadback ---------------------------
(***************************************************************************)
(* A policy written to TimescaleDB's catalog and read back, field by field *)
(* (src/timescaledb/refresh.go, retention.go, columnstore_policy.go, and   *)
(* the catalog's intervals of interval.go).  One relation, one kind of     *)
(* policy; clients that are not this library change the job too, with      *)
(* values the library never writes.  Calls are not interrupted here: their *)
(* interleavings are PolicyLifecycle's subject.                            *)
(***************************************************************************)
EXTENDS Intervals

CONSTANTS
    Kinds,          \* of {"refresh", "retention", "columnstore"}
    Wishes,         \* policies that callers ask for
    ForeignJobs,    \* jobs that other clients leave in the catalog
    Day,            \* microseconds of a day
    HalfDay,        \* nanoseconds: half of a day
    Zones,          \* names time.LoadLocation finds, "Local" not among them
    NoZone, NoTime, NoBool, Null, Absent, NoJob, NoPolicy, Unreadable

Validated == {"refresh", "retention", "columnstore"}

(* start stands for StartOffset, DropAfter or After.  Retention and        *)
(* columnstore policies leave end and the batching fields at their zero.   *)
Policy ==
    [start : Interval, end : Interval, schedule : Interval,
     initial : Int \cup {NoTime}, timezone : STRING \cup {NoZone},
     tiered : BOOLEAN \cup {NoBool}, buckets : Int, max : Int, newest : BOOLEAN,
     incomplete : BOOLEAN]

(* An interval of the catalog; and a job, whose times are microseconds and *)
(* whose configuration may lack keys.                                      *)
PGInterval == {Null} \cup [months : Int, days : Int, micros : (-MaxInt - 1)..MaxInt]
Job ==
    [start : PGInterval, end : PGInterval, schedule : PGInterval,
     initial : Int \cup {NoTime}, timezone : STRING \cup {NoZone},
     tiered : BOOLEAN \cup {NoBool}, buckets : Int \cup {Absent}, max : Int \cup {Absent},
     newest : BOOLEAN \cup {Absent}]

ASSUME KindsAssumption == Kinds \subseteq Validated
ASSUME WishesAssumption ==
    /\ Wishes \subseteq Policy
    /\ \A p \in Wishes : \A i \in {p.start, p.end, p.schedule} :
          i.kind = "fixed" => i.n \in (-MaxInt - 1)..MaxInt
ASSUME JobsAssumption == ForeignJobs \subseteq Job
ASSUME ClockAssumption ==
    Day \in Nat \ {0} /\ HalfDay \in 1..MaxInt /\ HalfDay % Micro = 0 /\ 2 * HalfDay <= MaxInt
ASSUME NullsAssumption ==
    /\ Null \notin [months : Int, days : Int, micros : Int]
    /\ NoTime \notin Int /\ Absent \notin Int \cup BOOLEAN /\ NoZone \notin STRING
    /\ Unreadable \notin Interval /\ NoJob \notin Job

-----------------------------------------------------------------------------
(* Intervals of the catalog.                                               *)

(* Integer division truncates.                                             *)
Quot(a, b) == IF a >= 0 THEN a \div b ELSE -((-a) \div b)

pgValue(i) ==
    IF i.kind = "months" THEN [months |-> i.n, days |-> 0, micros |-> 0]
    ELSE [months |-> 0, days |-> 0, micros |-> Quot(i.n, Micro)]

nullablePGValue(i) == IF IsOpenEnded(i) THEN Null ELSE pgValue(i)

Mixed(v) == v.months # 0 /\ (v.days # 0 \/ v.micros # 0)

DaysOverflow(v) == v.days > Quot(MaxInt, Day) \/ v.days < Quot(-MaxInt - 1, Day)

dayMicros(v) == Wrap(v.days * Day)

SumOverflow(v) ==
    \/ dayMicros(v) > 0 /\ v.micros > MaxInt - dayMicros(v)
    \/ dayMicros(v) < 0 /\ v.micros < (-MaxInt - 1) - dayMicros(v)

micros(v) == Wrap(dayMicros(v) + v.micros)

DurationOverflow(v) ==
    micros(v) > Quot(MaxInt, Micro) \/ micros(v) < Quot(-MaxInt - 1, Micro)

(* Mutant: the sum of days and microseconds is not checked.                *)
RefusedSumUnchecked(v) ==
    \/ Mixed(v)
    \/ v.months = 0 /\ (DaysOverflow(v) \/ DurationOverflow(v))

(* The errors of intervalFromPG.                                           *)
Refused(v) ==
    \/ Mixed(v)
    \/ v.months = 0 /\ (DaysOverflow(v) \/ SumOverflow(v) \/ DurationOverflow(v))

intervalFromPG(v) ==
    CASE v = Null -> Open
      [] v # Null /\ Refused(v) -> Unreadable
      [] v # Null /\ ~Refused(v) /\ v.months # 0 -> CalendarMonths(v.months)
      [] v # Null /\ ~Refused(v) /\ v.months = 0 -> FixedInterval(Wrap(micros(v) * Micro))

-----------------------------------------------------------------------------
(* Policies.                                                               *)

VARIABLES
    kind,       \* of the policy this relation has
    job,        \* the job of the catalog, or NoJob
    agreed      \* the policy the last call reported to be in place

vars == <<kind, job, agreed>>

(* A retention or columnstore policy without a schedule has a fixed one.   *)
normalized(p) ==
    IF kind # "refresh" /\ IsOpenEnded(p.schedule)
    THEN [p EXCEPT !.schedule = FixedInterval(IF kind = "retention" THEN 2 * HalfDay ELSE HalfDay)]
    ELSE p

ValidOffsets(p) ==
    /\ IsOpenEnded(p.start) \/ Validate(p.start)
    /\ IF IsOpenEnded(p.end) THEN p.incomplete ELSE Validate(p.end)
    /\ ~IsOpenEnded(p.start) /\ ~IsOpenEnded(p.end) =>
          p.start.kind = p.end.kind /\ p.start.n > p.end.n

ValidBatching(p) == p.buckets >= 0 /\ p.max >= 0 /\ (p.buckets = 0 => p.max = 0)

ValidTimezone(p) == p.timezone \in Zones \cup {NoZone}

ValidPolicy(p) ==
    /\ IF kind = "refresh" THEN ValidOffsets(p) /\ ValidBatching(p) ELSE Validate(p.start)
    /\ Validate(p.schedule)
    /\ ValidTimezone(p)

(* Mutant: points in time are compared to the nanosecond.                  *)
timesEqualNanos(l, r) == l = r

timesEqual(l, r) ==
    \/ l = NoTime /\ r = NoTime
    \/ l # NoTime /\ r # NoTime /\ l \div Micro = r \div Micro

(* RefreshPoliciesEqual and its siblings.                                  *)
PoliciesEqual(l, r) ==
    /\ l.start = r.start /\ l.schedule = r.schedule
    /\ timesEqual(l.initial, r.initial)
    /\ l.timezone = r.timezone
    /\ kind = "refresh" =>
          /\ l.end = r.end /\ l.tiered = r.tiered
          /\ l.buckets = r.buckets /\ l.max = r.max /\ l.newest = r.newest

(* The job of addRefreshPolicy and its siblings.                           *)
added(p) ==
    [start |-> nullablePGValue(p.start), end |-> nullablePGValue(p.end),
     schedule |-> pgValue(p.schedule),
     initial |-> IF p.initial = NoTime THEN NoTime ELSE p.initial \div Micro,
     timezone |-> p.timezone, tiered |-> p.tiered,
     buckets |-> p.buckets, max |-> p.max, newest |-> p.newest]

Coalesce(value, default) == IF value = Absent THEN default ELSE value

(* The policy an Inspect function reads.                                   *)
inspected(j) ==
    [start |-> intervalFromPG(j.start), end |-> intervalFromPG(j.end),
     schedule |-> intervalFromPG(j.schedule),
     initial |-> IF j.initial = NoTime THEN NoTime ELSE j.initial * Micro,
     timezone |-> j.timezone, tiered |-> j.tiered,
     buckets |-> Coalesce(j.buckets, 0), max |-> Coalesce(j.max, 10),
     newest |-> Coalesce(j.newest, TRUE),
     incomplete |-> j.end = Null]

IntervalsOf(j) == {j.start, j.schedule} \cup (IF kind = "refresh" THEN {j.end} ELSE {})

Readable(j) == \A v \in IntervalsOf(j) : intervalFromPG(v) # Unreadable

-----------------------------------------------------------------------------
Init ==
    /\ kind \in Kinds
    /\ job = NoJob
    /\ agreed = NoPolicy

(* The call returns an error, or nothing about the policy in place.        *)
NoClaim == agreed' = NoPolicy /\ UNCHANGED <<kind, job>>

Unchanged(p) == agreed' = p /\ UNCHANGED <<kind, job>>

(* Created or replaced, unless a statement fails or the server refuses the *)
(* policy; a replacement rolls back.                                       *)
Writes(p) ==
    \/ job' = added(normalized(p)) /\ agreed' = p /\ UNCHANGED kind
    \/ NoClaim

(* Inspect returns an error, and so do Ensure and Reconcile.               *)
InspectFails == job # NoJob /\ ~Readable(job)

InPlace(p) == job # NoJob /\ PoliciesEqual(inspected(job), normalized(p))

(* Ensure creates what is missing and reports what has drifted.            *)
Ensure(p) ==
    IF ~ValidPolicy(normalized(p)) \/ InspectFails THEN NoClaim
    ELSE IF job = NoJob THEN Writes(p)
    ELSE IF InPlace(p) THEN Unchanged(p) ELSE NoClaim

(* Reconcile replaces what has drifted.                                    *)
Reconcile(p) ==
    IF ~ValidPolicy(normalized(p)) \/ InspectFails THEN NoClaim
    ELSE IF InPlace(p) THEN Unchanged(p) ELSE Writes(p)

(* Replace asks for nothing that is there, readable or not.                *)
Replace(p) == IF ValidPolicy(normalized(p)) THEN Writes(p) ELSE NoClaim

(* Add with IfNotExists leaves alone what there is, and says nothing of it.*)
Add(p) == IF ValidPolicy(normalized(p)) /\ job = NoJob THEN Writes(p) ELSE NoClaim

Remove ==
    /\ job # NoJob
    /\ job' = NoJob
    /\ agreed' = NoPolicy
    /\ UNCHANGED kind

(* Another client replaces the job.                                        *)
Meddle(j) ==
    /\ job' = j
    /\ agreed' = NoPolicy
    /\ UNCHANGED kind

Next ==
    \/ \E p \in Wishes : Ensure(p) \/ Reconcile(p) \/ Replace(p) \/ Add(p)
    \/ Remove
    \/ \E j \in ForeignJobs : Meddle(j)

Spec == Init /\ [][Next]_vars

-----------------------------------------------------------------------------
(* What a catalog interval is, in nanoseconds or months, without a width.  *)
Meaning(v) ==
    IF v = Null THEN Open
    ELSE IF v.months # 0 THEN CalendarMonths(v.months)
    ELSE FixedInterval((v.days * Day + v.micros) * Micro)

(* An interval of the catalog is read as what it is or not at all, whoever *)
(* wrote it: no sum or product wraps, no component is dropped.             *)
NeverMisread ==
    job # NoJob /\ Readable(job) =>
        \A v \in IntervalsOf(job) :
            /\ intervalFromPG(v) = Meaning(v)
            /\ v # Null => v.months = 0 \/ (v.days = 0 /\ v.micros = 0)

(* Once a call has reported that a policy is in place, the next Ensure     *)
(* finds no drift and the next Reconcile replaces nothing: what is written *)
(* reads back as what was asked, to the precision of the catalog.          *)
Converged ==
    agreed # NoPolicy =>
        /\ job # NoJob /\ Readable(job)
        /\ PoliciesEqual(inspected(job), normalized(agreed))
=============================================================================
