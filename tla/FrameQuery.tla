----------------------------- MODULE FrameQuery -----------------------------
(***************************************************************************)
(* FrameQuery and the SELECT of a ContinuousAggregate (src/timescaledb:    *)
(* frame.go, continuous_aggregate.go, bucket.go, measure.go, predicate.go):*)
(* calls set and extend a query object; Build validates it and renders a   *)
(* statement whose values travel apart, as numbered arguments.  An object  *)
(* may be built, extended and built again.  Rendering a predicate is a step*)
(* of its own.                                                             *)
(*                                                                         *)
(* The statement is kept as a tree; texts that take no value are left out. *)
(* TimescaleDB is external: what it refuses, and the rows it selects.      *)
(***************************************************************************)
EXTENDS Intervals, Sequences, FiniteSets, Functions

CONSTANTS
    Targets,                \* of {"frame", "aggregate"}
    Columns,                \* names; "" among them is not an identifier
    Widths, Offsets, Zones, Origins,    \* what callers pass
    Ranges,                 \* pairs <<start, end>> that callers pass
    Measures, Predicates,   \* what the constructors and modifiers below return
    TrustedSelects,         \* records [blank, gapfill] of what a whole SELECT says
    Locations,              \* the zones time.LoadLocation finds
    Local,                  \* one of them: the zone of the process
    ServerZones,            \* the zones the database knows
    Values, Null,           \* what a column holds
    NoZone, NoTime, NoSelect, Absent, NoStatement,
    MaxCalls                \* bound: calls on one object

ASSUME CallsAssumption == MaxCalls \in Nat /\ Targets \subseteq {"frame", "aggregate"}
ASSUME RangesAssumption == Ranges \subseteq Int \X Int /\ Origins \subseteq Int
(* Both sides read the IANA database; Local is in Go's package only.       *)
ASSUME ZonesAssumption == Locations \ {Local} \subseteq ServerZones
ASSUME NullsAssumption == Null \notin Values /\ Absent \notin Nat \cup Zones

Bucket == "bucket"

-----------------------------------------------------------------------------
(* Measures: constructors and modifiers of values.                         *)

MeasureType ==
    [kind : {"count", "sum", "first"}, columns : Seq(STRING), alias : STRING,
     fill : {"null", "locf", "interpolate"}, treatNullAsMissing : BOOLEAN,
     previous : STRING, next : STRING]

NewMeasure(kind, columns) ==
    [kind |-> kind, columns |-> columns, alias |-> "", fill |-> "null",
     treatNullAsMissing |-> FALSE, previous |-> "", next |-> ""]

Count(columns) == NewMeasure("count", columns)
Sum(column) == NewMeasure("sum", <<column>>)
First(value, time) == NewMeasure("first", <<value, time>>)

As(m, alias) == [m EXCEPT !.alias = alias]
LOCF(m, nulls) == [m EXCEPT !.fill = "locf", !.treatNullAsMissing = nulls]
Interpolate(m) == [m EXCEPT !.fill = "interpolate"]
PreviousLookup(m, expression) == [m EXCEPT !.previous = expression]
NextLookup(m, expression) == [m EXCEPT !.next = expression]

Identifier(name) == name # ""
Trusted(expression) == expression \notin {"", " "}

ColumnCount(m) ==
    CASE m.kind = "count" -> Len(m.columns) <= 1
      [] m.kind = "sum" -> Len(m.columns) = 1
      [] m.kind = "first" -> Len(m.columns) = 2

(* Measure.validate.                                                       *)
ValidMeasure(m) ==
    /\ Identifier(m.alias)
    /\ ColumnCount(m)
    /\ \A i \in 1..Len(m.columns) : Identifier(m.columns[i])
    /\ m.previous # "" => Trusted(m.previous) /\ m.fill # "null"
    /\ m.next # "" => Trusted(m.next) /\ m.fill = "interpolate"
    /\ m.treatNullAsMissing => m.fill = "locf"

-----------------------------------------------------------------------------
(* Predicates: allow-listed conditions on one column.                      *)

Scalar == {"=", "!=", "<"}      \* three of the operators that take one value
Lists == {"IN", "NOT IN"}

Compare(column, op, value) == [column |-> column, op |-> op, values |-> <<value>>]
In(column, values) == [column |-> column, op |-> "IN", values |-> values]
NotIn(column, values) == [column |-> column, op |-> "NOT IN", values |-> values]
IsNull(column) == [column |-> column, op |-> "IS NULL", values |-> <<>>]

PredicateType ==
    [column : STRING, op : Scalar \cup Lists \cup {"IS NULL"}, values : Seq(Values)]

ASSUME TypesAssumption == Measures \subseteq MeasureType /\ Predicates \subseteq PredicateType

-----------------------------------------------------------------------------
VARIABLES
    target,     \* what is built: a frame query or a continuous aggregate
    query,      \* the query object
    phase,      \* "calls", then "rendering", "built" or "error" of Build
    statement   \* of the last Build or BuildSQL, as far as it has come

frameVars == <<target, query, phase, statement>>

NewQuery ==
    [width |-> Open, timezone |-> NoZone, origin |-> NoTime, offset |-> Open,
     offsetSet |-> FALSE, dimensions |-> <<>>, measures |-> <<>>, predicates |-> <<>>,
     range |-> <<0, 0>>, rangeSet |-> FALSE, gapfill |-> FALSE, bucketAlias |-> Bucket,
     select |-> NoSelect]

FrameInit ==
    /\ target \in Targets
    /\ query = NewQuery
    /\ phase = "calls"
    /\ statement = NoStatement

(* Fields that are no longer as NewQuery has them, and list elements.      *)
Size(q) ==
    Cardinality({f \in {"width", "timezone", "origin", "offset", "range", "gapfill",
                        "bucketAlias", "select"} : q[f] # NewQuery[f]})
    + Len(q.dimensions) + Len(q.measures) + Len(q.predicates)

Change(q) ==
    /\ phase # "rendering"
    /\ Size(query) < MaxCalls
    /\ query' = q
    /\ phase' = "calls"
    /\ statement' = NoStatement
    /\ UNCHANGED target

Both ==
    \/ \E w \in Widths : Change([query EXCEPT !.width = w])
    \/ \E z \in Zones : Change([query EXCEPT !.timezone = z])
    \/ \E t \in Origins : Change([query EXCEPT !.origin = t])
    \/ \E o \in Offsets : Change([query EXCEPT !.offset = o, !.offsetSet = TRUE])
    \/ \E c \in Columns : Change([query EXCEPT !.dimensions = Append(@, c)])
    \/ \E m \in Measures : Change([query EXCEPT !.measures = Append(@, m)])

FrameOnly ==
    /\ target = "frame"
    /\ \/ \E r \in Ranges : Change([query EXCEPT !.range = r, !.rangeSet = TRUE])
       \/ \E p \in Predicates : Change([query EXCEPT !.predicates = Append(@, p)])
       \/ Change([query EXCEPT !.gapfill = TRUE])

AggregateOnly ==
    /\ target = "aggregate"
    /\ \/ \E c \in Columns : Change([query EXCEPT !.bucketAlias = c])
       \/ \E s \in TrustedSelects : Change([query EXCEPT !.select = s])

-----------------------------------------------------------------------------
(* Validation.                                                             *)

ValidOffset(o) == o.kind = "fixed" /\ o.n # 0 /\ o.n % Micro = 0

(* bucketConfig.validate.                                                  *)
ValidBucket(q, gapfill) ==
    /\ Validate(q.width)
    /\ q.timezone # NoZone => q.timezone \in Locations
    /\ q.offsetSet => ValidOffset(q.offset)
    /\ gapfill => q.origin = NoTime /\ ~q.offsetSet
    /\ q.timezone = NoZone => q.origin = NoTime \/ ~q.offsetSet

Outputs(q, bucket) ==
    <<bucket>> \o q.dimensions \o [i \in 1..Len(q.measures) |-> q.measures[i].alias]

ValidOutputs(q, bucket) ==
    /\ q.measures # <<>>
    /\ \A i \in 1..Len(q.dimensions) : Identifier(q.dimensions[i])
    /\ \A i \in 1..Len(q.measures) : ValidMeasure(q.measures[i])
    /\ IsInjective(Outputs(q, bucket))

(* FrameQuery.validate.                                                    *)
ValidFrame(q, gapfill) ==
    /\ ValidBucket(q, gapfill)
    /\ q.rangeSet /\ q.range[1] < q.range[2]
    /\ ValidOutputs(q, Bucket)
    /\ \A i \in 1..Len(q.predicates) : Identifier(q.predicates[i].column)

(* ContinuousAggregate.buildSelect: a SELECT of the caller's own is looked *)
(* at for the one function that is never allowed,                          *)
ValidTrusted(s) == ~s.blank /\ ~s.gapfill

(* and else the aggregate is put together from its parts.                  *)
ValidAggregate(q) ==
    /\ Identifier(q.bucketAlias)
    /\ ValidBucket(q, FALSE)
    /\ ValidOutputs(q, q.bucketAlias)
    /\ \A i \in 1..Len(q.measures) : q.measures[i].fill = "null"

-----------------------------------------------------------------------------
(* Rendering: args grows, and a placeholder is its length at that moment.  *)

Bind(r, value) == Append(r, value)

Timestamp(t) == t \div Micro

(* bucketConfig.parameterizedSQL: the arguments and where they stand.      *)
RenderBucket(q, gapfill) ==
    LET withWidth == <<q.width>>
        withZone == IF q.timezone = NoZone THEN withWidth ELSE Bind(withWidth, q.timezone)
        withOrigin == IF gapfill \/ q.origin = NoTime THEN withZone
                      ELSE Bind(withZone, Timestamp(q.origin))
        withOffset == IF gapfill \/ ~q.offsetSet THEN withOrigin ELSE Bind(withOrigin, q.offset)
        At(before, after) == IF before = after THEN Absent ELSE Len(after)
    IN [args |-> withOffset,
        call |-> [function |-> IF gapfill THEN "time_bucket_gapfill" ELSE "time_bucket",
                  width |-> 1,
                  timezone |-> At(withWidth, withZone),
                  origin |-> At(withZone, withOrigin),
                  offset |-> At(withOrigin, withOffset)]]

Operator(p) ==
    IF p.op \in Lists /\ p.values = <<>> THEN IF p.op = "IN" THEN "FALSE" ELSE "TRUE" ELSE p.op

Condition(args, p) ==
    [column |-> p.column, op |-> Operator(p), at |-> [i \in 1..Len(p.values) |-> Len(args) + i]]

(* Mutant: a predicate is numbered before its value is appended.           *)
RenderPredicateEarly(r, p) ==
    [r EXCEPT !.args = @ \o p.values,
              !.wheres = Append(@, [Condition(r.args, p) EXCEPT !.at = [i \in DOMAIN @ |-> @[i] - 1]])]

(* Predicate.sql.                                                          *)
RenderPredicate(r, p) ==
    [r EXCEPT !.args = @ \o p.values, !.wheres = Append(@, Condition(r.args, p))]

(* Measure.selectSQL, without the text of its aggregate.                   *)
RenderMeasure(m, gapfill) ==
    [alias |-> m.alias, aggregate |-> TRUE,
     function |-> IF gapfill /\ m.fill # "null" THEN m.fill ELSE "none",
     nulls |-> gapfill /\ m.treatNullAsMissing,
     next |-> IF gapfill /\ m.fill = "interpolate" THEN m.next ELSE ""]

Key(name) == [alias |-> name, aggregate |-> FALSE, function |-> "none", nulls |-> FALSE, next |-> ""]

Selects(q, bucket, gapfill) ==
    <<Key(bucket)>> \o [i \in 1..Len(q.dimensions) |-> Key(q.dimensions[i])]
        \o [i \in 1..Len(q.measures) |-> RenderMeasure(q.measures[i], gapfill)]

(* Mutant: a filled measure does not ask for gaps to be filled.            *)
GapfillAsSet(q) == q.gapfill

Gapfill(q) == q.gapfill \/ \E i \in 1..Len(q.measures) : q.measures[i].fill # "null"

Unrendered(q, gapfill) ==
    ~gapfill /\ \E i \in 1..Len(q.measures) : q.measures[i].fill # "null"

(* The statement up to the two conditions of the range.                    *)
RenderFrame(q, gapfill) ==
    LET bucket == RenderBucket(q, gapfill)
        ranged == bucket.args \o <<Timestamp(q.range[1]), Timestamp(q.range[2])>>
    IN [bucket |-> bucket.call, selects |-> Selects(q, Bucket, gapfill),
        range |-> <<Len(ranged) - 1, Len(ranged)>>, wheres |-> <<>>,
        groups |-> 1..(1 + Len(q.dimensions)), args |-> ranged]

(* FrameQuery.Build, up to its loop over the predicates,                   *)
Build ==
    /\ target = "frame" /\ phase # "rendering"
    /\ ValidFrame(query, Gapfill(query))
    /\ IF Unrendered(query, Gapfill(query))
       THEN phase' = "error" /\ statement' = NoStatement
       ELSE phase' = "rendering" /\ statement' = RenderFrame(query, Gapfill(query))
    /\ UNCHANGED <<target, query>>

(* the loop,                                                               *)
RenderNext ==
    LET next == Len(statement.wheres) + 1
    IN /\ phase = "rendering" /\ next <= Len(query.predicates)
       /\ statement' = RenderPredicate(statement, query.predicates[next])
       /\ UNCHANGED <<target, query, phase>>

(* and its return.                                                         *)
BuildReturns ==
    /\ phase = "rendering" /\ Len(statement.wheres) = Len(query.predicates)
    /\ phase' = "built"
    /\ UNCHANGED <<target, query, statement>>

(* bucketConfig.literalSQL: values are part of the text.                   *)
RenderLiteral(q) ==
    LET Optional(value, none) == IF value = none THEN Absent ELSE value
    IN [function |-> "time_bucket", width |-> q.width,
        timezone |-> Optional(q.timezone, NoZone),
        origin |-> IF q.origin = NoTime THEN Absent ELSE Timestamp(q.origin),
        offset |-> IF q.offsetSet THEN q.offset ELSE Absent]

(* ContinuousAggregate.BuildSQL.                                           *)
BuildSelect ==
    /\ target = "aggregate" /\ query.select = NoSelect
    /\ ValidAggregate(query)
    /\ phase' = "built"
    /\ statement' = [bucket |-> RenderLiteral(query),
                     selects |-> Selects(query, query.bucketAlias, FALSE),
                     groups |-> 1..(1 + Len(query.dimensions)), args |-> <<>>]
    /\ UNCHANGED <<target, query>>

(* ... with a trusted SELECT, which is taken as it is.                     *)
BuildTrusted ==
    /\ target = "aggregate" /\ query.select # NoSelect
    /\ ValidTrusted(query.select)
    /\ phase' = "built"
    /\ statement' = query.select
    /\ UNCHANGED <<target, query>>

FrameNext ==
    \/ Both \/ FrameOnly \/ AggregateOnly
    \/ Build \/ RenderNext \/ BuildReturns
    \/ BuildSelect \/ BuildTrusted

FrameSpec == FrameInit /\ [][FrameNext]_frameVars

-----------------------------------------------------------------------------
(* The database's reading of a statement.                                  *)

Built == phase = "built"

Argument(n, none) == IF n = Absent THEN none ELSE statement.args[n]

Holds(op, value, operands) ==
    CASE op = "TRUE" -> TRUE
      [] op = "FALSE" -> FALSE
      [] op = "IS NULL" -> value = Null
      [] op = "=" -> value # Null /\ value = operands[1]
      [] op = "!=" -> value # Null /\ value # operands[1]
      [] op = "<" -> value # Null /\ value < operands[1]
      [] op = "IN" -> value # Null /\ \E i \in DOMAIN operands : value = operands[i]
      [] op = "NOT IN" -> value # Null /\ \A i \in DOMAIN operands : value # operands[i]

Rows == [time : {Timestamp(t) : t \in UNION {{r[1], r[2]} : r \in Ranges}},
         value : Values \cup {Null}]

Selected ==
    {row \in Rows :
        /\ statement.args[statement.range[1]] <= row.time
        /\ row.time < statement.args[statement.range[2]]
        /\ \A i \in DOMAIN statement.wheres :
              LET w == statement.wheres[i]
              IN Holds(w.op, row.value, [k \in DOMAIN w.at |-> statement.args[w.at[k]]])}

(* The caller's reading of the calls: the half-open range Between sets, and*)
(* every predicate; nothing is in an empty list, everything outside it.    *)
(* Rows have whole microseconds: a row is in the range if its microsecond  *)
(* ends after the start and not after the end, which for bounds in whole   *)
(* microseconds is to be at the start or later and before the end.         *)
Asked ==
    {row \in Rows :
        /\ query.range[1] < (row.time + 1) * Micro /\ (row.time + 1) * Micro <= query.range[2]
        /\ \A i \in DOMAIN query.predicates :
              LET p == query.predicates[i]
              IN IF p.op \in Lists /\ p.values = <<>> THEN p.op = "NOT IN"
                 ELSE Holds(p.op, row.value, p.values)}

Mentioned ==
    ({statement.bucket[f] : f \in {"width", "timezone", "origin", "offset"}} \ {Absent})
        \cup {statement.range[1], statement.range[2]}
        \cup UNION {Range(statement.wheres[i].at) : i \in DOMAIN statement.wheres}

(* A frame query aggregates the rows it was asked for, in the buckets it   *)
(* was asked for, however often it is built and extended, whichever of the *)
(* optional bucket arguments shift the numbers of the others; and every    *)
(* argument that is sent is used, or the server refuses the statement.     *)
MeansWhatWasAsked ==
    Built /\ target = "frame" =>
        /\ Selected = Asked
        /\ Argument(statement.bucket.width, Open) = query.width
        /\ Argument(statement.bucket.timezone, NoZone) = query.timezone
        /\ Argument(statement.bucket.origin, NoTime) =
              IF query.origin = NoTime THEN NoTime ELSE Timestamp(query.origin)
        /\ Argument(statement.bucket.offset, Open) = query.offset
        /\ Mentioned = 1..Len(statement.args)

(* The time zone of a statement, an argument or a literal.                 *)
Zone(b) ==
    IF target = "frame" THEN Argument(b.timezone, NoZone)
    ELSE IF b.timezone = Absent THEN NoZone ELSE b.timezone

(* What TimescaleDB accepts: it groups by everything that is no aggregate, *)
(* fills gaps only in buckets that have them, and has no overload of       *)
(* time_bucket_gapfill with origin or offset, nor of time_bucket with both *)
(* but no zone; a zone is one it knows.                                    *)
GeneratedRuns ==
    LET b == statement.bucket
        s == statement.selects
    IN /\ Zone(b) \in ServerZones \cup {NoZone}
       /\ IsInjective([i \in DOMAIN s |-> s[i].alias])
       /\ statement.groups = {i \in DOMAIN s : ~s[i].aggregate}
       /\ \A i \in DOMAIN s :
             /\ s[i].function # "none" => b.function = "time_bucket_gapfill"
             /\ s[i].nulls => s[i].function = "locf"
             /\ s[i].next # "" => s[i].function = "interpolate"
       /\ b.function = "time_bucket_gapfill" =>
             target = "frame" /\ b.origin = Absent /\ b.offset = Absent
       /\ b.origin # Absent /\ b.offset # Absent => b.timezone # Absent

(* Its continuous aggregates have no gaps to fill, generated or not.       *)
Executable ==
    IF query.select = NoSelect THEN GeneratedRuns ELSE ~statement.gapfill

(* Validation is complete: what it lets through can be rendered, and the   *)
(* database does not refuse what is rendered.  Local is the exception: the *)
(* check of a bucket's zone (bucket.go:21-25) lets it through, which the   *)
(* check of a policy's (refresh.go:85-88) does not.                        *)
ValidRuns ==
    /\ phase # "error"
    /\ Built /\ query.timezone # Local => Executable
=============================================================================
