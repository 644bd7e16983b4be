--------------------------- MODULE RefreshBatches ---------------------------
(***************************************************************************)
(* PlanRefreshBatches (src/timescaledb/refresh.go): a backfill of          *)
(* [start, end) is split into ranges of at most width, no more than        *)
(* maxBatches of them.  One action is one iteration of its loop.           *)
(*                                                                         *)
(* Times and durations are integers.  Plus stands for time.Time.Add, which *)
(* is not the sum near the ends of the representable range; what the plan  *)
(* promises whatever Plus returns is separated from what needs the sum.    *)
(***************************************************************************)
EXTENDS Integers, Sequences

CONSTANTS
    Times,          \* the representable times
    Durations,      \* widths and batch limits of the calls considered
    Limits,
    Micro,          \* one microsecond, PostgreSQL's precision
    Plus(_, _),     \* time.Time.Add
    Bucket          \* bucket width of the continuous aggregate

ASSUME TimesAssumption == Times \subseteq Int /\ Durations \subseteq Int /\ Limits \subseteq Int
ASSUME UnitsAssumption == Micro \in Nat \ {0} /\ Bucket \in Nat \ {0}
ASSUME PlusAssumption == \A t \in Times, d \in Durations : d > 0 => Plus(t, d) \in Times

VARIABLES start, end, width, maxBatches,    \* the arguments
          cursor, result,                   \* the loop
          pc                                \* "call", "loop", "planned", "invalid" or "refused"

arguments == <<start, end, width, maxBatches>>
vars == <<start, end, width, maxBatches, cursor, result, pc>>

TimeRange == [from : Times, to : Times]

TypeOK ==
    /\ start \in Times /\ end \in Times /\ width \in Durations /\ maxBatches \in Limits
    /\ cursor \in Times
    /\ result \in Seq(TimeRange)
    /\ pc \in {"call", "loop", "planned", "invalid", "refused"}

(* Interval.Validate of a fixed interval.                                  *)
ValidWidth(d) == d > 0 /\ d % Micro = 0

ValidCall == start < end /\ ValidWidth(width) /\ maxBatches > 0

Init ==
    /\ start \in Times /\ end \in Times /\ width \in Durations /\ maxBatches \in Limits
    /\ cursor = start
    /\ result = <<>>
    /\ pc = "call"

(* Mutant: an empty or reversed range is let through.                      *)
ValidateLoosely ==
    /\ pc = "call"
    /\ pc' = IF ValidWidth(width) THEN "loop" ELSE "invalid"
    /\ UNCHANGED <<start, end, width, maxBatches, cursor, result>>

Validate ==
    /\ pc = "call"
    /\ pc' = IF ValidCall THEN "loop" ELSE "invalid"
    /\ UNCHANGED <<start, end, width, maxBatches, cursor, result>>

(* Mutant: one range less than the limit is refused already.               *)
FullEarly == Len(result) + 1 = maxBatches

Full == Len(result) = maxBatches

Refuse ==
    /\ pc = "loop" /\ cursor < end /\ Full
    /\ pc' = "refused"
    /\ UNCHANGED <<start, end, width, maxBatches, cursor, result>>

(* Mutant: an Add that went wrong is noticed only beyond the end.          *)
BatchEndUnguarded == LET next == Plus(cursor, width) IN IF next > end THEN end ELSE next

(* Mutant: a range ends before the start of the one after it.              *)
BatchEndInclusive ==
    LET next == Plus(cursor, width) IN IF next < cursor \/ next > end THEN end ELSE next - 1

BatchEnd ==
    LET next == Plus(cursor, width) IN IF next < cursor \/ next > end THEN end ELSE next

Extend ==
    /\ pc = "loop" /\ cursor < end /\ ~Full
    /\ result' = Append(result, [from |-> cursor, to |-> BatchEnd])
    /\ cursor' = BatchEnd
    /\ UNCHANGED <<start, end, width, maxBatches, pc>>

Finish ==
    /\ pc = "loop" /\ ~(cursor < end)
    /\ pc' = "planned"
    /\ UNCHANGED <<start, end, width, maxBatches, cursor, result>>

Next == Validate \/ Refuse \/ Extend \/ Finish

Spec == Init /\ [][Next]_vars

-----------------------------------------------------------------------------
(* The ranges of r follow one another without a gap or an overlap, from s  *)
(* to e, none of them reversed.                                            *)
Covers(r, s, e) ==
    /\ r = <<>> => s = e
    /\ r # <<>> => r[1].from = s /\ r[Len(r)].to = e
    /\ \A i \in 1..Len(r) : r[i].from <= r[i].to
    /\ \A i \in 1..(Len(r) - 1) : r[i].to = r[i + 1].from

(* A plan that is returned covers exactly [start, end), with no more       *)
(* ranges than allowed, whatever the clock arithmetic does: a backfill     *)
(* neither skips a part of the range nor reaches beyond it.                *)
PlanTiles ==
    pc = "planned" =>
        start < end /\ Covers(result, start, end) /\ result # <<>> /\ Len(result) <= maxBatches

(* What the loop maintains: the ranges so far cover [start, cursor), the   *)
(* cursor does not pass the end, and there are never more ranges than      *)
(* allowed ("errors instead of allocating more than maxBatches ranges").   *)
PlanInv ==
    /\ TypeOK
    /\ Covers(result, start, cursor)
    /\ pc \in {"call", "invalid"} => result = <<>> /\ cursor = start
    /\ pc \in {"loop", "planned", "refused"} =>
          ValidCall /\ cursor <= end /\ Len(result) <= maxBatches
    /\ pc = "planned" => cursor = end
    /\ pc = "refused" => cursor < end /\ Len(result) = maxBatches

(* Away from the ends of the representable range Add is the sum.           *)
ExactAdd == \A t \in Times : start <= t /\ t < end => Plus(t, width) = t + width

(* Then every range is as wide as asked for, but for the last, and a valid *)
(* call is refused exactly when the limit is too small for the range.      *)
PlanExact ==
    ExactAdd /\ ValidCall =>
        /\ pc = "planned" => end - start <= maxBatches * width
        /\ pc = "refused" => end - start > maxBatches * width
        /\ \A i \in 1..Len(result) :
              LET w == result[i].to - result[i].from
              IN 0 < w /\ w <= width /\ (i < Len(result) => w = width)

(* TimescaleDB refreshes the buckets that lie wholly inside a range.  With *)
(* boundaries and width that are multiples of the bucket, as the comment   *)
(* asks of the caller, no bucket is left unrefreshed between two ranges.   *)
BucketsRefreshed ==
    /\ pc = "planned" /\ ExactAdd
    /\ start % Bucket = 0 /\ end % Bucket = 0 /\ width % Bucket = 0
    => \A b \in Times :
          b % Bucket = 0 /\ start <= b /\ b + Bucket <= end =>
              \E i \in 1..Len(result) : result[i].from <= b /\ b + Bucket <= result[i].to
=============================================================================
