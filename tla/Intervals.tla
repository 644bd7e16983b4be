----------------------------- MODULE Intervals -----------------------------
(***************************************************************************)
(* Interval of src/timescaledb/interval.go, and int64 arithmetic of a      *)
(* bounded width.  A fixed interval is a time.Duration in nanoseconds.     *)
(***************************************************************************)
EXTENDS Integers

CONSTANTS
    MaxInt,     \* the greatest time.Duration
    Micro       \* one microsecond, PostgreSQL's precision

ASSUME WidthAssumption == MaxInt \in Nat /\ Micro \in Nat \ {0}

Open == [kind |-> "open", n |-> 0]
FixedInterval(d) == [kind |-> "fixed", n |-> d]
CalendarMonths(m) == [kind |-> "months", n |-> m]
Interval == {Open} \cup [kind : {"fixed", "months"}, n : Int]

IsOpenEnded(i) == i.kind = "open"

(* Mutant: nanoseconds that PostgreSQL cannot store are accepted.          *)
ValidateAnyPrecision(i) == i.kind \in {"fixed", "months"} /\ i.n > 0

(* Interval.Validate.                                                      *)
Validate(i) ==
    \/ i.kind = "fixed" /\ i.n > 0 /\ i.n % Micro = 0
    \/ i.kind = "months" /\ i.n > 0

(* The value an int64 has where the unbounded result is n.                 *)
Wrap(n) ==
    IF n \in (-MaxInt - 1)..MaxInt THEN n
    ELSE ((n + MaxInt + 1) % (2 * (MaxInt + 1))) - MaxInt - 1
=============================================================================
