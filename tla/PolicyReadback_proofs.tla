----------------------- MODULE PolicyReadback_proofs -----------------------
(***************************************************************************)
(* Proofs about PolicyReadback, for every width of an integer, every       *)
(* length of a microsecond and of a day, and whatever other clients leave. *)
(***************************************************************************)
EXTENDS PolicyReadback, TLAPS

-----------------------------------------------------------------------------
(* Integer arithmetic.                                                     *)

(* Multiplication by a positive factor keeps an order.                     *)
LEMMA Monotone ==
    ASSUME NEW a \in Int, NEW b \in Int, NEW c \in Nat, a <= b
    PROVE  a * c <= b * c
<1>1. (b - a) * c >= 0
  BY SMT
<1> QED
  BY <1>1, SMT

(* Division is the inverse of multiplication, but for the remainder.       *)
LEMMA Division ==
    ASSUME NEW a \in Int, NEW b \in Nat \ {0}
    PROVE  /\ a \div b \in Int /\ a % b \in 0..(b - 1)
           /\ a = b * (a \div b) + (a % b)
  BY SMT

(* The truncated quotient is the greatest number that may be multiplied    *)
(* without passing the limits.                                             *)
LEMMA QuotGuards ==
    ASSUME NEW n \in Int, NEW b \in Nat \ {0}
    PROVE  /\ Quot(MaxInt, b) \in Int /\ Quot(-MaxInt - 1, b) \in Int
           /\ ~(n > Quot(MaxInt, b) \/ n < Quot(-MaxInt - 1, b)) <=>
                 n * b \in (-MaxInt - 1)..MaxInt
<1> DEFINE q == MaxInt \div b
           m == MaxInt + 1
           r == m \div b
<1>0. MaxInt \in Nat /\ m \in Nat /\ m > 0
  BY WidthAssumption
<1>1. Quot(MaxInt, b) = q /\ Quot(-MaxInt - 1, b) = -r
  BY <1>0, SMT DEF Quot
<1>2. q \in Int /\ b * q <= MaxInt /\ MaxInt < b * q + b
  BY <1>0, Division, SMT
<1>3. r \in Int /\ b * r <= m /\ m < b * r + b
  BY <1>0, Division, SMT
<1> HIDE DEF q, r, m
<1>4. n <= q <=> n * b <= MaxInt
  <2>1. n <= q => n * b <= q * b
    BY <1>2, Monotone
  <2>2. ~(n <= q) => (q + 1) * b <= n * b
    BY <1>2, Monotone
  <2>3. q * b = b * q /\ (q + 1) * b = b * q + b
    BY <1>2, SMT
  <2>4. n * b \in Int /\ q * b \in Int
    BY <1>2, SMT
  <2> QED BY <2>1, <2>2, <2>3, <2>4, <1>0, <1>2
<1>5. n >= -r <=> n * b >= -m
  <2>1. n >= -r => (-r) * b <= n * b
    BY <1>3, Monotone
  <2>2. ~(n >= -r) => n * b <= (-r - 1) * b
    BY <1>3, Monotone
  <2>3. (-r) * b = -(b * r) /\ (-r - 1) * b = -(b * r) - b
    BY <1>3, SMT
  <2>4. n * b \in Int /\ b * r \in Int
    BY <1>3, SMT
  <2> QED BY <2>1, <2>2, <2>3, <2>4, <1>0, <1>3
<1>6. n * b \in Int
  BY SMT
<1> QED
  BY <1>0, <1>1, <1>2, <1>3, <1>4, <1>5, <1>6 DEF m

(* Where the int64 result fits, it is the unbounded one.                   *)
LEMMA WrapFits ==
    ASSUME NEW n \in (-MaxInt - 1)..MaxInt
    PROVE  Wrap(n) = n
BY WidthAssumption DEF Wrap

-----------------------------------------------------------------------------
(* Intervals of the catalog.                                               *)

(* intervalFromPG returns what the catalog says, or an error: the guards   *)
(* let through exactly what fits, in each of its three steps.              *)
LEMMA ReadExactly ==
    ASSUME NEW v \in PGInterval, v # Null, ~Refused(v)
    PROVE  /\ intervalFromPG(v) = Meaning(v)
           /\ v.months = 0 \/ (v.days = 0 /\ v.micros = 0)
           /\ intervalFromPG(v) # Unreadable
<1>1. v \in [months : Int, days : Int, micros : (-MaxInt - 1)..MaxInt]
  BY DEF PGInterval
<1>2. v.months \in Int /\ v.days \in Int /\ v.micros \in (-MaxInt - 1)..MaxInt
  BY <1>1
<1>3. v.months = 0 \/ (v.days = 0 /\ v.micros = 0)
  BY DEF Refused, Mixed
<1>4. CASE v.months # 0
  <2>1. intervalFromPG(v) = CalendarMonths(v.months)
    BY <1>4 DEF intervalFromPG
  <2>2. CalendarMonths(v.months) \in Interval
    BY <1>2 DEF CalendarMonths, Interval
  <2> QED BY <1>3, <1>4, <2>1, <2>2, NullsAssumption DEF Meaning
<1>5. CASE v.months = 0
  <2>1. ~DaysOverflow(v) /\ ~SumOverflow(v) /\ ~DurationOverflow(v)
    BY <1>5 DEF Refused
  <2>2. MaxInt \in Nat /\ Day \in Nat \ {0} /\ Micro \in Nat \ {0}
    BY WidthAssumption, ClockAssumption
  <2>3. v.days * Day \in (-MaxInt - 1)..MaxInt
    BY <1>2, <2>1, <2>2, QuotGuards DEF DaysOverflow
  <2>4. dayMicros(v) = v.days * Day
    BY <2>3, WrapFits DEF dayMicros
  <2>5. v.days * Day + v.micros \in (-MaxInt - 1)..MaxInt
    <3> DEFINE d == v.days * Day
    <3>1. d \in (-MaxInt - 1)..MaxInt
      BY <2>3
    <3>2. /\ ~(d > 0 /\ v.micros > MaxInt - d)
          /\ ~(d < 0 /\ v.micros < (-MaxInt - 1) - d)
      BY <2>1, <2>4 DEF SumOverflow
    <3> HIDE DEF d
    <3>3. d + v.micros \in (-MaxInt - 1)..MaxInt
      BY <1>2, <2>2, <3>1, <3>2
    <3> QED BY <3>3 DEF d
  <2>6. micros(v) = v.days * Day + v.micros
    BY <2>4, <2>5, WrapFits DEF micros
  <2>7. micros(v) \in Int
    BY <2>5, <2>6
  <2>8. micros(v) * Micro \in (-MaxInt - 1)..MaxInt
    BY <2>1, <2>2, <2>7, QuotGuards DEF DurationOverflow
  <2>9. intervalFromPG(v) = FixedInterval(micros(v) * Micro)
    BY <1>5, <2>8, WrapFits DEF intervalFromPG
  <2>10. FixedInterval(micros(v) * Micro) \in Interval
    BY <2>8 DEF FixedInterval, Interval
  <2>11. Meaning(v) = FixedInterval(micros(v) * Micro)
    BY <1>5, <2>6 DEF Meaning
  <2> QED BY <1>5, <2>9, <2>10, <2>11, NullsAssumption
<1> QED BY <1>4, <1>5

(* Null is the open end.                                                   *)
LEMMA ReadNull == intervalFromPG(Null) = Open /\ Meaning(Null) = Open /\ Open # Unreadable
<1>1. Open \in Interval
  BY DEF Interval
<1> QED BY <1>1, NullsAssumption DEF intervalFromPG, Meaning

(* What cannot be read exactly is not read.                                *)
LEMMA ReadOrRefused ==
    ASSUME NEW v \in PGInterval, intervalFromPG(v) # Unreadable
    PROVE  /\ intervalFromPG(v) = Meaning(v)
           /\ v # Null => v.months = 0 \/ (v.days = 0 /\ v.micros = 0)
<1>1. CASE v = Null
  BY <1>1, ReadNull
<1>2. CASE v # Null
  <2>1. ~Refused(v)
    BY <1>2 DEF intervalFromPG
  <2> QED BY <1>2, <2>1, ReadExactly
<1> QED BY <1>1, <1>2

-----------------------------------------------------------------------------
(* What the library writes.                                                *)

(* Fixed intervals of a policy are durations.                              *)
Duration(i) == i \in Interval /\ (i.kind = "fixed" => i.n \in (-MaxInt - 1)..MaxInt)

LEMMA Truncation ==
    ASSUME NEW n \in (-MaxInt - 1)..MaxInt
    PROVE  Quot(n, Micro) \in (-MaxInt - 1)..MaxInt
<1>1. MaxInt \in Nat /\ Micro \in Nat \ {0}
  BY WidthAssumption
<1>2. CASE n >= 0
  <2> DEFINE q == n \div Micro
  <2>1. q \in Int /\ Micro * q <= n /\ n < Micro * q + Micro
    BY <1>1, Division, SMT
  <2> HIDE DEF q
  <2>2. q >= 0
    <3>1. q <= -1 => q * Micro <= (-1) * Micro
      BY <1>1, <2>1, Monotone
    <3> QED BY <1>1, <1>2, <2>1, <3>1, SMT
  <2>3. q <= n
    <3>1. 1 * q <= Micro * q
      BY <1>1, <2>1, <2>2, Monotone
    <3> QED BY <1>1, <2>1, <3>1, SMT
  <2> QED BY <1>1, <1>2, <2>1, <2>2, <2>3 DEF q, Quot
<1>3. CASE n < 0
  <2> DEFINE q == (-n) \div Micro
  <2>1. q \in Int /\ Micro * q <= -n /\ -n < Micro * q + Micro
    BY <1>1, Division, SMT
  <2> HIDE DEF q
  <2>2. q >= 0
    <3>1. q <= -1 => q * Micro <= (-1) * Micro
      BY <1>1, <2>1, Monotone
    <3> QED BY <1>1, <1>3, <2>1, <3>1, SMT
  <2>3. q <= -n
    <3>1. 1 * q <= Micro * q
      BY <1>1, <2>1, <2>2, Monotone
    <3> QED BY <1>1, <2>1, <3>1, SMT
  <2> QED BY <1>1, <1>3, <2>1, <2>2, <2>3 DEF q, Quot
<1> QED BY <1>2, <1>3

(* Every duration and every number of months has an interval.              *)
LEMMA WrittenType ==
    ASSUME NEW i, Duration(i)
    PROVE  nullablePGValue(i) \in PGInterval /\ pgValue(i) \in PGInterval
<1>1. i = Open \/ i \in [kind : {"fixed", "months"}, n : Int]
  BY DEF Duration, Interval
<1>2. 0 \in (-MaxInt - 1)..MaxInt
  BY WidthAssumption
<1>3. CASE i = Open
  <2>1. i.kind = "open" /\ i.n = 0
    BY <1>3 DEF Open
  <2>2. pgValue(i) = [months |-> 0, days |-> 0, micros |-> Quot(0, Micro)]
    BY <2>1 DEF pgValue
  <2>3. Quot(0, Micro) \in (-MaxInt - 1)..MaxInt
    BY <1>2, Truncation
  <2> QED BY <2>1, <2>2, <2>3 DEF nullablePGValue, IsOpenEnded, PGInterval
<1>4. CASE i \in [kind : {"fixed", "months"}, n : Int]
  <2>1. i.kind \in {"fixed", "months"} /\ i.n \in Int
    BY <1>4
  <2>2. nullablePGValue(i) = pgValue(i)
    BY <2>1 DEF nullablePGValue, IsOpenEnded
  <2>3. CASE i.kind = "months"
    BY <1>2, <2>1, <2>2, <2>3 DEF pgValue, PGInterval
  <2>4. CASE i.kind = "fixed"
    <3>1. Quot(i.n, Micro) \in (-MaxInt - 1)..MaxInt
      BY <2>4, Truncation DEF Duration
    <3> QED BY <2>1, <2>2, <2>4, <3>1 DEF pgValue, PGInterval
  <2> QED BY <2>1, <2>3, <2>4
<1> QED BY <1>1, <1>3, <1>4

(* A valid interval is read back as it was written.                        *)
LEMMA RoundTrip ==
    ASSUME NEW i, Duration(i), Validate(i)
    PROVE  intervalFromPG(pgValue(i)) = i /\ pgValue(i) # Null /\ i # Unreadable
<1>1. i \in Interval /\ i # Unreadable
  BY NullsAssumption DEF Duration
<1>2. i.kind \in {"fixed", "months"} /\ i.n \in Int /\ i.n > 0
  BY <1>1 DEF Validate, Interval, Open
<1>3. i = [kind |-> i.kind, n |-> i.n]
  BY <1>1 DEF Interval, Open
<1>4. pgValue(i) \in PGInterval
  BY WrittenType
<1>5. MaxInt \in Nat /\ Micro \in Nat \ {0} /\ Day \in Nat \ {0}
  BY WidthAssumption, ClockAssumption
<1>6. CASE i.kind = "months"
  <2>1. pgValue(i) = [months |-> i.n, days |-> 0, micros |-> 0]
    BY <1>6 DEF pgValue
  <2> DEFINE v == pgValue(i)
  <2>2. v.months = i.n /\ v.days = 0 /\ v.micros = 0
    BY <2>1
  <2>3. v # Null
    BY <1>2, <2>1, NullsAssumption
  <2> HIDE DEF v
  <2>4. ~Refused(v)
    BY <1>2, <2>2 DEF Refused, Mixed
  <2>5. intervalFromPG(v) = CalendarMonths(i.n)
    BY <1>2, <2>2, <2>3, <2>4 DEF intervalFromPG
  <2> QED BY <1>1, <1>3, <1>6, <2>3, <2>5 DEF v, CalendarMonths
<1>7. CASE i.kind = "fixed"
  <2> DEFINE u == i.n \div Micro
  <2>1. u \in Int /\ u * Micro = i.n
    <3>1. u \in Int /\ i.n = Micro * u + (i.n % Micro)
      BY <1>2, <1>5, Division
    <3>2. i.n % Micro = 0
      BY <1>7 DEF Validate
    <3> HIDE DEF u
    <3> QED BY <1>2, <1>5, <3>1, <3>2, SMT
  <2>2. Quot(i.n, Micro) = u
    BY <1>2 DEF Quot
  <2>3. pgValue(i) = [months |-> 0, days |-> 0, micros |-> u]
    BY <1>7, <2>2 DEF pgValue
  <2>4. u \in (-MaxInt - 1)..MaxInt /\ i.n \in (-MaxInt - 1)..MaxInt
    BY <1>7, <2>2, Truncation DEF Duration
  <2> DEFINE v == pgValue(i)
  <2> HIDE DEF u
  <2>5. v.months = 0 /\ v.days = 0 /\ v.micros = u
    BY <2>3
  <2>6. v # Null
    BY <2>1, <2>3, NullsAssumption
  <2> HIDE DEF v
  <2>7. dayMicros(v) = 0
    <3>1. 0 \in (-MaxInt - 1)..MaxInt /\ 0 * Day = 0
      BY <1>5
    <3> QED BY <2>5, <3>1, WrapFits DEF dayMicros
  <2>8. micros(v) = u
    <3>1. 0 + u = u
      BY <2>1
    <3> QED BY <2>4, <2>5, <2>7, <3>1, WrapFits DEF micros
  <2>9. ~DurationOverflow(v)
    <3>1. u * Micro \in (-MaxInt - 1)..MaxInt
      BY <2>1, <2>4
    <3> QED BY <1>5, <2>1, <2>8, <3>1, QuotGuards DEF DurationOverflow
  <2>10. ~DaysOverflow(v)
    <3>1. 0 * Day \in (-MaxInt - 1)..MaxInt
      BY <1>5
    <3> QED BY <1>5, <2>5, <3>1, QuotGuards DEF DaysOverflow
  <2>11. ~SumOverflow(v)
    BY <2>7 DEF SumOverflow
  <2>12. ~Refused(v)
    BY <2>5, <2>9, <2>10, <2>11 DEF Refused, Mixed
  <2>13. intervalFromPG(v) = FixedInterval(Wrap(u * Micro))
    BY <2>5, <2>6, <2>8, <2>12 DEF intervalFromPG
  <2>14. Wrap(u * Micro) = i.n
    BY <2>1, <2>4, WrapFits
  <2> QED BY <1>1, <1>3, <1>7, <2>6, <2>13, <2>14 DEF v, FixedInterval
<1> QED BY <1>2, <1>6, <1>7

LEMMA NullableRoundTrip ==
    ASSUME NEW i, Duration(i), IsOpenEnded(i) \/ Validate(i)
    PROVE  intervalFromPG(nullablePGValue(i)) = i /\ i # Unreadable
<1>1. CASE IsOpenEnded(i)
  <2>1. i = Open
    BY <1>1 DEF IsOpenEnded, Duration, Interval
  <2> QED BY <1>1, <2>1, ReadNull DEF nullablePGValue
<1>2. CASE ~IsOpenEnded(i)
  BY <1>2, RoundTrip DEF nullablePGValue
<1> QED BY <1>1, <1>2

-----------------------------------------------------------------------------
(* Policies.                                                               *)

(* A wish and its defaults have durations, and whatever is written is a    *)
(* job.                                                                    *)
LEMMA WishType ==
    ASSUME NEW p \in Wishes
    PROVE  /\ p \in Policy /\ normalized(p) \in Policy
           /\ Duration(normalized(p).start) /\ Duration(normalized(p).end)
           /\ Duration(normalized(p).schedule)
<1>1. p \in Policy /\ Duration(p.start) /\ Duration(p.end) /\ Duration(p.schedule)
  <2>1. p \in Policy
    BY WishesAssumption
  <2>2. p.start \in Interval /\ p.end \in Interval /\ p.schedule \in Interval
    BY <2>1 DEF Policy
  <2>3. \A i \in {p.start, p.end, p.schedule} : i.kind = "fixed" => i.n \in (-MaxInt - 1)..MaxInt
    BY WishesAssumption
  <2> QED BY <2>1, <2>2, <2>3 DEF Duration
<1>2. CASE normalized(p) = p
  BY <1>1, <1>2
<1>3. CASE normalized(p) # p
  <2> DEFINE n == IF kind = "retention" THEN 2 * HalfDay ELSE HalfDay
  <2>1. n \in (-MaxInt - 1)..MaxInt /\ n \in Int
    BY ClockAssumption, WidthAssumption
  <2>2. normalized(p) = [p EXCEPT !.schedule = FixedInterval(n)]
    BY <1>3 DEF normalized
  <2> HIDE DEF n
  <2>3. Duration(FixedInterval(n))
    BY <2>1 DEF Duration, Interval, FixedInterval
  <2>4. FixedInterval(n) \in Interval
    BY <2>3 DEF Duration
  <2>5. /\ normalized(p) \in Policy /\ normalized(p).schedule = FixedInterval(n)
        /\ normalized(p).start = p.start /\ normalized(p).end = p.end
    BY <1>1, <2>2, <2>4 DEF Policy
  <2> QED BY <1>1, <2>3, <2>5
<1> QED BY <1>2, <1>3

LEMMA AddedType ==
    ASSUME NEW p \in Wishes
    PROVE  added(normalized(p)) \in Job
<1> DEFINE q == normalized(p)
<1>1. q \in Policy /\ Duration(q.start) /\ Duration(q.end) /\ Duration(q.schedule)
  BY WishType
<1> HIDE DEF q
<1>2. /\ nullablePGValue(q.start) \in PGInterval /\ nullablePGValue(q.end) \in PGInterval
      /\ pgValue(q.schedule) \in PGInterval
  BY <1>1, WrittenType
<1>3. (IF q.initial = NoTime THEN NoTime ELSE q.initial \div Micro) \in Int \cup {NoTime}
  <2>1. q.initial \in Int \cup {NoTime}
    BY <1>1 DEF Policy
  <2>2. Micro \in Nat \ {0}
    BY WidthAssumption
  <2> QED BY <2>1, <2>2, Division
<1>4. /\ q.timezone \in STRING \cup {NoZone} /\ q.tiered \in BOOLEAN \cup {NoBool}
      /\ q.buckets \in Int \cup {Absent} /\ q.max \in Int \cup {Absent}
      /\ q.newest \in BOOLEAN \cup {Absent}
  BY <1>1 DEF Policy
<1>5. added(q) \in Job
  BY <1>2, <1>3, <1>4, Zenon DEF added, Job
<1> QED BY <1>5 DEF q

(* A point in time is read back to the microsecond.                        *)
LEMMA TimesRoundTrip ==
    ASSUME NEW t \in Int \cup {NoTime}
    PROVE  LET u == IF t = NoTime THEN NoTime ELSE t \div Micro
           IN  timesEqual(IF u = NoTime THEN NoTime ELSE u * Micro, t)
<1>1. Micro \in Nat \ {0}
  BY WidthAssumption
<1>2. CASE t = NoTime
  BY <1>2 DEF timesEqual
<1>3. CASE t # NoTime
  <2> DEFINE u == t \div Micro
  <2>1. t \in Int /\ u \in Int
    BY <1>1, <1>3, Division
  <2> HIDE DEF u
  <2>2. u # NoTime /\ u * Micro \in Int
    BY <1>1, <2>1, NullsAssumption
  <2>3. (u * Micro) \div Micro = u
    <3> DEFINE w == u * Micro
    <3>1. w \in Int /\ w \div Micro \in Int /\ w % Micro \in 0..(Micro - 1)
          /\ w = Micro * (w \div Micro) + (w % Micro)
      BY <1>1, <2>2, Division
    <3> DEFINE q == w \div Micro
               r == w % Micro
    <3>2. q \in Int /\ r \in 0..(Micro - 1) /\ u * Micro = Micro * q + r
      BY <3>1
    <3> HIDE DEF w, q, r
    <3>3. ASSUME q <= u - 1 PROVE FALSE
      <4>1. q * Micro <= (u - 1) * Micro
        BY <1>1, <2>1, <3>2, <3>3, Monotone
      <4>2. (u - 1) * Micro = u * Micro - Micro /\ q * Micro = Micro * q
        BY <1>1, <2>1, <3>2, SMT
      <4>3. Micro * q \in Int /\ u * Micro \in Int
        BY <1>1, <2>1, <3>2
      <4> QED BY <1>1, <3>2, <4>1, <4>2, <4>3
    <3>4. ASSUME q >= u + 1 PROVE FALSE
      <4>1. (u + 1) * Micro <= q * Micro
        BY <1>1, <2>1, <3>2, <3>4, Monotone
      <4>2. (u + 1) * Micro = u * Micro + Micro /\ q * Micro = Micro * q
        BY <1>1, <2>1, <3>2, SMT
      <4>3. Micro * q \in Int /\ u * Micro \in Int
        BY <1>1, <2>1, <3>2
      <4> QED BY <1>1, <3>2, <4>1, <4>2, <4>3
    <3>5. q = u
      BY <2>1, <3>2, <3>3, <3>4
    <3> QED BY <3>5 DEF q, w
  <2>4. t \div Micro = u
    BY DEF u
  <2>5. (u * Micro) # NoTime
    BY <2>2, NullsAssumption
  <2>6. timesEqual(u * Micro, t)
    BY <1>3, <2>3, <2>4, <2>5 DEF timesEqual
  <2> QED BY <1>3, <2>2, <2>4, <2>6
<1> QED BY <1>2, <1>3

(* What the library writes for a valid wish reads back as that wish.       *)
LEMMA WrittenIsRead ==
    ASSUME NEW p \in Wishes, kind \in Kinds, ValidPolicy(normalized(p))
    PROVE  /\ Readable(added(normalized(p)))
           /\ PoliciesEqual(inspected(added(normalized(p))), normalized(p))
<1> DEFINE q == normalized(p)
           j == added(q)
           r == inspected(j)
<1>1. q \in Policy /\ Duration(q.start) /\ Duration(q.end) /\ Duration(q.schedule)
  BY WishType
<1>2. ValidPolicy(q)
  OBVIOUS
<1> HIDE DEF q
<1>3. /\ j.start = nullablePGValue(q.start) /\ j.end = nullablePGValue(q.end)
      /\ j.schedule = pgValue(q.schedule)
      /\ j.initial = (IF q.initial = NoTime THEN NoTime ELSE q.initial \div Micro)
      /\ j.timezone = q.timezone /\ j.tiered = q.tiered
      /\ j.buckets = q.buckets /\ j.max = q.max /\ j.newest = q.newest
  BY DEF added
<1> HIDE DEF j
<1>4. intervalFromPG(j.schedule) = q.schedule /\ q.schedule # Unreadable
  BY <1>1, <1>2, <1>3, RoundTrip DEF ValidPolicy
<1>5. intervalFromPG(j.start) = q.start /\ q.start # Unreadable
  <2>1. IsOpenEnded(q.start) \/ Validate(q.start)
    BY <1>2 DEF ValidPolicy, ValidOffsets
  <2> QED BY <1>1, <1>3, <2>1, NullableRoundTrip
<1>6. kind = "refresh" => intervalFromPG(j.end) = q.end /\ q.end # Unreadable
  <2>1. kind = "refresh" => IsOpenEnded(q.end) \/ Validate(q.end)
    BY <1>2 DEF ValidPolicy, ValidOffsets
  <2> QED BY <1>1, <1>3, <2>1, NullableRoundTrip
<1>7. Readable(j)
  BY <1>4, <1>5, <1>6 DEF Readable, IntervalsOf
<1>8. /\ r.start = q.start /\ r.schedule = q.schedule
      /\ r.timezone = q.timezone /\ r.tiered = q.tiered
      /\ r.initial = (IF j.initial = NoTime THEN NoTime ELSE j.initial * Micro)
      /\ r.end = intervalFromPG(j.end)
      /\ r.buckets = Coalesce(q.buckets, 0) /\ r.max = Coalesce(q.max, 10)
      /\ r.newest = Coalesce(q.newest, TRUE)
  BY <1>3, <1>4, <1>5, Zenon DEF inspected
<1> HIDE DEF r
<1>9. r.buckets = q.buckets /\ r.max = q.max /\ r.newest = q.newest
  <2>1. q.buckets \in Int /\ q.max \in Int /\ q.newest \in BOOLEAN
    BY <1>1 DEF Policy
  <2>2. q.buckets # Absent /\ q.max # Absent /\ q.newest # Absent
    BY <2>1, NullsAssumption, Zenon
  <2> QED BY <1>8, <2>2, Zenon DEF Coalesce
<1>10. timesEqual(r.initial, q.initial)
  <2>1. q.initial \in Int \cup {NoTime}
    BY <1>1 DEF Policy
  <2> QED BY <1>3, <1>8, <2>1, TimesRoundTrip
<1>11. PoliciesEqual(r, q)
  BY <1>6, <1>8, <1>9, <1>10, Zenon DEF PoliciesEqual
<1> QED BY <1>7, <1>11 DEF r, j, q

-----------------------------------------------------------------------------
(* The behaviours.                                                         *)

TypeInv ==
    /\ kind \in Kinds
    /\ job \in Job \cup {NoJob}
    /\ agreed \in Wishes \cup {NoPolicy}

(* What a step of Next may do: it keeps what there is, writes a valid wish *)
(* and agrees to it, agrees to what is in place, or claims nothing.        *)
LEMMA StepForms ==
    ASSUME Next
    PROVE  \/ agreed' = NoPolicy /\ kind' = kind /\ job' \in {job, NoJob} \cup ForeignJobs
           \/ \E p \in Wishes :
                 /\ agreed' = p /\ kind' = kind /\ ValidPolicy(normalized(p))
                 /\ job' = added(normalized(p))
           \/ \E p \in Wishes :
                 /\ agreed' = p /\ kind' = kind /\ job' = job
                 /\ InPlace(p) /\ ~InspectFails
<1> DEFINE Quiet == agreed' = NoPolicy /\ kind' = kind /\ job' \in {job, NoJob} \cup ForeignJobs
           Written(p) == /\ agreed' = p /\ kind' = kind /\ ValidPolicy(normalized(p))
                         /\ job' = added(normalized(p))
           Kept(p) == agreed' = p /\ kind' = kind /\ job' = job /\ InPlace(p) /\ ~InspectFails
<1>1. ASSUME NEW p \in Wishes, Ensure(p) PROVE Quiet \/ Written(p) \/ Kept(p)
  BY <1>1 DEF Ensure, Writes, NoClaim, Unchanged
<1>2. ASSUME NEW p \in Wishes, Reconcile(p) PROVE Quiet \/ Written(p) \/ Kept(p)
  BY <1>2 DEF Reconcile, Writes, NoClaim, Unchanged
<1>3. ASSUME NEW p \in Wishes, Replace(p) PROVE Quiet \/ Written(p)
  BY <1>3 DEF Replace, Writes, NoClaim
<1>4. ASSUME NEW p \in Wishes, Add(p) PROVE Quiet \/ Written(p)
  BY <1>4 DEF Add, Writes, NoClaim
<1>5. ASSUME Remove PROVE Quiet
  BY <1>5 DEF Remove
<1>6. ASSUME NEW j \in ForeignJobs, Meddle(j) PROVE Quiet
  BY <1>6 DEF Meddle
<1> QED BY <1>1, <1>2, <1>3, <1>4, <1>5, <1>6 DEF Next

(* The variables keep their types: every job the library writes has a      *)
(* representation in the catalog.                                          *)
THEOREM TypeCorrect == Spec => []TypeInv
<1>1. Init => TypeInv
  BY DEF Init, TypeInv
<1>2. TypeInv /\ [Next]_vars => TypeInv'
  <2> SUFFICES ASSUME TypeInv, [Next]_vars PROVE TypeInv'
    OBVIOUS
  <2>1. CASE UNCHANGED vars
    BY <2>1 DEF TypeInv, vars
  <2>2. CASE Next
    BY <2>2, StepForms, AddedType, JobsAssumption DEF TypeInv
  <2> QED BY <2>1, <2>2
<1> QED BY <1>1, <1>2, PTL DEF Spec

(* Whoever wrote the job, each of its intervals is read as what it is or   *)
(* refused: the three range checks of intervalFromPG let nothing wrap, for *)
(* every width of an integer.                                              *)
THEOREM ReadsAreExact == Spec => []NeverMisread
<1>1. TypeInv => NeverMisread
  <2> SUFFICES ASSUME TypeInv, job # NoJob, Readable(job), NEW v \in IntervalsOf(job)
               PROVE  /\ intervalFromPG(v) = Meaning(v)
                      /\ v # Null => v.months = 0 \/ (v.days = 0 /\ v.micros = 0)
    BY DEF NeverMisread
  <2>1. job \in Job
    BY DEF TypeInv
  <2>2. v \in PGInterval
    BY <2>1 DEF IntervalsOf, Job
  <2>3. intervalFromPG(v) # Unreadable
    BY DEF Readable
  <2> QED BY <2>2, <2>3, ReadOrRefused
<1> QED BY <1>1, TypeCorrect, PTL

(* After any report that a wish is in place the wish reads back without    *)
(* drift, whatever other clients did before: Ensure and Reconcile converge *)
(* for every valid policy, and not for those of one test.                  *)
THEOREM NoDriftAfterAgreement == Spec => []Converged
<1>1. Init => Converged
  BY DEF Init, Converged
<1>2. TypeInv /\ Converged /\ [Next]_vars => Converged'
  <2> SUFFICES ASSUME TypeInv, Converged, [Next]_vars, agreed' # NoPolicy
               PROVE  Converged'
    BY DEF Converged
  <2>1. CASE UNCHANGED vars
    BY <2>1 DEF Converged, vars, Readable, IntervalsOf, PoliciesEqual, normalized
  <2>2. CASE Next
    <3>1. \/ \E p \in Wishes :
                /\ agreed' = p /\ kind' = kind /\ ValidPolicy(normalized(p))
                /\ job' = added(normalized(p))
          \/ \E p \in Wishes :
                /\ agreed' = p /\ kind' = kind /\ job' = job
                /\ InPlace(p) /\ ~InspectFails
      BY <2>2, StepForms
    <3>2. ASSUME NEW p \in Wishes, agreed' = p, kind' = kind, job' # NoJob,
                 Readable(job'), PoliciesEqual(inspected(job'), normalized(p))
          PROVE  Converged'
      BY <3>2 DEF Converged, Readable, IntervalsOf, PoliciesEqual, normalized
    <3>3. ASSUME NEW p \in Wishes, agreed' = p, kind' = kind, ValidPolicy(normalized(p)),
                 job' = added(normalized(p))
          PROVE  Converged'
      <4>1. job' # NoJob
        BY <3>3, AddedType, NullsAssumption
      <4>2. Readable(job') /\ PoliciesEqual(inspected(job'), normalized(p))
        BY <3>3, WrittenIsRead DEF TypeInv
      <4> QED BY <3>2, <3>3, <4>1, <4>2
    <3>4. ASSUME NEW p \in Wishes, agreed' = p, kind' = kind, job' = job,
                 InPlace(p), ~InspectFails
          PROVE  Converged'
      <4>1. job' # NoJob /\ Readable(job') /\ PoliciesEqual(inspected(job'), normalized(p))
        BY <3>4 DEF InPlace, InspectFails
      <4> QED BY <3>2, <3>4, <4>1
    <3> QED BY <3>1, <3>3, <3>4
  <2> QED BY <2>1, <2>2
<1> QED BY <1>1, <1>2, TypeCorrect, PTL DEF Spec
=============================================================================
