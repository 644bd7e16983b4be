----------------------- MODULE RefreshBatches_proofs -----------------------
(***************************************************************************)
(* PlanRefreshBatches covers its range exactly, for every clock and every  *)
(* call: PlanInv by induction over the loop, and PlanTiles from it.  Where *)
(* Add is the sum, ExactSoFar and BucketsSoFar say how wide the ranges are *)
(* and that none of their ends cuts a bucket.                              *)
(***************************************************************************)
EXTENDS RefreshBatches, TLAPS

USE DEF TimeRange

(* A range ends where time.Time.Add and the two guards of the loop put it: *)
(* not before its start and not beyond the end.                            *)
LEMMA BatchEndBounds ==
    ASSUME cursor \in Times, end \in Times, width \in Durations, width > 0, cursor < end
    PROVE  BatchEnd \in Times /\ cursor <= BatchEnd /\ BatchEnd <= end
  <1> DEFINE next == Plus(cursor, width)
  <1>1. next \in Times /\ next \in Int /\ cursor \in Int /\ end \in Int
    BY TimesAssumption, PlusAssumption
  <1>2. BatchEnd = IF next < cursor \/ next > end THEN end ELSE next
    BY DEF BatchEnd
  <1> HIDE DEF next
  <1> QED BY <1>1, <1>2

(* Covers grows with the loop: appending [e, f) to what covers [s, e).     *)
LEMMA CoversExtends ==
    ASSUME NEW r \in Seq(TimeRange), NEW s \in Times, NEW e \in Times, NEW f \in Times,
           Covers(r, s, e), e <= f
    PROVE  /\ Append(r, [from |-> e, to |-> f]) \in Seq(TimeRange)
           /\ Covers(Append(r, [from |-> e, to |-> f]), s, f)
  <1> DEFINE x == [from |-> e, to |-> f]
             q == Append(r, x)
  <1>1. x \in TimeRange /\ x.from = e /\ x.to = f
    OBVIOUS
  <1>2. /\ q \in Seq(TimeRange)
        /\ Len(q) = Len(r) + 1 /\ Len(r) \in Nat
        /\ \A i \in 1..Len(r) : q[i] = r[i]
        /\ q[Len(q)] = x
    BY <1>1
  <1> HIDE DEF x, q
  <1>3. q # <<>> /\ (r = <<>> <=> Len(r) = 0)
    BY <1>2
  <1>4. q[1].from = s
    <2>1. CASE r = <<>>
      BY <2>1, <1>1, <1>2, <1>3 DEF Covers
    <2>2. CASE r # <<>>
      BY <2>2, <1>2, <1>3 DEF Covers
    <2> QED BY <2>1, <2>2
  <1>5. q[Len(q)].to = f
    BY <1>1, <1>2
  <1>6. ASSUME NEW i \in 1..Len(q) PROVE q[i].from <= q[i].to
    <2>1. CASE i = Len(q)
      BY <2>1, <1>1, <1>2
    <2>2. CASE i # Len(q)
      BY <2>2, <1>2 DEF Covers
    <2> QED BY <2>1, <2>2
  <1>7. ASSUME NEW i \in 1..(Len(q) - 1) PROVE q[i].to = q[i + 1].from
    <2>1. CASE i = Len(r)
      BY <2>1, <1>1, <1>2, <1>3 DEF Covers
    <2>2. CASE i # Len(r)
      BY <2>2, <1>2 DEF Covers
    <2> QED BY <2>1, <2>2, <1>2
  <1> QED BY <1>2, <1>3, <1>4, <1>5, <1>6, <1>7 DEF Covers, x, q

LEMMA PlanInvInit == Init => PlanInv
  BY DEF Init, PlanInv, TypeOK, Covers

LEMMA PlanInvNext == PlanInv /\ [Next]_vars => PlanInv'
  <1> SUFFICES ASSUME PlanInv, [Next]_vars PROVE PlanInv'
    OBVIOUS
  <1> USE TimesAssumption
  <1>1. CASE Validate
    BY <1>1 DEF PlanInv, TypeOK, Validate, ValidCall, ValidWidth, Covers
  <1>2. CASE Refuse
    BY <1>2 DEF PlanInv, TypeOK, Refuse, Full, ValidCall, ValidWidth, Covers
  <1>3. CASE Extend
    <2>1. /\ pc = "loop" /\ ValidCall /\ Covers(result, start, cursor)
          /\ Len(result) <= maxBatches /\ Len(result) # maxBatches /\ Len(result) \in Nat
          /\ start \in Times /\ end \in Times /\ width \in Durations /\ maxBatches \in Int
          /\ cursor \in Times /\ cursor < end /\ result \in Seq(TimeRange)
      BY <1>3 DEF PlanInv, TypeOK, Extend, Full
    <2>2. BatchEnd \in Times /\ cursor <= BatchEnd /\ BatchEnd <= end
      BY <2>1, BatchEndBounds DEF ValidCall, ValidWidth
    <2>3. /\ result' = Append(result, [from |-> cursor, to |-> BatchEnd])
          /\ cursor' = BatchEnd
          /\ UNCHANGED <<start, end, width, maxBatches, pc>>
      BY <1>3 DEF Extend
    <2>4. result' \in Seq(TimeRange) /\ Covers(result', start', cursor')
      BY <2>1, <2>2, <2>3, CoversExtends
    <2>5. Len(result') <= maxBatches
      BY <2>1, <2>3
    <2>6. TypeOK'
      BY <2>1, <2>2, <2>3, <2>4 DEF PlanInv, TypeOK
    <2>7. ValidCall'
      BY <2>1, <2>3 DEF ValidCall, ValidWidth
    <2>8. Covers(result, start, cursor)'
      BY <2>4 DEF Covers
    <2> QED BY <2>1, <2>2, <2>3, <2>5, <2>6, <2>7, <2>8 DEF PlanInv
  <1>4. CASE Finish
    BY <1>4 DEF PlanInv, TypeOK, Finish, ValidCall, ValidWidth, Covers
  <1>5. CASE UNCHANGED vars
    BY <1>5 DEF PlanInv, TypeOK, vars, ValidCall, ValidWidth, Covers
  <1> QED BY <1>1, <1>2, <1>3, <1>4, <1>5 DEF Next

(* The loop of PlanRefreshBatches keeps its cursor inside the range, its   *)
(* ranges chained up to the cursor, and their number within the limit.     *)
THEOREM PlanIsBounded == Spec => []PlanInv
  <1>1. Init => PlanInv
    BY PlanInvInit
  <1>2. PlanInv /\ [Next]_vars => PlanInv'
    BY PlanInvNext
  <1> QED BY <1>1, <1>2, PTL DEF Spec

(* A plan that PlanRefreshBatches returns covers exactly [start, end): no  *)
(* gap, no overlap, no more ranges than the caller allowed, whatever       *)
(* time.Time.Add returns.                                                  *)
THEOREM PlanCoversRange == Spec => []PlanTiles
  <1>1. PlanInv => PlanTiles
    BY TimesAssumption DEF PlanInv, PlanTiles, TypeOK, ValidCall, Covers
  <1> QED BY <1>1, PlanIsBounded, PTL

-----------------------------------------------------------------------------
(* The strengthening for PlanExact: before the end is reached every range  *)
(* has the full width, so the cursor tells how many there are.             *)
Width(i) == result[i].to - result[i].from

ExactSoFar ==
    ExactAdd /\ ValidCall =>
        /\ \A i \in 1..Len(result) : 0 < Width(i) /\ Width(i) <= width
        /\ \A i \in 1..(Len(result) - 1) : Width(i) = width
        /\ cursor < end => \A i \in 1..Len(result) : Width(i) = width
        /\ cursor < end => cursor - start = Len(result) * width
        /\ cursor = end => end - start <= Len(result) * width

LEMMA ProductGrows ==
    ASSUME NEW n \in Nat, NEW m \in Int, NEW w \in Nat, n <= m
    PROVE  n * w <= m * w /\ (n + 1) * w = n * w + w
  OBVIOUS

LEMMA ExactInit == Init => ExactSoFar
  BY TimesAssumption DEF Init, ExactSoFar, Width, ValidCall, ValidWidth

LEMMA ExactNext == PlanInv /\ ExactSoFar /\ [Next]_vars => ExactSoFar'
  <1> SUFFICES ASSUME PlanInv, ExactSoFar, [Next]_vars, ExactAdd', ValidCall'
               PROVE  ExactSoFar'
    BY DEF ExactSoFar
  <1>a. UNCHANGED <<start, end, width, maxBatches>>
    BY DEF Next, Validate, Refuse, Extend, Finish, vars
  <1>b. ExactAdd /\ ValidCall
    BY <1>a DEF ExactAdd, ValidCall, ValidWidth
  <1>1. CASE Extend
    <2>1. /\ pc = "loop" /\ Covers(result, start, cursor) /\ Len(result) \in Nat
          /\ start \in Int /\ end \in Int /\ width \in Nat /\ width \in Durations /\ 0 < width
          /\ cursor \in Times /\ cursor \in Int /\ start <= cursor /\ cursor < end
          /\ end \in Times /\ result \in Seq(TimeRange)
      <3>1. start <= cursor
        BY <1>1, <1>b, TimesAssumption, ProductGrows
           DEF PlanInv, TypeOK, Extend, ExactSoFar, ValidCall, ValidWidth
      <3> QED BY <3>1, <1>1, <1>b, TimesAssumption DEF PlanInv, TypeOK, Extend, ValidCall, ValidWidth
    <2>2. BatchEnd = IF cursor + width > end THEN end ELSE cursor + width
      <3>1. Plus(cursor, width) = cursor + width
        BY <2>1, <1>b DEF ExactAdd
      <3> QED BY <3>1, <2>1 DEF BatchEnd
    <2>3. BatchEnd \in Times /\ cursor < BatchEnd /\ BatchEnd <= end /\ BatchEnd <= cursor + width
      BY <2>1, <2>2, BatchEndBounds
    <2> DEFINE x == [from |-> cursor, to |-> BatchEnd]
    <2>4. /\ result' = Append(result, x) /\ cursor' = BatchEnd
          /\ Len(result') = Len(result) + 1
          /\ x.from = cursor /\ x.to = BatchEnd /\ x \in TimeRange
      BY <1>1, <2>1, <2>3 DEF Extend
    <2> HIDE DEF x
    <2>5. /\ \A i \in 1..Len(result) : result'[i] = result[i]
          /\ result'[Len(result')] = x
      BY <2>1, <2>4
    <2>6. ASSUME NEW i \in 1..Len(result) PROVE Width(i)' = Width(i) /\ Width(i) = width
      BY <2>1, <2>5, <1>b DEF Width, ExactSoFar
    <2>7. ASSUME NEW i \in 1..Len(result'), i = Len(result')
          PROVE  Width(i)' = BatchEnd - cursor
      BY <2>4, <2>5, <2>7 DEF Width
    <2>8. \A i \in 1..Len(result') : i # Len(result') => i \in 1..Len(result)
      BY <2>1, <2>4
    <2>9. cursor - start = Len(result) * width /\ (Len(result) + 1) * width = Len(result) * width + width
      BY <2>1, <1>b, ProductGrows DEF ExactSoFar
    <2>10. \A i \in 1..Len(result') : 0 < Width(i)' /\ Width(i)' <= width'
      BY <2>1, <2>3, <2>6, <2>7, <2>8, <1>a
    <2>11. \A i \in 1..(Len(result') - 1) : Width(i)' = width'
      BY <2>1, <2>4, <2>6, <1>a
    <2>12. cursor' < end' => \A i \in 1..Len(result') : Width(i)' = width'
      BY <2>1, <2>2, <2>4, <2>6, <2>7, <2>8, <1>a
    <2>13. cursor' < end' => cursor' - start' = Len(result') * width'
      BY <2>1, <2>2, <2>4, <2>9, <1>a
    <2>14. cursor' = end' => end' - start' <= Len(result') * width'
      BY <2>1, <2>3, <2>4, <2>9, <1>a
    <2> QED BY <2>10, <2>11, <2>12, <2>13, <2>14 DEF ExactSoFar
  <1>2. CASE UNCHANGED <<cursor, result>>
    BY <1>a, <1>b, <1>2 DEF ExactSoFar, Width
  <1> QED BY <1>1, <1>2 DEF Next, Validate, Refuse, Finish, vars

(* When time.Time.Add is the sum, all ranges but the last have the full    *)
(* width, and PlanRefreshBatches refuses a valid call exactly when its     *)
(* limit is too small for the range.                                       *)
THEOREM PlanIsExact == Spec => []PlanExact
  <1>1. Init => ExactSoFar
    BY ExactInit
  <1>2. PlanInv /\ ExactSoFar /\ [Next]_vars => ExactSoFar'
    BY ExactNext
  <1>3. PlanInv /\ ExactSoFar => PlanExact
    <2> SUFFICES ASSUME PlanInv, ExactSoFar, ExactAdd, ValidCall PROVE PlanExact
      BY DEF PlanExact
    <2>1. /\ start \in Int /\ end \in Int /\ cursor \in Int /\ maxBatches \in Int
          /\ width \in Nat /\ Len(result) \in Nat
      BY TimesAssumption DEF PlanInv, TypeOK, ValidCall, ValidWidth
    <2>2. Len(result) <= maxBatches => Len(result) * width <= maxBatches * width
      BY <2>1, ProductGrows
    <2>3. pc = "planned" => end - start <= maxBatches * width
      <3> SUFFICES ASSUME pc = "planned" PROVE end - start <= maxBatches * width
        OBVIOUS
      <3>1. end - start <= Len(result) * width /\ Len(result) * width <= maxBatches * width
        BY <2>1, <2>2 DEF PlanInv, ExactSoFar
      <3> DEFINE a == Len(result) * width
                 b == maxBatches * width
      <3>2. a \in Int /\ b \in Int
        BY <2>1
      <3> HIDE DEF a, b
      <3> QED BY <2>1, <3>1, <3>2 DEF a, b
    <2>4. pc = "refused" => end - start > maxBatches * width
      <3> SUFFICES ASSUME pc = "refused" PROVE end - start > maxBatches * width
        OBVIOUS
      <3>1. cursor < end /\ Len(result) = maxBatches /\ cursor - start = Len(result) * width
        BY DEF PlanInv, ExactSoFar
      <3>2. cursor - start = maxBatches * width
        BY <3>1
      <3> DEFINE b == maxBatches * width
      <3>3. b \in Int
        BY <2>1
      <3> HIDE DEF b
      <3> QED BY <2>1, <3>1, <3>2, <3>3 DEF b
    <2>5. \A i \in 1..Len(result) :
            0 < Width(i) /\ Width(i) <= width /\ (i < Len(result) => Width(i) = width)
      BY <2>1 DEF ExactSoFar
    <2> QED BY <2>3, <2>4, <2>5 DEF PlanExact, Width
  <1> QED BY <1>1, <1>2, <1>3, PlanIsBounded, PTL DEF Spec

-----------------------------------------------------------------------------
(* Buckets.  A multiple of the bucket is written as one, since the provers *)
(* do not reason about % of sums.                                          *)
Multiple(a) == \E k \in Int : a = k * Bucket

LEMMA MultipleMod ==
    ASSUME NEW a \in Int
    PROVE  Multiple(a) <=> a % Bucket = 0
<1>1. Bucket \in Nat \ {0}
  BY UnitsAssumption
<1>2. a = Bucket * (a \div Bucket) + (a % Bucket) /\ a \div Bucket \in Int
  BY <1>1
<1>3. a % Bucket = 0 => Multiple(a)
  BY <1>1, <1>2 DEF Multiple
<1>4. ASSUME NEW k \in Int, a = k * Bucket PROVE a % Bucket = 0
  <2> DEFINE q == a \div Bucket
             r == a % Bucket
  <2>1. q \in Int /\ r \in Int /\ 0 <= r /\ r < Bucket /\ a = q * Bucket + r
    BY <1>1, <1>2
  <2> HIDE DEF q, r
  <2>2. r = (k - q) * Bucket
    BY <1>1, <1>4, <2>1
  <2>3. (k - q > 0 => (k - q) * Bucket >= Bucket) /\ (k - q < 0 => (k - q) * Bucket < 0)
    BY <1>1, <2>1
  <2>4. k - q = 0
    BY <1>1, <2>1, <2>2, <2>3
  <2>5. r = 0
    BY <1>1, <2>1, <2>2, <2>4
  <2> QED BY <2>5 DEF r
<1> QED BY <1>3, <1>4 DEF Multiple

LEMMA MultipleSum ==
    ASSUME NEW a \in Int, NEW b \in Int, Multiple(a), Multiple(b)
    PROVE  Multiple(a + b)
<1>1. PICK k \in Int, l \in Int : a = k * Bucket /\ b = l * Bucket
  BY DEF Multiple
<1>2. Bucket \in Nat \ {0}
  BY UnitsAssumption
<1>3. a + b = (k + l) * Bucket /\ k + l \in Int
  BY <1>1, <1>2
<1> QED BY <1>3 DEF Multiple

(* Two multiples less than a bucket apart are not in the other order.      *)
LEMMA MultiplesApart ==
    ASSUME NEW a \in Int, NEW b \in Int, Multiple(a), Multiple(b), a < b + Bucket
    PROVE  a <= b
<1>1. PICK k \in Int, l \in Int : a = k * Bucket /\ b = l * Bucket
  BY DEF Multiple
<1>2. Bucket \in Nat \ {0}
  BY UnitsAssumption
<1>3. (k - l) * Bucket = a - b
  BY <1>1, <1>2
<1>4. k - l > 0 => (k - l) * Bucket >= Bucket
  BY <1>1, <1>2
<1>5. k - l <= 0
  BY <1>1, <1>2, <1>3, <1>4
<1>6. (k - l) * Bucket <= 0
  BY <1>1, <1>2, <1>5
<1> QED BY <1>3, <1>6

(* While the loop runs its cursor is at the boundary of a bucket, and      *)
(* every bucket before the cursor is wholly inside one of the ranges.      *)
Boundaries == Multiple(start) /\ Multiple(end) /\ Multiple(width)

Refreshed(b) == \E i \in 1..Len(result) : result[i].from <= b /\ b + Bucket <= result[i].to

BucketsSoFar ==
    ExactAdd /\ ValidCall /\ Boundaries =>
        /\ Multiple(cursor) /\ start <= cursor
        /\ \A b \in Times : Multiple(b) /\ start <= b /\ b + Bucket <= cursor => Refreshed(b)

LEMMA BucketsInit == Init => BucketsSoFar
<1> SUFFICES ASSUME Init, Boundaries PROVE BucketsSoFar
  BY DEF BucketsSoFar
<1>1. Bucket \in Nat \ {0} /\ Times \subseteq Int /\ start \in Times /\ cursor = start
  BY UnitsAssumption, TimesAssumption DEF Init
<1> QED BY <1>1 DEF BucketsSoFar, Boundaries

LEMMA BucketsNext == PlanInv /\ BucketsSoFar /\ [Next]_vars => BucketsSoFar'
<1> SUFFICES ASSUME PlanInv, BucketsSoFar, [Next]_vars, ExactAdd', ValidCall', Boundaries'
             PROVE  BucketsSoFar'
  BY DEF BucketsSoFar
<1>1. UNCHANGED <<start, end, width, maxBatches>>
  BY DEF Next, Validate, Refuse, Extend, Finish, vars
<1>2. /\ ExactAdd /\ ValidCall /\ Boundaries /\ Multiple(cursor) /\ start <= cursor
      /\ \A b \in Times : Multiple(b) /\ start <= b /\ b + Bucket <= cursor => Refreshed(b)
  BY <1>1 DEF ExactAdd, ValidCall, ValidWidth, Boundaries, Multiple, BucketsSoFar
<1>3. CASE Extend
  <2>1. /\ cursor \in Times /\ cursor \in Int /\ end \in Times /\ end \in Int
        /\ width \in Durations /\ width \in Int /\ 0 < width /\ start \in Int
        /\ cursor < end /\ result \in Seq(TimeRange) /\ Len(result) \in Nat
        /\ Times \subseteq Int /\ Bucket \in Nat \ {0}
    BY <1>2, <1>3, TimesAssumption, UnitsAssumption DEF PlanInv, TypeOK, Extend, ValidCall, ValidWidth
  <2>2. BatchEnd \in Times /\ cursor <= BatchEnd /\ BatchEnd <= end
    BY <2>1, BatchEndBounds
  <2>3. Multiple(BatchEnd)
    <3>1. BatchEnd \in {end, Plus(cursor, width)}
      BY DEF BatchEnd
    <3>2. Plus(cursor, width) = cursor + width
      BY <1>2, <2>1 DEF ExactAdd
    <3>3. Multiple(cursor + width) /\ Multiple(end)
      BY <1>2, <2>1, MultipleSum DEF Boundaries
    <3> QED BY <3>1, <3>2, <3>3
  <2> DEFINE x == [from |-> cursor, to |-> BatchEnd]
  <2>4. /\ x \in TimeRange /\ x.from = cursor /\ x.to = BatchEnd
        /\ result' = Append(result, x) /\ cursor' = BatchEnd
    BY <1>3, <2>1, <2>2 DEF Extend
  <2> HIDE DEF x
  <2>5. /\ Len(result') = Len(result) + 1
        /\ \A i \in 1..Len(result) : i \in 1..Len(result') /\ result'[i] = result[i]
        /\ Len(result') \in 1..Len(result') /\ result'[Len(result')] = x
    BY <2>1, <2>4
  <2>6. ASSUME NEW b \in Times, Multiple(b), start <= b, b + Bucket <= BatchEnd
        PROVE  Refreshed(b)'
    <3>1. CASE b + Bucket <= cursor
      BY <1>2, <2>5, <2>6, <3>1 DEF Refreshed
    <3>2. CASE b + Bucket > cursor
      <4>1. cursor <= b
        BY <1>2, <2>1, <2>6, <3>2, MultiplesApart
      <4> QED BY <2>4, <2>5, <2>6, <4>1 DEF Refreshed
    <3> QED BY <2>1, <3>1, <3>2
  <2>7. Multiple(cursor') /\ start <= cursor'
    BY <1>2, <2>1, <2>2, <2>3, <2>4
  <2> QED BY <1>1, <2>4, <2>6, <2>7 DEF BucketsSoFar, Multiple
<1>4. CASE UNCHANGED <<cursor, result>>
  BY <1>1, <1>2, <1>4 DEF BucketsSoFar, Refreshed, Multiple
<1> QED BY <1>3, <1>4 DEF Next, Validate, Refuse, Finish, vars

(* With boundaries and width that are multiples of the bucket, as the      *)
(* comment of PlanRefreshBatches asks, every bucket of the range is wholly *)
(* inside one range of the plan, so TimescaleDB refreshes it.              *)
THEOREM BucketsAreRefreshed == Spec => []BucketsRefreshed
<1>1. Init => BucketsSoFar
  BY BucketsInit
<1>2. PlanInv /\ BucketsSoFar /\ [Next]_vars => BucketsSoFar'
  BY BucketsNext
<1>3. PlanInv /\ BucketsSoFar => BucketsRefreshed
  <2> SUFFICES ASSUME PlanInv, BucketsSoFar, pc = "planned", ExactAdd,
                      start % Bucket = 0, end % Bucket = 0, width % Bucket = 0,
                      NEW b \in Times, b % Bucket = 0, start <= b, b + Bucket <= end
               PROVE  Refreshed(b)
    BY DEF BucketsRefreshed, Refreshed
  <2>1. start \in Int /\ end \in Int /\ width \in Int /\ b \in Int
    BY TimesAssumption DEF PlanInv, TypeOK
  <2>2. Boundaries /\ Multiple(b)
    BY <2>1, MultipleMod DEF Boundaries
  <2> QED BY <2>2 DEF PlanInv, BucketsSoFar
<1> QED BY <1>1, <1>2, <1>3, PlanIsBounded, PTL DEF Spec
=============================================================================
