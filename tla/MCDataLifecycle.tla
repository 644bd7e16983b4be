-------------------------- MODULE MCDataLifecycle --------------------------
(***************************************************************************)
(* Lifecycles for TLC: accepted and refused ones, with and without an      *)
(* aggregate, in fixed intervals and in months of four and six units, and  *)
(* plans at the limit of a Duration (31).                                  *)
(***************************************************************************)
EXTENDS DataLifecycle

Months(n) == [kind |-> "months", n |-> n]

Aggregate(bucket, late, schedule, after, retention, backfill) ==
    [aggregate |-> TRUE, bucket |-> bucket, schedule |-> schedule, late |-> late,
     columnstore |-> after, retention |-> retention, backfill |-> backfill]

Raw(late, after, retention) ==
    [Aggregate(4, late, 0, after, retention, Open) EXCEPT !.aggregate = FALSE]

F(n) == FixedInterval(n)

MCCalendarBack(t, n) ==
    LET start(m) == 10 * (m \div 2) + 4 * (m % 2)
        month == 2 * (t \div 10) + (IF t % 10 >= 4 THEN 1 ELSE 0)
        width == start(month - n + 1) - start(month - n)
        day == t - start(month)
    IN start(month - n) + (IF day < width THEN day ELSE width - 1)

MCConfigs ==
    {Aggregate(4, F(8), s, F(10), F(r), b) : s \in {0, 2}, r \in {10, 12, 16}, b \in {Open, F(16)}}
    \cup {Aggregate(4, F(4), s, F(6), F(r), F(8)) : s \in {0, 2}, r \in {8, 14}}
    \cup {Aggregate(4, F(8), 4, Open, F(r), F(14)) : r \in {10, 12, 14}}
    \cup {Aggregate(4, Open, 8, F(6), F(8), Open), Aggregate(4, Months(1), 0, Open, Open, Open)}
    \cup {Aggregate(b, F(l), s, Open, Open, Open) :
            b \in {-2, 0, 7, 14, 16}, l \in {-2, 2, 15, 16, 18, 28}, s \in {-2, 0, 1, 4}}
    \cup {Raw(F(4), F(c), F(r)) : c \in {2, 4, 6}, r \in {2, 4, 6, 10}}
    \cup {Raw(Months(1), Months(c), Months(r)) : c \in {1, 2}, r \in {1, 2, 3}}
    \cup {Raw(F(4), Months(1), F(10)), Raw(Open, F(4), F(6))}

(* The instance meets the premise under which RevisitedWhenAligned is      *)
(* proved.                                                                 *)
ASSUME FirstRunIsPrompt == PromptStart

=============================================================================
