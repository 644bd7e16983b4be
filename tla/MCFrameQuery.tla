---------------------------- MODULE MCFrameQuery ----------------------------
(* A small instance of FrameQuery: calls that are valid alone and in       *)
(* conflict together, and a few that are never valid.                      *)
EXTENDS FrameQuery

Plain == As(Sum("v"), "s")

SomeMeasures ==
    {Plain, As(Count(<<>>), "n"), LOCF(Plain, TRUE), Interpolate(LOCF(Plain, TRUE)),
     NextLookup(Interpolate(As(First("v", "t"), "a")), "e"), PreviousLookup(Plain, "e")}

SomePredicates ==
    {Compare("v", "<", 2), In("v", <<>>), In("v", <<1, 2>>), NotIn("v", <<2>>)}

SomeSelects ==
    {[blank |-> FALSE, gapfill |-> FALSE], [blank |-> FALSE, gapfill |-> TRUE],
     [blank |-> TRUE, gapfill |-> FALSE]}

SomeWidths == {FixedInterval(4), FixedInterval(3)}
SomeOffsets == {FixedInterval(-2), CalendarMonths(1)}
SomeRanges == {<<2, 8>>, <<4, 4>>, <<3, 9>>}
=============================================================================
