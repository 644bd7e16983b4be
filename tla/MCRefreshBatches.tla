-------------------------- MODULE MCRefreshBatches --------------------------
(***************************************************************************)
(* RefreshBatches over a small clock, kept as time.Time keeps it: whole    *)
(* seconds, which saturate, and ticks within the second, which carry.      *)
(***************************************************************************)
EXTENDS RefreshBatches

CONSTANTS TicksPerSecond, LastSecond

ClockTimes == 0..(LastSecond * TicksPerSecond + TicksPerSecond - 1)

ClockPlus(t, d) ==
    LET ticks == (t % TicksPerSecond) + (d % TicksPerSecond)
        second == (t \div TicksPerSecond) + (d \div TicksPerSecond) + (ticks \div TicksPerSecond)
    IN (IF second > LastSecond THEN LastSecond ELSE second) * TicksPerSecond
       + (ticks % TicksPerSecond)

SomeDurations == {-2, 0, 1, 2, 4, 6}
SomeLimits == {-1, 0, 1, 2, 3, 6}
=============================================================================
