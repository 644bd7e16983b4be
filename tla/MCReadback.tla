----------------------------- MODULE MCReadback -----------------------------
(***************************************************************************)
(* A small instance of PolicyReadback: durations of 6 bits, microseconds   *)
(* of two nanoseconds, days of five microseconds.                          *)
(***************************************************************************)
EXTENDS PolicyReadback

Fixed(d) == FixedInterval(d)

Plain ==
    [start |-> Fixed(20), end |-> Fixed(10), schedule |-> Fixed(10),
     initial |-> NoTime, timezone |-> NoZone, tiered |-> NoBool,
     buckets |-> 0, max |-> 0, newest |-> TRUE, incomplete |-> FALSE]

Durations == {Open} \cup {Fixed(d) : d \in {-2, 5, 8, 30}} \cup {CalendarMonths(m) : m \in {-1, 2}}

SomeWishes ==
    {[Plain EXCEPT !.start = s, !.end = e, !.incomplete = b] :
        s \in Durations, e \in {Open, Fixed(5), Fixed(8), CalendarMonths(1)}, b \in BOOLEAN}
    \cup {[Plain EXCEPT !.schedule = s] : s \in Durations}
    \cup {[Plain EXCEPT !.initial = t, !.timezone = z] :
             t \in {-3, 4, 5}, z \in {NoZone, "UTC", "Local"}}
    \cup {[Plain EXCEPT !.buckets = n, !.max = m] : n \in {-1, 0, 4}, m \in {-1, 0, 10}}
    \cup {[Plain EXCEPT !.newest = b, !.tiered = t] : b \in BOOLEAN, t \in {NoBool, TRUE, FALSE}}

PG(m, d, u) == [months |-> m, days |-> d, micros |-> u]

Console ==
    [start |-> PG(0, 2, 0), end |-> PG(0, 1, 0), schedule |-> PG(0, 1, 0),
     initial |-> NoTime, timezone |-> NoZone, tiered |-> NoBool,
     buckets |-> Absent, max |-> Absent, newest |-> Absent]

Strange ==
    {PG(0, d, u) : d \in {-13, -7, -1, 0, 3, 6, 13}, u \in {-32, -16, 0, 1, 16, 31}}
    \cup {PG(m, d, u) : m \in {-1, 2}, d \in {0, 1}, u \in {0, 1}}

SomeJobs ==
    {Console, [Console EXCEPT !.end = Null], [Console EXCEPT !.timezone = "Local", !.max = 0]}
    \cup {[Console EXCEPT !.start = v] : v \in Strange}
    \cup {[Console EXCEPT !.schedule = PG(1, 1, 0)], [Console EXCEPT !.end = PG(0, 0, 31)]}
=============================================================================
