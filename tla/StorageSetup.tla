---------------------------- MODULE StorageSetup ----------------------------
(***************************************************************************)
(* Hypertables, columnstore settings and continuous aggregates             *)
(* (src/timescaledb/hypertable.go, columnstore.go, continuous_aggregate.go)*)
(* as deployments use them: every service sets up the storage when it      *)
(* starts, all with the same sequence of calls, and repeats a call that    *)
(* returns an error.  Apply sends its statements as one string, which the  *)
(* server runs in one transaction.                                         *)
(*                                                                         *)
(* TimescaleDB is external: After is what it makes of a statement.         *)
(***************************************************************************)
EXTENDS Intervals, Sequences, Functions

CONSTANTS
    Services,
    Plans,          \* sequences of calls
    Default,        \* the chunk interval of TimescaleDB
    Refused         \* the server's error

-----------------------------------------------------------------------------
(* Calls, as the builders collect their options.                           *)

NewColumnstoreSettings == [segmentBy |-> <<>>, orderBy |-> <<>>]
SegmentBy(settings, columns) == [settings EXCEPT !.segmentBy = columns]
OrderBy(settings, columns) == [settings EXCEPT !.orderBy = columns]

NewCall(op) ==
    [op |-> op, ifNotExists |-> FALSE, interval |-> Open, hash |-> FALSE, partitions |-> 0,
     columnstore |-> FALSE, settings |-> NewColumnstoreSettings, migrate |-> FALSE,
     realTime |-> FALSE]

Columnstore(c, settings) == [c EXCEPT !.columnstore = TRUE, !.settings = settings]

NewHypertable == NewCall("hypertable")
NewHypertableTable == NewCall("table")
NewContinuousAggregate == NewCall("aggregate")
SetChunkInterval(i) == [NewCall("interval") EXCEPT !.interval = i]
DisableHypertableColumnstore == NewCall("columnstore")
EnableHypertableColumnstore(settings) == Columnstore(DisableHypertableColumnstore, settings)
DisableContinuousAggregateColumnstore == NewCall("aggregateColumnstore")
EnableContinuousAggregateColumnstore(settings) ==
    Columnstore(DisableContinuousAggregateColumnstore, settings)
SetRealTime(enabled) == [NewCall("realTime") EXCEPT !.realTime = enabled]
DropAggregate(ifExists) == [NewCall("drop") EXCEPT !.ifNotExists = ifExists]

IfNotExists(c) == [c EXCEPT !.ifNotExists = TRUE]
ChunkInterval(c, i) == [c EXCEPT !.interval = i]
HashDimension(c, column, n) == [c EXCEPT !.hash = (column # ""), !.partitions = n]
MigrateExistingData(c) == [c EXCEPT !.migrate = TRUE]
RealTime(c) == [c EXCEPT !.realTime = TRUE]

Tables == {"hypertable", "table"}

CallType ==
    [op : Tables \cup {"interval", "columnstore", "aggregate", "drop", "aggregateColumnstore",
                       "realTime"},
     ifNotExists : BOOLEAN, interval : Interval, hash : BOOLEAN, partitions : Int,
     columnstore : BOOLEAN, settings : [segmentBy : Seq(STRING), orderBy : Seq(STRING)],
     migrate : BOOLEAN, realTime : BOOLEAN]

ASSUME PlansAssumption == Plans \subseteq Seq(CallType) /\ Services # {}

(* ColumnstoreSettings.validate: columns, each named once in its list.     *)
ValidSettings(settings) ==
    \A columns \in {settings.segmentBy, settings.orderBy} :
        "" \notin Range(columns) /\ IsInjective(columns)

(* validateHypertableOptions, SetChunkIntervalSQL, buildSetColumnstoreSQL. *)
Valid(c) ==
    /\ c.op \in Tables => IsOpenEnded(c.interval) \/ Validate(c.interval)
    /\ c.op = "interval" => Validate(c.interval)
    /\ IF c.hash THEN c.partitions > 0 ELSE c.partitions = 0
    /\ ValidSettings(c.settings)
    /\ c.op = "table" => ~c.migrate

(* requireCapability, before anything is sent.                             *)
Capabilities(c) ==
    (IF c.op = "table" THEN {"modern hypertable CREATE TABLE"} ELSE {})
    \cup (IF \/ c.op = "hypertable" /\ c.columnstore
             \/ c.op \in {"columnstore", "aggregateColumnstore"}
          THEN {"columnstore"} ELSE {})

Create(c) ==
    [do |-> c.op, lenient |-> c.ifNotExists, interval |-> c.interval, migrate |-> c.migrate,
     columnstore |-> c.columnstore, realTime |-> c.realTime]

(* Mutant: if_not_exists is not passed on to the second dimension.         *)
AddDimensionStrict(c) == [Create(c) EXCEPT !.do = "dimension", !.lenient = FALSE]

AddDimension(c) == [Create(c) EXCEPT !.do = "dimension"]

EnableColumnstore(c) == [Create(c) EXCEPT !.do = "columnstore"]

-----------------------------------------------------------------------------
(* The server.                                                             *)

NoTable == [kind |-> "none", interval |-> Open, hash |-> FALSE, columnstore |-> FALSE]
PlainTable == [kind |-> "plain", interval |-> Open, hash |-> FALSE, columnstore |-> FALSE]
NoView == [kind |-> "none", realTime |-> FALSE, columnstore |-> FALSE]

StorageType ==
    [table : [kind : {"none", "plain", "hyper"}, interval : Interval \cup {Default},
              hash : BOOLEAN, columnstore : BOOLEAN],
     view : [kind : {"none", "aggregate"}, realTime : BOOLEAN, columnstore : BOOLEAN],
     data : BOOLEAN]

ASSUME RefusedAssumption == Refused \notin StorageType

NewTable(st, columnstore) ==
    [kind |-> "hyper", hash |-> FALSE, columnstore |-> columnstore,
     interval |-> IF IsOpenEnded(st.interval) THEN Default ELSE st.interval]

IsHypertable(s) == s.table.kind = "hyper"
IsAggregate(s) == s.view.kind = "aggregate"

(* What a statement may do to the storage; where none applies it fails.    *)
(* The modern CREATE TABLE enables the columnstore, asked for or not.      *)
Unchanged(s, st) ==
    st.lenient /\
        CASE st.do = "hypertable" -> IsHypertable(s)
          [] st.do = "table" -> s.table.kind # "none"
          [] st.do = "dimension" -> IsHypertable(s) /\ s.table.hash
          [] st.do = "aggregate" -> IsAggregate(s)
          [] st.do = "drop" -> ~IsAggregate(s)
          [] OTHER -> FALSE

Possible(s, st) ==
    CASE st.do = "hypertable" -> s.table.kind = "plain" /\ (s.data => st.migrate)
      [] st.do = "table" -> s.table.kind = "none"
      [] st.do = "dimension" -> IsHypertable(s) /\ ~s.table.hash
      [] st.do \in {"columnstore", "interval"} -> IsHypertable(s)
      [] st.do = "aggregate" -> IsHypertable(s) /\ ~IsAggregate(s)
      [] st.do \in {"drop", "aggregateColumnstore", "realTime"} -> IsAggregate(s)

Effect(s, st) ==
    CASE st.do = "hypertable" -> [s EXCEPT !.table = NewTable(st, FALSE)]
      [] st.do = "table" -> [s EXCEPT !.table = NewTable(st, TRUE)]
      [] st.do = "dimension" -> [s EXCEPT !.table.hash = TRUE]
      [] st.do = "columnstore" -> [s EXCEPT !.table.columnstore = st.columnstore]
      [] st.do = "interval" -> [s EXCEPT !.table.interval = st.interval]
      [] st.do = "aggregate" ->
            [s EXCEPT !.view = [kind |-> "aggregate", realTime |-> st.realTime, columnstore |-> FALSE]]
      [] st.do = "drop" -> [s EXCEPT !.view = NoView]
      [] st.do = "aggregateColumnstore" -> [s EXCEPT !.view.columnstore = st.columnstore]
      [] st.do = "realTime" -> [s EXCEPT !.view.realTime = st.realTime]

After(s, st) ==
    IF s = Refused THEN Refused
    ELSE IF Unchanged(s, st) THEN s
    ELSE IF Possible(s, st) THEN Effect(s, st) ELSE Refused

(* BuildSQL and its siblings: what the statements of a call have done, each*)
(* after the ones before it.                                               *)
Stages(s, c) ==
    LET created == After(s, Create(c))
        dimensioned == IF c.hash THEN After(created, AddDimension(c)) ELSE created
        converted == IF c.op = "hypertable" /\ c.columnstore
                     THEN After(dimensioned, EnableColumnstore(c)) ELSE dimensioned
    IN <<created, dimensioned, converted>>

(* The string of statements is one transaction.                            *)
Run(s, c) == Stages(s, c)[3]

-----------------------------------------------------------------------------
VARIABLES
    plan, features,     \* of this deployment and its server
    storage,
    next,               \* the call each service is at
    checked             \* its checks have passed, its statements are next

setupVars == <<plan, features, storage, next, checked>>

Creates(p) == \E i \in DOMAIN p : p[i].op = "table"

(* The application has made the table unless the plan does.                *)
SetupInit ==
    /\ plan \in Plans
    /\ features \in SUBSET {"modern hypertable CREATE TABLE", "columnstore"}
    /\ storage = [table |-> IF Creates(plan) THEN NoTable ELSE PlainTable,
                  view |-> NoView, data |-> FALSE]
    /\ next = [s \in Services |-> 1]
    /\ checked = [s \in Services |-> FALSE]

Done(s) == next[s] > Len(plan)
Call(s) == plan[next[s]]

(* Validation, requireCapability, and for SetChunkInterval IsHypertable; a *)
(* call that fails them returns its error and has sent nothing.            *)
Check(s) ==
    /\ ~Done(s) /\ ~checked[s]
    /\ Valid(Call(s))
    /\ Capabilities(Call(s)) \subseteq features
    /\ Call(s).op = "interval" => IsHypertable(storage)
    /\ checked' = [checked EXCEPT ![s] = TRUE]
    /\ UNCHANGED <<plan, features, storage, next>>

Outcome(s) == Run(storage, Call(s))

Returns(s) == checked' = [checked EXCEPT ![s] = FALSE] /\ UNCHANGED <<plan, features>>

(* The transaction commits; the service goes on.                           *)
Exec(s) ==
    /\ checked[s]
    /\ Outcome(s) # Refused
    /\ storage' = Outcome(s)
    /\ next' = [next EXCEPT ![s] = @ + 1]
    /\ Returns(s)

(* Mutant: the statements are sent one by one, so some take effect.        *)
FailsHalfway(s) ==
    /\ checked[s]
    /\ storage' \in ({storage} \cup {Stages(storage, Call(s))[n] : n \in 1..3}) \ {Refused}
    /\ UNCHANGED next
    /\ Returns(s)

(* The server refuses a statement, two services create the same at once,   *)
(* the context ends, the service restarts; or COMMIT was answered and the  *)
(* answer is lost.  The service calls again.                               *)
Fails(s) ==
    /\ checked[s]
    /\ storage' \in {storage, Outcome(s)} \ {Refused}
    /\ UNCHANGED next
    /\ Returns(s)

(* The application writes.                                                 *)
InsertRow ==
    /\ storage.table.kind # "none" /\ ~storage.data
    /\ storage' = [storage EXCEPT !.data = TRUE]
    /\ UNCHANGED <<plan, features, next, checked>>

SetupNext ==
    \/ \E s \in Services : Check(s) \/ Exec(s) \/ Fails(s)
    \/ InsertRow

SetupSpec == SetupInit /\ [][SetupNext]_setupVars

(* A service repeats its call, and not every attempt is hit by a failure.  *)
FairSpec == SetupSpec /\ \A s \in Services : WF_setupVars(Check(s)) /\ SF_setupVars(Exec(s))

-----------------------------------------------------------------------------
(* No call after the k-th is one of ops.                                   *)
LastOf(k, ops) == \A j \in DOMAIN plan : plan[j].op \in ops => j <= k

(* No conversion is seen half done, whatever fails in it: a hypertable has *)
(* the second dimension and, unless a call of its own sets it, the         *)
(* columnstore it was to be created with, which a modern table always is.  *)
WholeConversion ==
    IsHypertable(storage) =>
        /\ (\A i \in DOMAIN plan : plan[i].op \in Tables => plan[i].hash) => storage.table.hash
        /\ (\A i \in DOMAIN plan :
               /\ plan[i].op # "columnstore"
               /\ plan[i].op = "hypertable" => plan[i].columnstore)
           => storage.table.columnstore

(* What any service has got behind it is there.                            *)
Made(k) ==
    /\ plan[k].op \in Tables \cup {"interval", "columnstore"} => IsHypertable(storage)
    /\ plan[k].op \in Tables /\ plan[k].hash => storage.table.hash

(* A call that all services have behind them has the last word, unless a   *)
(* later one may change the same: however often the others, which are each *)
(* at a call of their own, have repeated what came before it.              *)
Decided(k) ==
    LET c == plan[k]
    IN /\ c.op = "interval" /\ LastOf(k, Tables \cup {"interval"}) =>
             storage.table.interval = c.interval
       /\ c.op = "columnstore" /\ LastOf(k, Tables \cup {"columnstore"}) =>
             storage.table.columnstore = c.columnstore
       /\ c.op \in {"aggregate", "drop"} /\ LastOf(k, {"aggregate", "drop"}) =>
             (IsAggregate(storage) <=> c.op = "aggregate")
       /\ c.op = "realTime" /\ LastOf(k, {"aggregate", "drop", "realTime"}) =>
             storage.view.realTime = c.realTime
       /\ c.op = "aggregateColumnstore"
          /\ LastOf(k, {"aggregate", "drop", "aggregateColumnstore"}) =>
             storage.view.columnstore = c.columnstore

(* With every service at its own call of the plan, with its own share of   *)
(* failures, lost answers and repetitions, the storage is as the plan has  *)
(* it, in parts while they are under way and in the end as a whole.        *)
AsPlanned ==
    /\ WholeConversion
    /\ \A k \in DOMAIN plan :
          /\ (\E s \in Services : next[s] > k) => Made(k)
          /\ (\A s \in Services : next[s] > k) => Decided(k)

(* A plan whose calls are valid and lenient, converts data that may be     *)
(* there, and needs nothing the server does not have.                      *)
Repeatable ==
    \A i \in DOMAIN plan :
        /\ Valid(plan[i]) /\ Capabilities(plan[i]) \subseteq features
        /\ plan[i].op \in Tables \cup {"aggregate", "drop"} => plan[i].ifNotExists
        /\ plan[i].op = "hypertable" => plan[i].migrate

(* Then every service gets through, though all create the same at once and *)
(* calls are repeated that had taken effect.                               *)
SetupEnds == Repeatable => \A s \in Services : <>Done(s)
=============================================================================
