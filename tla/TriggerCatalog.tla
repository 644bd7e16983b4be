--------------------------- MODULE TriggerCatalog ---------------------------
(***************************************************************************)
(* Notifications as triggers (src/notification/notification.go, sql.go).   *)
(* Apply sends CREATE OR REPLACE FUNCTION, DROP TRIGGER IF EXISTS and      *)
(* CREATE TRIGGER as one string, and the SQL of DropSQL is DROP TRIGGER    *)
(* IF EXISTS and DROP FUNCTION IF EXISTS.  The server runs such a string   *)
(* in one transaction, statement by statement.  Processes apply and drop   *)
(* notifications while the application changes rows.                       *)
(*                                                                         *)
(* External: the catalog, its locks, when a trigger fires and what         *)
(* pg_notify accepts.  Names are sequences of characters of a small        *)
(* alphabet, because the code derives names from names.                    *)
(***************************************************************************)
EXTENDS Integers, Sequences, SequencesExt

CONSTANTS
    Procs,
    MayCall,        \* the calls each process makes
    Notifs,         \* records [table, eventName, operations, rowID, props]
    Letters, Digits,
    OtherLetters,   \* letters in no name the code derives, for example accented
    Relations,
    RelationOf,     \* the relation a table name stands for (search_path)
    Changes,        \* records [table, op, old, new]
    BigRows,        \* rows whose JSON is longer than a message may be
    NoRow, NoChange, NoFunction, NoTrigger, NoCall,
    NameLimit,      \* characters of an identifier: the server cuts the rest
    ChannelLimit    \* characters of a channel name

Insert == "INSERT"
Update == "UPDATE"
Delete == "DELETE"

FromState == "fromState"
ToState == "toState"
TableName == "tableName"
RowID == "rowId"
CreatedAt == "createdAt"

Call == [op : {"apply", "drop"}, n : Notifs]

ASSUME CallsAssumption == MayCall \in [Procs -> SUBSET Call] /\ NoCall \notin Call
ASSUME ChangesAssumption ==
    \A c \in Changes :
        /\ c.table \in Relations
        /\ \/ c.op = Insert /\ c.old = NoRow /\ c.new # NoRow
           \/ c.op = Update /\ c.old # NoRow /\ c.new # NoRow
           \/ c.op = Delete /\ c.old # NoRow /\ c.new = NoRow

-----------------------------------------------------------------------------
(* Validation and names: pure functions of a notification.                 *)

(* unicode.IsLetter, or an underscore.                                     *)
IsStart(r) == r \in Letters \cup OtherLetters \cup {"_"}

IsIdentifier(s) ==
    /\ s # <<>>
    /\ \A i \in 1..Len(s) : IsStart(s[i]) \/ (i > 1 /\ s[i] \in Digits)

(* Parts between dots, each of them an identifier.                         *)
IsQualified(s) ==
    /\ s # <<>>
    /\ \A i \in 1..Len(s) :
          \/ IsStart(s[i])
          \/ s[i] \in Digits /\ i > 1 /\ s[i - 1] # "."
          \/ s[i] = "." /\ i > 1 /\ i < Len(s) /\ s[i - 1] # "."

(* BuildSQL returns no error.                                              *)
Builds(n) ==
    /\ IsQualified(n.table)
    /\ n.eventName # <<>>
    /\ IsIdentifier(n.rowID)
    /\ n.operations # <<>>
    /\ \A i \in 1..Len(n.operations) : n.operations[i] \in {Insert, Update, Delete}
    /\ n.props \subseteq {FromState, ToState, TableName, RowID, CreatedAt}

DropBuilds(n) == IsQualified(n.table)

(* The server parses the string before it runs any of it, and "INSERT OR   *)
(* INSERT", which builds, is an error of its grammar.                      *)
Parses(n) == IsInjective(n.operations)

(* Other letters are dropped, so names with them may clash.                *)
sanitizeName(value) ==
    LET dotless == [i \in 1..Len(value) |-> IF value[i] = "." THEN "_" ELSE value[i]]
        kept == SelectSeq(dotless, LAMBDA r : r \in Letters \cup Digits \cup {"_"})
    IN IF kept = <<>> THEN <<"event">> ELSE kept

(* The server cuts an identifier at its limit.                             *)
Identifier(s) == SubSeq(s, 1, IF Len(s) < NameLimit THEN Len(s) ELSE NameLimit)

(* The common prefix pgxext_notify_ is left out.                           *)
FullName(n) == sanitizeName(n.table) \o <<"_">> \o sanitizeName(n.eventName)

triggerFunctionName == [n \in Notifs |-> Identifier(FullName(n))]

triggerName == [n \in Notifs |-> Identifier(FullName(n) \o <<"_trg">>)]

(* A trigger belongs to its table.                                         *)
TriggerKey == [n \in Notifs |-> <<RelationOf[n.table], triggerName[n]>>]

Names == {triggerFunctionName[n] : n \in Notifs}
Keys == {TriggerKey[n] : n \in Notifs}

FunctionOf == [n \in Notifs |-> [event |-> n.eventName, props |-> n.props, rowID |-> n.rowID]]

Operations(n) == {n.operations[i] : i \in 1..Len(n.operations)}

TriggerOf == [n \in Notifs |-> [ops |-> Operations(n), function |-> triggerFunctionName[n]]]

ASSUME NothingsAssumption ==
    \A n \in Notifs : FunctionOf[n] # NoFunction /\ TriggerOf[n] # NoTrigger

-----------------------------------------------------------------------------
VARIABLES
    functions,      \* the trigger functions in the catalog, by name
    triggers,       \* the triggers in the catalog, by relation and name
    pc, call,       \* the statement of each process and the call it belongs to
    owns,           \* what the open transaction of each process has locked
    installed,      \* history: what the application can count on
    everInstalled,  \* history
    announced       \* history: the last change of a row since the last commit

catalogVars == <<functions, triggers>>
historyVars == <<installed, everInstalled, announced>>
vars == <<functions, triggers, pc, call, owns, installed, everInstalled, announced>>

FunctionLock(n) == <<"function", triggerFunctionName[n]>>
TableLock(n) == <<"table", RelationOf[n.table]>>
Locks == {FunctionLock(n) : n \in Notifs} \cup {TableLock(n) : n \in Notifs}

Target(p) == call[p].n

Free(p, lock) == \A q \in Procs \ {p} : lock \notin owns[q]

(* The lock the current statement of p needs.                              *)
Wants(p) ==
    CASE pc[p] = "table" -> {TableLock(Target(p))}
      [] pc[p] = "blocked" -> {FunctionLock(Target(p))}
      [] OTHER -> {}

WaitsFor(p) == {q \in Procs \ {p} : Wants(p) \cap owns[q] # {}}

(* p is on a cycle of waits.                                               *)
Deadlocked(p) ==
    \E S \in SUBSET Procs :
        /\ p \in S
        /\ \A q \in S : WaitsFor(q) \cap S # {}
        /\ \A q \in S : \E r \in S : q \in WaitsFor(r)

(* Somebody else's trigger executes the function.                          *)
HasDependents(n) ==
    \E k \in Keys \ {TriggerKey[n]} :
        triggers[k] # NoTrigger /\ triggers[k].function = triggerFunctionName[n]

Goto(p, l) == pc' = [pc EXCEPT ![p] = l]

Lock(p, lock) == owns' = [owns EXCEPT ![p] = @ \cup {lock}]

-----------------------------------------------------------------------------
Silence == [change |-> NoChange, refused |-> FALSE, messages |-> {}]

Init ==
    /\ functions = [f \in Names |-> NoFunction]
    /\ triggers = [k \in Keys |-> NoTrigger]
    /\ pc = [p \in Procs |-> "idle"]
    /\ call = [p \in Procs |-> NoCall]
    /\ owns = [p \in Procs |-> {}]
    /\ installed = {}
    /\ everInstalled = {}
    /\ announced = Silence

(* BuildSQL or DropSQL, and the string is sent; a call whose SQL does not  *)
(* build or parse returns its error at once, and nothing has run.          *)
Start(p, c) ==
    /\ pc[p] = "idle"
    /\ c \in MayCall[p]
    /\ IF c.op = "apply" THEN Builds(c.n) /\ Parses(c.n) ELSE DropBuilds(c.n)
    /\ call' = [call EXCEPT ![p] = c]
    /\ Goto(p, IF c.op = "apply" THEN "function" ELSE "table")
    /\ UNCHANGED <<catalogVars, owns, historyVars>>

(* CREATE OR REPLACE FUNCTION.                                             *)
CreateFunction(p) ==
    /\ pc[p] \in {"function", "blocked"}
    /\ call[p].op = "apply"
    /\ Free(p, FunctionLock(Target(p)))
    /\ Lock(p, FunctionLock(Target(p)))
    /\ Goto(p, "table")
    /\ UNCHANGED <<catalogVars, call, historyVars>>

(* Another transaction has written the function and not yet ended.         *)
AwaitFunction(p) ==
    /\ pc[p] \in {"function", "unfunction"}
    /\ ~Free(p, FunctionLock(Target(p)))
    /\ pc[p] = "unfunction" =>
          functions[triggerFunctionName[Target(p)]] # NoFunction /\ ~HasDependents(Target(p))
    /\ Goto(p, "blocked")
    /\ UNCHANGED <<catalogVars, call, owns, historyVars>>

(* Mutant: the statements are sent one by one, so this one takes effect.   *)
DropTriggerAtOnce(p) ==
    /\ pc[p] = "table"
    /\ Free(p, TableLock(Target(p)))
    /\ triggers' = [triggers EXCEPT ![TriggerKey[Target(p)]] = NoTrigger]
    /\ Goto(p, IF call[p].op = "apply" THEN "trigger" ELSE "unfunction")
    /\ UNCHANGED <<functions, call, owns, historyVars>>

(* DROP TRIGGER IF EXISTS locks the table against everybody.               *)
DropTrigger(p) ==
    /\ pc[p] = "table"
    /\ Free(p, TableLock(Target(p)))
    /\ Lock(p, TableLock(Target(p)))
    /\ Goto(p, IF call[p].op = "apply" THEN "trigger" ELSE "unfunction")
    /\ UNCHANGED <<catalogVars, call, historyVars>>

(* CREATE TRIGGER, its function and the lock of its table at hand.         *)
CreateTrigger(p) ==
    /\ pc[p] = "trigger"
    /\ Goto(p, "commit")
    /\ UNCHANGED <<catalogVars, call, owns, historyVars>>

(* DROP FUNCTION IF EXISTS; it is refused while others depend on it (Fail).*)
DropFunction(p) ==
    LET n == Target(p) IN
    /\ pc[p] \in {"unfunction", "blocked"} /\ call[p].op = "drop"
    /\ \/ /\ functions[triggerFunctionName[n]] = NoFunction
          /\ UNCHANGED owns
       \/ /\ functions[triggerFunctionName[n]] # NoFunction
          /\ ~HasDependents(n)
          /\ Free(p, FunctionLock(n))
          /\ Lock(p, FunctionLock(n))
    /\ Goto(p, "commit")
    /\ UNCHANGED <<catalogVars, call, historyVars>>

(* The functions and triggers after the transaction of p.                  *)
Publish(p) ==
    LET n == Target(p) IN
    IF call[p].op = "apply"
      THEN /\ functions' = [functions EXCEPT ![triggerFunctionName[n]] = FunctionOf[n]]
           /\ triggers' = [triggers EXCEPT ![TriggerKey[n]] = TriggerOf[n]]
      ELSE /\ functions' = IF FunctionLock(n) \in owns[p]
                              THEN [functions EXCEPT ![triggerFunctionName[n]] = NoFunction]
                              ELSE functions
           /\ triggers' = [triggers EXCEPT ![TriggerKey[n]] = NoTrigger]

(* Names that are the same once sanitized, and triggers that are.          *)
Clashes ==
    {pair \in Notifs \X Notifs :
        /\ pair[1] # pair[2]
        /\ \/ triggerFunctionName[pair[1]] = triggerFunctionName[pair[2]]
           \/ TriggerKey[pair[1]] = TriggerKey[pair[2]]}

SameTrigger == {pair \in Clashes : TriggerKey[pair[1]] = TriggerKey[pair[2]]}

Record(p) ==
    LET n == Target(p) IN
    IF call[p].op = "apply"
      THEN /\ installed' = {m \in installed : <<n, m>> \notin Clashes} \cup {n}
           /\ everInstalled' = everInstalled \cup {n}
      ELSE /\ installed' = {m \in installed : m # n /\ <<n, m>> \notin SameTrigger}
           /\ UNCHANGED everInstalled

(* The transaction commits, and whoever waits for the function it wrote    *)
(* fails: "tuple concurrently updated".  If the answer is lost the caller  *)
(* sees an error; it may call again either way.                            *)
Commit(p) ==
    /\ pc[p] = "commit"
    /\ Publish(p)
    /\ Record(p)
    /\ pc' = [q \in Procs |-> IF q = p THEN "idle"
                              ELSE IF pc[q] = "blocked" /\ Wants(q) \cap owns[p] # {}
                                THEN "doomed" ELSE pc[q]]
    /\ owns' = [owns EXCEPT ![p] = {}]
    /\ call' = [call EXCEPT ![p] = NoCall]
    /\ announced' = Silence

Rollback(p) ==
    /\ Goto(p, "idle")
    /\ owns' = [owns EXCEPT ![p] = {}]
    /\ call' = [call EXCEPT ![p] = NoCall]
    /\ UNCHANGED <<catalogVars, historyVars>>

(* Mutant: the statements are sent one by one, in a transaction that an    *)
(* error leaves open.                                                      *)
FailWithoutRollback(p) ==
    /\ pc[p] # "idle"
    /\ Goto(p, "idle")
    /\ call' = [call EXCEPT ![p] = NoCall]
    /\ UNCHANGED <<catalogVars, owns, historyVars>>

(* A statement fails, the context ends, the process dies or its connection *)
(* breaks: the server rolls back.                                          *)
Fail(p) == pc[p] # "idle" /\ Rollback(p)

(* Errors the server is certain to report.                                 *)
Refused(p) ==
    \/ pc[p] = "doomed"
    \/ /\ pc[p] \in {"unfunction", "blocked"} /\ call[p].op = "drop"
       /\ HasDependents(Target(p))

RefusedReturns(p) == Refused(p) /\ Rollback(p)

DeadlockVictim(p) == Deadlocked(p) /\ Rollback(p)

-----------------------------------------------------------------------------
(* Mutant: the row before a deletion is forgotten.                         *)
payloadValueUpdateOnly(prop, f, c) ==
    CASE prop = FromState -> IF c.op = Update THEN c.old ELSE NoRow
      [] prop = ToState -> IF c.op \in {Insert, Update} THEN c.new ELSE NoRow
      [] prop = TableName -> c.table
      [] prop = RowID -> <<IF c.op = Delete THEN c.old ELSE c.new, f.rowID>>
      [] prop = CreatedAt -> "now"

(* The trigger function: payloadValue, for a row that has changed.         *)
payloadValue(prop, f, c) ==
    CASE prop = FromState -> IF c.op \in {Update, Delete} THEN c.old ELSE NoRow
      [] prop = ToState -> IF c.op \in {Insert, Update} THEN c.new ELSE NoRow
      [] prop = TableName -> c.table
      [] prop = RowID -> <<IF c.op = Delete THEN c.old ELSE c.new, f.rowID>>
      [] prop = CreatedAt -> "now"

(* pg_notify takes channel names and payloads up to its limits.            *)
Fits(channel, payload) ==
    /\ Len(channel) < ChannelLimit
    /\ \A prop \in DOMAIN payload \cap {FromState, ToState} : payload[prop] \notin BigRows

Message(channel, payload) ==
    [channel |-> channel, payload |-> payload, fits |-> Fits(channel, payload)]

Notify(f, c) == Message(f.event, [prop \in f.props |-> payloadValue(prop, f, c)])

Fired(c) ==
    {k \in Keys : k[1] = c.table /\ triggers[k] # NoTrigger /\ c.op \in triggers[k].ops}

MessagesOf(c) == {Notify(functions[triggers[k].function], c) : k \in Fired(c)}

(* The application changes a row, in a transaction of its own.             *)
ChangeRow(c) ==
    /\ \A p \in Procs : <<"table", c.table>> \notin owns[p]
    /\ announced' = IF \A m \in MessagesOf(c) : m.fits
                      THEN [change |-> c, refused |-> FALSE, messages |-> MessagesOf(c)]
                      ELSE [change |-> c, refused |-> TRUE, messages |-> {}]
    /\ UNCHANGED <<catalogVars, pc, call, owns, installed, everInstalled>>

Step(p) ==
    \/ CreateFunction(p) \/ AwaitFunction(p) \/ DropTrigger(p) \/ CreateTrigger(p)
    \/ DropFunction(p) \/ Commit(p) \/ RefusedReturns(p)

Next ==
    \/ \E p \in Procs : Step(p) \/ Fail(p) \/ DeadlockVictim(p)
    \/ \E p \in Procs, c \in Call : Start(p, c)
    \/ \E c \in Changes : ChangeRow(c)

Spec == Init /\ [][Next]_vars

(* Queues for locks are first in, first out, so a statement that can go on *)
(* again and again does; the server breaks cycles of waits.                *)
FairSpec == Spec /\ \A p \in Procs : SF_vars(Step(p)) /\ WF_vars(DeadlockVictim(p))

-----------------------------------------------------------------------------
TypeOK ==
    /\ functions \in [Names -> {FunctionOf[n] : n \in Notifs} \cup {NoFunction}]
    /\ triggers \in [Keys -> {TriggerOf[n] : n \in Notifs} \cup {NoTrigger}]
    /\ pc \in [Procs -> {"idle", "function", "blocked", "doomed", "table", "trigger", "unfunction", "commit"}]
    /\ call \in [Procs -> Call \cup {NoCall}]
    /\ \A p \in Procs : pc[p] # "idle" => call[p] \in Call
    /\ owns \in [Procs -> SUBSET Locks]
    /\ installed \subseteq everInstalled
    /\ everInstalled \subseteq Notifs
    /\ announced.change \in Changes \cup {NoChange}

(* What Apply has installed stays as it was installed, function and        *)
(* trigger, until it is dropped or a notification of the same sanitized    *)
(* name is applied, whatever fails, waits or is retried in between; and no *)
(* trigger is left without its function, which would fail every change of  *)
(* its table.                                                              *)
CatalogIntact ==
    /\ \A n \in installed :
          /\ functions[triggerFunctionName[n]] = FunctionOf[n]
          /\ triggers[TriggerKey[n]] = TriggerOf[n]
    /\ \A k \in Keys : triggers[k] # NoTrigger => functions[triggers[k].function] # NoFunction

(* No call hangs, though Apply locks function before table and the SQL of  *)
(* DropSQL table before function.                                          *)
Terminates == \A p \in Procs : pc[p] # "idle" ~> pc[p] = "idle"

(* What n is to say of a change: the row before, the row after, the key of *)
(* the row; once for every change of the operations it is On.              *)
Meaning(prop, n, c) ==
    CASE prop = FromState -> c.old
      [] prop = ToState -> c.new
      [] prop = TableName -> c.table
      [] prop = RowID -> <<IF c.new = NoRow THEN c.old ELSE c.new, n.rowID>>
      [] prop = CreatedAt -> "now"

Announcement(n, c) ==
    IF c.table = RelationOf[n.table] /\ c.op \in Operations(n)
      THEN {Message(n.eventName, [prop \in n.props |-> Meaning(prop, n, c)])}
      ELSE {}

Promises == [n \in Notifs |-> [c \in Changes |-> Announcement(n, c)]]

(* The calls and changes behave as the registry promises: Apply and Drop   *)
(* in one step or not at all, no change goes unannounced while a           *)
(* notification is applied again, and without clashes none is announced    *)
(* twice, to others or by what has been dropped.                           *)
Registry == INSTANCE NotificationRegistry WITH
    Notifs <- Notifs,
    Changes <- Changes,
    Promise <- Promises,
    Clashes <- Clashes,
    SameTrigger <- SameTrigger,
    Nothing <- NoChange,
    installed <- installed,
    everInstalled <- everInstalled,
    announced <- announced

RegistryRefined == Registry!Spec
=============================================================================
