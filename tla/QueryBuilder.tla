---------------------------- MODULE QueryBuilder ----------------------------
(***************************************************************************)
(* The query builders of a Repository (src/repository): a chain of calls   *)
(* collects clauses, and Execute validates them and renders a statement    *)
(* whose values travel apart from it, as numbered arguments.  One action   *)
(* is one call of the chain, or one clause rendered.                       *)
(*                                                                         *)
(* A statement is kept as a tree: what is written before, between and      *)
(* around the conditions (table, joins, CTEs, ORDER BY, LIMIT) takes no    *)
(* arguments and is left out.  The database is external: it evaluates the  *)
(* statement's condition on every row, with the arguments bound by number. *)
(***************************************************************************)
EXTENDS Integers, Sequences

CONSTANTS
    Properties,     \* names a caller may use
    Mapped,         \* those the repository accepts, qualified ones included
    Values, Null,   \* what a column holds
    Clauses,        \* WhereClauses a caller may add
    Assignments,    \* SetClauses a caller may add
    MaxClauses      \* bound: clauses of one query

Scalar == {"=", "!="}           \* two of the operators that take one value
Lists == {"IN", "NOT IN"}
Nullary == {"IS NULL", "IS NOT NULL"}

WhereClause ==
    [prop : Properties, op : Scalar \cup Lists \cup Nullary, values : Seq(Values), or : BOOLEAN]
SetClause == [prop : Properties, value : Values]

ASSUME NamesAssumption == Mapped \subseteq Properties /\ Null \notin Values
ASSUME ChoicesAssumption == Clauses \subseteq WhereClause /\ Assignments \subseteq SetClause

VARIABLES
    kind,       \* which query it is
    wheres, sets, conflictCols, updateOnConflict, orderBy,      \* the query object
    args,       \* the arguments collected while rendering
    assigned,   \* placeholder numbers of the assignments rendered
    groups,     \* the condition: a conjunction of disjunctions of rendered clauses
    next,       \* the next where clause to render
    pc          \* "build", "render", "sent" or "refused"

query == <<kind, wheres, sets, conflictCols, updateOnConflict, orderBy>>
vars == <<query, args, assigned, groups, next, pc>>

(* A rendered clause: what it is of, its operator and its placeholders.    *)
Rendered ==
    [of : Nat, prop : Properties, op : Scalar \cup Lists \cup Nullary \cup {"TRUE", "FALSE"},
     at : Seq(Nat)]

TypeOK ==
    /\ kind \in {"select", "insert", "update", "delete"}
    /\ wheres \in Seq(WhereClause)
    /\ sets \in Seq(SetClause)
    /\ conflictCols \subseteq Properties
    /\ updateOnConflict \subseteq Properties
    /\ orderBy \subseteq Properties
    /\ args \in Seq(Values)
    /\ assigned \in Seq(Nat)
    /\ groups \in Seq(Seq(Rendered))
    /\ next \in Nat \ {0}
    /\ pc \in {"build", "render", "sent", "refused"}

Init ==
    /\ kind \in {"select", "insert", "update", "delete"}
    /\ wheres = <<>> /\ sets = <<>>
    /\ conflictCols = {} /\ updateOnConflict = {} /\ orderBy = {}
    /\ args = <<>> /\ assigned = <<>> /\ groups = <<>>
    /\ next = 1
    /\ pc = "build"

-----------------------------------------------------------------------------
(* The chain.  A query object may be executed, extended and executed again.*)

Extending ==
    /\ pc # "render"
    /\ Len(wheres) + Len(sets) < MaxClauses
    /\ pc' = "build"
    /\ UNCHANGED <<kind, args, assigned, groups, next>>

(* Where and OrWhere.                                                      *)
Where(w) ==
    /\ kind # "insert"
    /\ Extending
    /\ wheres' = Append(wheres, w)
    /\ UNCHANGED <<sets, conflictCols, updateOnConflict, orderBy>>

Set(s) ==
    /\ kind \in {"insert", "update"}
    /\ Extending
    /\ sets' = Append(sets, s)
    /\ UNCHANGED <<wheres, conflictCols, updateOnConflict, orderBy>>

UpdateOnConflict(cols, updateCols) ==
    /\ kind = "insert"
    /\ Extending
    /\ conflictCols' = cols /\ updateOnConflict' = updateCols
    /\ UNCHANGED <<wheres, sets, orderBy>>

OrderBy(p) ==
    /\ kind = "select"
    /\ Extending
    /\ orderBy' = {p}
    /\ UNCHANGED <<wheres, sets, conflictCols, updateOnConflict>>

-----------------------------------------------------------------------------
(* Execute.                                                                *)

validateProperties(ps) == ps \subseteq Mapped

whereProperties == {wheres[i].prop : i \in DOMAIN wheres}
setProps == {sets[i].prop : i \in DOMAIN sets}

SelectValid == validateProperties(orderBy) /\ validateProperties(whereProperties)

InsertValid ==
    /\ sets # <<>>
    /\ validateProperties(setProps)
    /\ validateProperties(conflictCols) /\ validateProperties(updateOnConflict)

UpdateValid ==
    /\ sets # <<>>
    /\ validateProperties(setProps) /\ validateProperties(whereProperties)

DeleteValid == validateProperties(whereProperties)

Valid ==
    CASE kind = "select" -> SelectValid
      [] kind = "insert" -> InsertValid
      [] kind = "update" -> UpdateValid
      [] kind = "delete" -> DeleteValid

(* Mutant: the arguments of an earlier Execute are kept.                   *)
ExecuteAgain ==
    /\ pc # "render"
    /\ assigned' = <<>> /\ groups' = <<>> /\ next' = 1
    /\ pc' = IF Valid THEN "render" ELSE "refused"
    /\ UNCHANGED <<query, args>>

(* Execute, First, Exists and Count start alike.                           *)
Execute ==
    /\ pc # "render"
    /\ args' = <<>> /\ assigned' = <<>> /\ groups' = <<>> /\ next' = 1
    /\ pc' = IF Valid THEN "render" ELSE "refused"
    /\ UNCHANGED query

(* One assignment of an INSERT or UPDATE.                                  *)
RenderSet ==
    /\ pc = "render"
    /\ Len(assigned) < Len(sets)
    /\ args' = Append(args, sets[Len(assigned) + 1].value)
    /\ assigned' = Append(assigned, Len(args) + 1)
    /\ UNCHANGED <<query, groups, next, pc>>

(* The values a clause binds: all of a list, the first for other operators.*)
Bound(w) ==
    IF w.op \in Lists THEN w.values
    ELSE IF w.op \in Scalar THEN <<w.values[1]>> ELSE <<>>

MissingValue(w) == w.op \in Scalar /\ w.values = <<>>

(* An empty list needs no database: nothing is in it.                      *)
RenderedOp(w) ==
    IF w.op \in Lists /\ w.values = <<>>
    THEN IF w.op = "IN" THEN "FALSE" ELSE "TRUE"
    ELSE w.op

(* Mutant: the numbering starts over in the condition.                     *)
whereClauseFromOne(i) ==
    [of |-> i, prop |-> wheres[i].prop, op |-> RenderedOp(wheres[i]),
     at |-> [k \in 1..Len(Bound(wheres[i])) |-> k]]

whereClauseSQL(i) ==
    [of |-> i, prop |-> wheres[i].prop, op |-> RenderedOp(wheres[i]),
     at |-> [k \in 1..Len(Bound(wheres[i])) |-> Len(args) + k]]

(* Mutant: an OR clause joins the first group.                             *)
GroupedFirst(c, or) ==
    IF ~or \/ groups = <<>> THEN Append(groups, <<c>>)
    ELSE [groups EXCEPT ![1] = Append(@, c)]

(* An AND clause starts a group, an OR clause joins the last one.          *)
Grouped(c, or) ==
    IF ~or \/ groups = <<>> THEN Append(groups, <<c>>)
    ELSE [groups EXCEPT ![Len(groups)] = Append(@, c)]

(* One clause of the condition, after all assignments.                     *)
RenderWhere ==
    LET w == wheres[next] IN
    /\ pc = "render"
    /\ Len(assigned) = Len(sets)
    /\ next <= Len(wheres)
    /\ \/ /\ MissingValue(w)
          /\ pc' = "refused"
          /\ UNCHANGED <<args, groups, next>>
       \/ /\ ~MissingValue(w)
          /\ args' = args \o Bound(w)
          /\ groups' = Grouped(whereClauseSQL(next), w.or)
          /\ next' = next + 1
          /\ UNCHANGED pc
    /\ UNCHANGED <<query, assigned>>

(* The statement and its arguments go to the database.                     *)
Send ==
    /\ pc = "render"
    /\ Len(assigned) = Len(sets) /\ next > Len(wheres)
    /\ pc' = "sent"
    /\ UNCHANGED <<query, args, assigned, groups, next>>

Next ==
    \/ \E w \in Clauses : Where(w)
    \/ \E s \in Assignments : Set(s)
    \/ \E c, u \in {{}} \cup {{p} : p \in Properties} : UpdateOnConflict(c, u)
    \/ \E p \in Properties : OrderBy(p)
    \/ Execute \/ RenderSet \/ RenderWhere \/ Send

Spec == Init /\ [][Next]_vars

-----------------------------------------------------------------------------
(* What the database makes of a condition.  A comparison with NULL is not  *)
(* true; nothing is in an empty list.                                      *)
Truth(op, x, vs) ==
    CASE op = "TRUE" -> TRUE
      [] op = "FALSE" -> FALSE
      [] op = "IS NULL" -> x = Null
      [] op = "IS NOT NULL" -> x # Null
      [] op = "=" -> x # Null /\ x = vs[1]
      [] op = "!=" -> x # Null /\ x # vs[1]
      [] op = "IN" -> x # Null /\ \E k \in DOMAIN vs : vs[k] = x
      [] op = "NOT IN" -> vs = <<>> \/ (x # Null /\ \A k \in DOMAIN vs : vs[k] # x)

Rows == [Mapped -> Values \cup {Null}]

Selected(row) ==
    \A g \in DOMAIN groups : \E j \in DOMAIN groups[g] :
        LET c == groups[g][j]
        IN Truth(c.op, row[c.prop], [k \in DOMAIN c.at |-> args[c.at[k]]])

(* What the caller asked for: the clauses in order, where OrWhere weakens  *)
(* the clause it follows, with any OrWhere in between, and Where asks for  *)
(* one thing more.                                                         *)
Asked(row) ==
    \A i \in DOMAIN wheres : i = 1 \/ ~wheres[i].or =>
        \E j \in i..Len(wheres) :
            /\ \A k \in (i + 1)..j : wheres[k].or
            /\ Truth(wheres[j].op, row[wheres[j].prop], wheres[j].values)

(* The statement that is sent selects, updates or deletes exactly the rows *)
(* asked for: grouping, list operators and the numbering of arguments do   *)
(* not change the meaning of the chain, however often it is executed.      *)
MeansWhatWasAsked ==
    pc = "sent" =>
        /\ validateProperties(whereProperties)
        /\ \A row \in Rows : Selected(row) <=> Asked(row)

(* Every placeholder stands for the value its clause was given, whatever   *)
(* clauses were rendered before it: no SET and no IN list shifts the       *)
(* numbers of another clause.                                              *)
ClauseBound(c) ==
    /\ c.of \in DOMAIN wheres
    /\ Len(c.at) = Len(Bound(wheres[c.of]))
    /\ \A k \in 1..Len(c.at) :
          c.at[k] \in DOMAIN args /\ args[c.at[k]] = Bound(wheres[c.of])[k]

BoundAsGiven ==
    /\ \A i \in DOMAIN assigned :
          /\ i \in DOMAIN sets /\ assigned[i] \in DOMAIN args
          /\ args[assigned[i]] = sets[i].value
    /\ \A g \in DOMAIN groups : \A j \in DOMAIN groups[g] : ClauseBound(groups[g][j])

(* Every argument is mentioned: the database refuses a statement that has  *)
(* fewer parameters than it is given arguments.                            *)
Mentioned(n) ==
    \/ \E i \in DOMAIN assigned : assigned[i] = n
    \/ \E g \in DOMAIN groups : \E j \in DOMAIN groups[g] :
          \E k \in 1..Len(groups[g][j].at) : groups[g][j].at[k] = n

(* What rendering maintains.                                               *)
RenderInv ==
    /\ TypeOK
    /\ BoundAsGiven
    /\ \A n \in DOMAIN args : Mentioned(n)
    /\ pc \in {"render", "sent"} => next <= Len(wheres) + 1 /\ Len(assigned) <= Len(sets)
    /\ pc = "sent" => Len(assigned) = Len(sets) /\ next = Len(wheres) + 1
=============================================================================
