--------------------------- MODULE MCQueryBuilder ---------------------------
(***************************************************************************)
(* A small instance of QueryBuilder: two mapped columns and one name the   *)
(* repository does not know.                                               *)
(***************************************************************************)
EXTENDS QueryBuilder

CONSTANTS id, name, other, v1, v2

Clause(p, op, vs, or) == [prop |-> p, op |-> op, values |-> vs, or |-> or]

(* Conditions that differ in what they bind; OrWhere of some of them.      *)
SomeClauses ==
    {Clause(id, "=", <<v1>>, or) : or \in BOOLEAN}
    \cup {Clause(name, "!=", <<v2>>, or) : or \in BOOLEAN}
    \cup {Clause(name, "IN", <<v1, v2>>, or) : or \in BOOLEAN}
    \cup {Clause(id, "NOT IN", <<v2>>, or) : or \in BOOLEAN}
    \cup {Clause(name, "IS NULL", <<>>, or) : or \in BOOLEAN}
    \cup {Clause(id, "IN", <<>>, TRUE), Clause(name, "NOT IN", <<>>, FALSE),
          Clause(id, "IS NOT NULL", <<v1>>, FALSE),
          Clause(id, "=", <<>>, FALSE), Clause(other, "=", <<v1>>, TRUE)}

SomeAssignments ==
    {[prop |-> id, value |-> v1], [prop |-> name, value |-> v2], [prop |-> other, value |-> v1]}
=============================================================================
