------------------------ MODULE QueryBuilder_proofs ------------------------
(***************************************************************************)
(* Rendering keeps placeholders and arguments in step, for every query:    *)
(* proof of RenderInv by induction over the clauses rendered.  And the     *)
(* statement means what the chain of calls says, AND binding tighter than  *)
(* OR as SQL reads it: GroupInv says which clauses each alternative holds  *)
(* after every call, and a group selects a row exactly when its clauses do.*)
(***************************************************************************)
EXTENDS QueryBuilder, SequenceTheorems, TLAPS

Ops == Scalar \cup Lists \cup Nullary

(* What a clause with a value binds is a list of values.                   *)
LEMMA BoundType ==
    ASSUME NEW w \in WhereClause, ~MissingValue(w)
    PROVE  Bound(w) \in Seq(Values)
  <1>1. w.op \in Ops /\ w.values \in Seq(Values)
    BY DEF WhereClause, Ops
  <1>2. CASE w.op \in Nullary
    <2>1. Bound(w) = <<>>
      BY <1>2 DEF Bound, Nullary, Lists, Scalar
    <2> QED BY <2>1
  <1>3. CASE w.op \in Lists
    <2>1. Bound(w) = w.values
      BY <1>3 DEF Bound, Nullary, Lists
    <2> QED BY <2>1, <1>1
  <1>4. CASE w.op \in Scalar
    <2>1. Bound(w) = <<w.values[1]>>
      BY <1>4 DEF Bound, Nullary, Lists, Scalar
    <2>2. w.values # <<>>
      BY <1>4 DEF MissingValue
    <2>3. w.values[1] \in Values
      BY <1>1, <2>2
    <2> QED BY <2>1, <2>3
  <1> QED BY <1>1, <1>2, <1>3, <1>4 DEF Ops

(* The rendering of clause i is a rendered clause, and numbers its         *)
(* placeholders after the arguments there are.                             *)
LEMMA WhereClauseType ==
    ASSUME TypeOK, NEW i \in DOMAIN wheres, ~MissingValue(wheres[i])
    PROVE  /\ whereClauseSQL(i) \in Rendered
           /\ whereClauseSQL(i).of = i
           /\ Len(whereClauseSQL(i).at) = Len(Bound(wheres[i]))
           /\ \A k \in 1..Len(Bound(wheres[i])) : whereClauseSQL(i).at[k] = Len(args) + k
  <1> DEFINE w == wheres[i]
             n == Len(Bound(w))
             at == [k \in 1..n |-> Len(args) + k]
  <1>1. w \in WhereClause /\ i \in Nat
    BY DEF TypeOK
  <1>2. n \in Nat
    BY <1>1, BoundType
  <1>3. at \in Seq(Nat) /\ Len(at) = n
    <2>1. Len(args) \in Nat
      BY DEF TypeOK
    <2>2. \A k \in 1..n : Len(args) + k \in Nat
      BY <2>1, <1>2
    <2>3. at \in [1..n -> Nat]
      BY <2>2
    <2> QED BY <2>3, <1>2
  <1>4. RenderedOp(w) \in Scalar \cup Lists \cup Nullary \cup {"TRUE", "FALSE"}
    BY <1>1 DEF RenderedOp, WhereClause
  <1>5. w.prop \in Properties
    BY <1>1 DEF WhereClause
  <1>6. whereClauseSQL(i) = [of |-> i, prop |-> w.prop, op |-> RenderedOp(w), at |-> at]
    BY DEF whereClauseSQL
  <1> HIDE DEF at, w
  <1>7. whereClauseSQL(i) \in Rendered /\ whereClauseSQL(i).of = i /\ whereClauseSQL(i).at = at
    BY <1>1, <1>3, <1>4, <1>5, <1>6 DEF Rendered
  <1> QED BY <1>7, <1>3 DEF at, w

(* Grouping keeps every rendered clause in its place and adds one.         *)
LEMMA GroupedProperties ==
    ASSUME groups \in Seq(Seq(Rendered)), NEW c \in Rendered, NEW or \in BOOLEAN
    PROVE  /\ Grouped(c, or) \in Seq(Seq(Rendered))
           /\ \A g \in DOMAIN groups : \A j \in DOMAIN groups[g] :
                 /\ g \in DOMAIN Grouped(c, or) /\ j \in DOMAIN Grouped(c, or)[g]
                 /\ Grouped(c, or)[g][j] = groups[g][j]
           /\ \E g \in DOMAIN Grouped(c, or) : \E j \in DOMAIN Grouped(c, or)[g] :
                 Grouped(c, or)[g][j] = c
           /\ \A g \in DOMAIN Grouped(c, or) : \A j \in DOMAIN Grouped(c, or)[g] :
                 \/ Grouped(c, or)[g][j] = c
                 \/ /\ g \in DOMAIN groups /\ j \in DOMAIN groups[g]
                    /\ Grouped(c, or)[g][j] = groups[g][j]
  <1> DEFINE G == Grouped(c, or)
             n == Len(groups)
  <1>1. n \in Nat /\ DOMAIN groups = 1..n /\ \A g \in 1..n : groups[g] \in Seq(Rendered)
    OBVIOUS
  <1>2. CASE ~or \/ groups = <<>>
    <2>1. G = Append(groups, <<c>>)
      BY <1>2 DEF Grouped
    <2>2. <<c>> \in Seq(Rendered) /\ DOMAIN <<c>> = 1..1 /\ <<c>>[1] = c
      OBVIOUS
    <2>3. G \in Seq(Seq(Rendered)) /\ DOMAIN G = 1..(n + 1) /\ G[n + 1] = <<c>>
      BY <2>1, <2>2
    <2>4. \A g \in 1..n : G[g] = groups[g]
      BY <2>1, <2>2
    <2> HIDE DEF G
    <2>5. \A g \in DOMAIN G : g \in 1..n \/ g = n + 1
      BY <2>3, <1>1
    <2>6. n + 1 \in DOMAIN G /\ 1 \in DOMAIN G[n + 1] /\ G[n + 1][1] = c
      BY <2>3, <2>2, <1>1
    <2>7. \A g \in DOMAIN groups : g \in DOMAIN G
      BY <2>3, <1>1
    <2>8. \A j \in DOMAIN G[n + 1] : G[n + 1][j] = c
      BY <2>3, <2>2
    <2> QED BY <1>1, <2>3, <2>4, <2>5, <2>6, <2>7, <2>8 DEF G
  <1>3. CASE or /\ groups # <<>>
    <2> DEFINE h == Append(groups[n], c)
    <2>1. n \in 1..n
      BY <1>1, <1>3
    <2>2. /\ h \in Seq(Rendered) /\ DOMAIN h = 1..(Len(groups[n]) + 1)
          /\ h[Len(groups[n]) + 1] = c /\ Len(groups[n]) \in Nat
          /\ DOMAIN groups[n] = 1..Len(groups[n])
          /\ \A j \in 1..Len(groups[n]) : h[j] = groups[n][j]
      BY <1>1, <2>1
    <2>3. G = [groups EXCEPT ![n] = h]
      BY <1>3 DEF Grouped
    <2> HIDE DEF h
    <2>4. /\ G \in Seq(Seq(Rendered)) /\ DOMAIN G = 1..n /\ G[n] = h
          /\ \A g \in 1..n : g # n => G[g] = groups[g]
      <3>1. /\ [groups EXCEPT ![n] = h] \in Seq(Seq(Rendered))
            /\ Len([groups EXCEPT ![n] = h]) = Len(groups)
            /\ \A g \in 1..Len(groups) :
                  [groups EXCEPT ![n] = h][g] = IF g = n THEN h ELSE groups[g]
        BY <2>1, <2>2, ExceptSeq
      <3> QED BY <3>1, <2>1, <2>3, <1>1
    <2> HIDE DEF G
    <2>5. \A j \in DOMAIN h : j \in DOMAIN groups[n] \/ j = Len(groups[n]) + 1
      BY <2>2
    <2>6. \A j \in DOMAIN groups[n] : j \in DOMAIN h
      BY <2>2
    <2>7. Len(groups[n]) + 1 \in DOMAIN h
      BY <2>2
    <2> QED BY <1>1, <2>1, <2>2, <2>4, <2>5, <2>6, <2>7 DEF G
  <1> QED BY <1>2, <1>3

(* Clauses that are only added leave what is bound as it was.              *)
LEMMA ExtendingKeeps ==
    ASSUME RenderInv,
           wheres' \in Seq(WhereClause), sets' \in Seq(SetClause),
           DOMAIN wheres \subseteq DOMAIN wheres', DOMAIN sets \subseteq DOMAIN sets',
           \A i \in DOMAIN wheres : wheres'[i] = wheres[i],
           \A i \in DOMAIN sets : sets'[i] = sets[i],
           conflictCols' \subseteq Properties, updateOnConflict' \subseteq Properties,
           orderBy' \subseteq Properties,
           UNCHANGED <<kind, args, assigned, groups, next>>,
           pc' = "build"
    PROVE  RenderInv'
  <1>1. TypeOK'
    BY DEF RenderInv, TypeOK
  <1>2. BoundAsGiven'
    <2>1. \A i \in DOMAIN assigned :
             /\ i \in DOMAIN sets' /\ assigned[i] \in DOMAIN args
             /\ args[assigned[i]] = sets'[i].value
      BY DEF RenderInv, BoundAsGiven
    <2>2. \A g \in DOMAIN groups : \A j \in DOMAIN groups[g] : ClauseBound(groups[g][j])'
      BY DEF RenderInv, BoundAsGiven, ClauseBound
    <2> QED BY <2>1, <2>2 DEF BoundAsGiven
  <1>3. \A n \in DOMAIN args' : Mentioned(n)'
    BY DEF RenderInv, Mentioned
  <1> QED BY <1>1, <1>2, <1>3 DEF RenderInv

(* So does a step that renders nothing.                                    *)
LEMMA RenderingNothingKeeps ==
    ASSUME RenderInv, UNCHANGED <<query, args, assigned, groups, next>>,
           pc' \in {"build", "render", "sent", "refused"},
           pc' \in {"render", "sent"} =>
              next <= Len(wheres) + 1 /\ Len(assigned) <= Len(sets),
           pc' = "sent" => Len(assigned) = Len(sets) /\ next = Len(wheres) + 1
    PROVE  RenderInv'
  <1>1. TypeOK'
    BY DEF RenderInv, TypeOK, query
  <1>2. BoundAsGiven'
    <2>1. \A g \in DOMAIN groups : \A j \in DOMAIN groups[g] : ClauseBound(groups[g][j])'
      BY DEF RenderInv, BoundAsGiven, ClauseBound, query
    <2> QED BY <2>1 DEF RenderInv, BoundAsGiven, query
  <1>3. \A n \in DOMAIN args' : Mentioned(n)'
    BY DEF RenderInv, Mentioned
  <1> QED BY <1>1, <1>2, <1>3 DEF RenderInv, query

(* One more assignment.                                                    *)
LEMMA RenderSetKeeps ==
    ASSUME RenderInv, RenderSet
    PROVE  RenderInv'
  <1> DEFINE m == Len(assigned)
             v == sets[m + 1].value
  <1>1. /\ m \in Nat /\ DOMAIN assigned = 1..m /\ m + 1 \in DOMAIN sets /\ v \in Values
        /\ Len(args) \in Nat /\ DOMAIN args = 1..Len(args)
    <2>1. /\ m \in Nat /\ DOMAIN assigned = 1..m /\ Len(args) \in Nat
          /\ DOMAIN args = 1..Len(args) /\ Len(sets) \in Nat /\ DOMAIN sets = 1..Len(sets)
      BY DEF RenderInv, TypeOK
    <2>2. m + 1 \in DOMAIN sets
      BY <2>1 DEF RenderSet
    <2>3. sets[m + 1] \in SetClause
      BY <2>2 DEF RenderInv, TypeOK
    <2>4. v \in Values
      BY <2>3 DEF SetClause
    <2> QED BY <2>1, <2>2, <2>4
  <1>2. args' = Append(args, v) /\ assigned' = Append(assigned, Len(args) + 1)
    BY DEF RenderSet
  <1>3. /\ args' \in Seq(Values) /\ DOMAIN args' = 1..(Len(args) + 1)
        /\ args'[Len(args) + 1] = v
        /\ \A i \in DOMAIN args : i \in DOMAIN args' /\ args'[i] = args[i]
    BY <1>1, <1>2 DEF RenderInv, TypeOK
  <1>4. /\ assigned' \in Seq(Nat) /\ DOMAIN assigned' = 1..(m + 1) /\ Len(assigned') = m + 1
        /\ assigned'[m + 1] = Len(args) + 1
        /\ \A i \in DOMAIN assigned : i \in DOMAIN assigned' /\ assigned'[i] = assigned[i]
    BY <1>1, <1>2 DEF RenderInv, TypeOK
  <1>5. UNCHANGED <<query, groups, next, pc>>
    BY DEF RenderSet
  <1> HIDE DEF v
  <1>6. TypeOK'
    BY <1>3, <1>4, <1>5 DEF RenderInv, TypeOK, query
  <1>7. BoundAsGiven'
    <2>1. \A i \in DOMAIN assigned' :
             /\ i \in DOMAIN sets /\ assigned'[i] \in DOMAIN args'
             /\ args'[assigned'[i]] = sets[i].value
      <3> TAKE i \in DOMAIN assigned'
      <3>1. CASE i \in DOMAIN assigned
        BY <3>1, <1>3, <1>4 DEF RenderInv, BoundAsGiven
      <3>2. CASE i = m + 1
        BY <3>2, <1>1, <1>3, <1>4 DEF v
      <3> QED BY <3>1, <3>2, <1>1, <1>4
    <2>2. \A g \in DOMAIN groups : \A j \in DOMAIN groups[g] : ClauseBound(groups[g][j])'
      BY <1>3, <1>5 DEF RenderInv, BoundAsGiven, ClauseBound, query
    <2> QED BY <2>1, <2>2, <1>5 DEF BoundAsGiven, query
  <1>8. \A n \in DOMAIN args' : Mentioned(n)'
    <2> TAKE n \in DOMAIN args'
    <2>1. CASE n \in DOMAIN args
      BY <2>1, <1>4, <1>5 DEF RenderInv, Mentioned
    <2>2. CASE n = Len(args) + 1
      BY <2>2, <1>1, <1>4 DEF Mentioned
    <2> QED BY <2>1, <2>2, <1>1, <1>3
  <1>9. pc' = "render" /\ next' <= Len(wheres') + 1 /\ Len(assigned') <= Len(sets')
    BY <1>1, <1>4, <1>5 DEF RenderInv, RenderSet, query, TypeOK
  <1> QED BY <1>6, <1>7, <1>8, <1>9 DEF RenderInv

(* One more clause of the condition.                                       *)
LEMMA RenderWhereKeeps ==
    ASSUME RenderInv, RenderWhere
    PROVE  RenderInv'
  <1> DEFINE w == wheres[next]
             b == Bound(w)
             c == whereClauseSQL(next)
  <1>1. /\ pc = "render" /\ Len(assigned) = Len(sets) /\ next <= Len(wheres)
        /\ UNCHANGED <<query, assigned>>
    BY DEF RenderWhere
  <1>2. TypeOK /\ next \in DOMAIN wheres /\ w \in WhereClause
    BY <1>1 DEF RenderInv, TypeOK
  <1>3. CASE MissingValue(w)
    <2>1. pc' = "refused" /\ UNCHANGED <<args, groups, next>>
      BY <1>3 DEF RenderWhere
    <2> QED BY <2>1, <1>1, RenderingNothingKeeps
  <1>4. CASE ~MissingValue(w)
    <2>1. args' = args \o b /\ groups' = Grouped(c, w.or) /\ next' = next + 1 /\ pc' = pc
      BY <1>4 DEF RenderWhere
    <2>2. b \in Seq(Values) /\ args \in Seq(Values)
      BY <1>2, <1>4, BoundType DEF TypeOK
    <2>3. /\ c \in Rendered /\ c.of = next /\ Len(c.at) = Len(b)
          /\ \A k \in 1..Len(b) : c.at[k] = Len(args) + k
      BY <1>2, <1>4, WhereClauseType
    <2>4. w.or \in BOOLEAN /\ groups \in Seq(Seq(Rendered))
      BY <1>2 DEF WhereClause, TypeOK
    <2> HIDE DEF w, b, c
    <2>5. /\ args' \in Seq(Values)
          /\ Len(args') = Len(args) + Len(b)
          /\ \A i \in 1..Len(args) + Len(b) :
                args'[i] = IF i <= Len(args) THEN args[i] ELSE b[i - Len(args)]
      BY <2>1, <2>2, ConcatProperties
    <2>6. /\ Len(args) \in Nat /\ DOMAIN args = 1..Len(args) /\ Len(b) \in Nat
          /\ DOMAIN args' = 1..(Len(args) + Len(b))
      BY <2>2, <2>5
    <2>7. \A i \in DOMAIN args : i \in DOMAIN args' /\ args'[i] = args[i]
      BY <2>5, <2>6
    <2>8. \A k \in 1..Len(b) : Len(args) + k \in DOMAIN args' /\ args'[Len(args) + k] = b[k]
      <3> TAKE k \in 1..Len(b)
      <3>1. Len(args) + k \in 1..Len(args) + Len(b) /\ ~(Len(args) + k <= Len(args))
        BY <2>6
      <3>2. (Len(args) + k) - Len(args) = k
        BY <2>6
      <3> QED BY <3>1, <3>2, <2>5, <2>6
    <2>9. /\ groups' \in Seq(Seq(Rendered))
          /\ \A g \in DOMAIN groups : \A j \in DOMAIN groups[g] :
                /\ g \in DOMAIN groups' /\ j \in DOMAIN groups'[g]
                /\ groups'[g][j] = groups[g][j]
          /\ \E g \in DOMAIN groups' : \E j \in DOMAIN groups'[g] : groups'[g][j] = c
          /\ \A g \in DOMAIN groups' : \A j \in DOMAIN groups'[g] :
                \/ groups'[g][j] = c
                \/ /\ g \in DOMAIN groups /\ j \in DOMAIN groups[g]
                   /\ groups'[g][j] = groups[g][j]
      <3>1. /\ Grouped(c, w.or) \in Seq(Seq(Rendered))
            /\ \A g \in DOMAIN groups : \A j \in DOMAIN groups[g] :
                  /\ g \in DOMAIN Grouped(c, w.or) /\ j \in DOMAIN Grouped(c, w.or)[g]
                  /\ Grouped(c, w.or)[g][j] = groups[g][j]
            /\ \E g \in DOMAIN Grouped(c, w.or) : \E j \in DOMAIN Grouped(c, w.or)[g] :
                  Grouped(c, w.or)[g][j] = c
            /\ \A g \in DOMAIN Grouped(c, w.or) : \A j \in DOMAIN Grouped(c, w.or)[g] :
                  \/ Grouped(c, w.or)[g][j] = c
                  \/ /\ g \in DOMAIN groups /\ j \in DOMAIN groups[g]
                     /\ Grouped(c, w.or)[g][j] = groups[g][j]
        BY <2>3, <2>4, GroupedProperties
      <3> QED BY <3>1, <2>1
    <2>10. TypeOK'
      BY <1>1, <1>2, <2>1, <2>5, <2>9 DEF TypeOK, query
    <2>11. BoundAsGiven'
      <3>1. \A i \in DOMAIN assigned :
               /\ i \in DOMAIN sets /\ assigned[i] \in DOMAIN args'
               /\ args'[assigned[i]] = sets[i].value
        BY <2>7 DEF RenderInv, BoundAsGiven
      <3>2. \A x \in Rendered : x = c => ClauseBound(x)'
        <4> SUFFICES ASSUME NEW x \in Rendered, x = c
                     PROVE  ClauseBound(x)'
          OBVIOUS
        <4>1. x.of = next /\ Len(x.at) = Len(b) /\ \A k \in 1..Len(b) : x.at[k] = Len(args) + k
          BY <2>3
        <4>2. wheres' = wheres /\ Bound(wheres'[x.of]) = b
          BY <4>1, <1>1 DEF query, b, w
        <4> QED BY <4>1, <4>2, <1>2, <2>8 DEF ClauseBound
      <3>3. \A x \in Rendered : ClauseBound(x) => ClauseBound(x)'
        BY <1>1, <2>7 DEF ClauseBound, query
      <3>4. \A g \in DOMAIN groups' : \A j \in DOMAIN groups'[g] :
               \E x \in Rendered : x = groups'[g][j] /\ ClauseBound(x)'
        <4> SUFFICES ASSUME NEW g \in DOMAIN groups', NEW j \in DOMAIN groups'[g]
                     PROVE  \E x \in Rendered : x = groups'[g][j] /\ ClauseBound(x)'
          OBVIOUS
        <4>1. CASE groups'[g][j] = c
          BY <4>1, <3>2, <2>3
        <4>2. CASE /\ g \in DOMAIN groups /\ j \in DOMAIN groups[g]
                   /\ groups'[g][j] = groups[g][j]
          <5>1. groups[g][j] \in Rendered /\ ClauseBound(groups[g][j])
            BY <4>2, <2>4 DEF RenderInv, BoundAsGiven
          <5> QED BY <5>1, <4>2, <3>3
        <4> QED BY <4>1, <4>2, <2>9
      <3> QED BY <3>1, <3>4, <1>1 DEF BoundAsGiven, query
    <2>12. \A n \in DOMAIN args' : Mentioned(n)'
      <3> SUFFICES ASSUME NEW n \in DOMAIN args'
                   PROVE  Mentioned(n)'
        OBVIOUS
      <3>1. CASE n \in DOMAIN args
        <4>1. Mentioned(n)
          BY <3>1 DEF RenderInv
        <4>2. CASE \E i \in DOMAIN assigned : assigned[i] = n
          BY <4>2, <1>1 DEF Mentioned
        <4>3. CASE \E g \in DOMAIN groups : \E j \in DOMAIN groups[g] :
                      \E k \in 1..Len(groups[g][j].at) : groups[g][j].at[k] = n
          BY <4>3, <2>9 DEF Mentioned
        <4> QED BY <4>1, <4>2, <4>3 DEF Mentioned
      <3>2. CASE n \notin DOMAIN args
        <4> DEFINE k == n - Len(args)
        <4>1. k \in 1..Len(b) /\ Len(args) + k = n
          BY <3>2, <2>6
        <4>2. k \in 1..Len(c.at) /\ c.at[k] = n
          BY <4>1, <2>3
        <4> HIDE DEF k
        <4> QED BY <4>2, <2>9 DEF Mentioned
      <3> QED BY <3>1, <3>2
    <2>13. pc' = "render" /\ next' <= Len(wheres') + 1 /\ Len(assigned') <= Len(sets')
      BY <1>1, <1>2, <2>1 DEF TypeOK, query
    <2> QED BY <2>10, <2>11, <2>12, <2>13 DEF RenderInv
  <1> QED BY <1>3, <1>4

(* Rendering keeps its invariant (buildWhereSQL, whereClauseSQL and the    *)
(* Execute methods): for any clauses, every placeholder stands for the     *)
(* value its clause was given, and every argument has a placeholder.       *)
THEOREM PlaceholdersInStep == Spec => []RenderInv
  <1>1. Init => RenderInv
    <2> SUFFICES ASSUME Init
                 PROVE  RenderInv
      OBVIOUS
    <2>1. TypeOK
      BY DEF Init, TypeOK
    <2>2. DOMAIN args = {} /\ DOMAIN assigned = {} /\ DOMAIN groups = {}
      BY DEF Init
    <2> QED BY <2>1, <2>2 DEF Init, RenderInv, BoundAsGiven
  <1>2. RenderInv /\ [Next]_vars => RenderInv'
    <2> SUFFICES ASSUME RenderInv, [Next]_vars
                 PROVE  RenderInv'
      OBVIOUS
    <2>1. ASSUME NEW x \in Clauses, Where(x)
          PROVE  RenderInv'
      <3>1. x \in WhereClause
        BY ChoicesAssumption
      <3>2. /\ wheres' = Append(wheres, x) /\ pc' = "build"
            /\ UNCHANGED <<kind, args, assigned, groups, next>>
            /\ UNCHANGED <<sets, conflictCols, updateOnConflict, orderBy>>
        BY <2>1 DEF Where, Extending
      <3>3. /\ wheres' \in Seq(WhereClause) /\ DOMAIN wheres \subseteq DOMAIN wheres'
            /\ \A i \in DOMAIN wheres : wheres'[i] = wheres[i]
        BY <3>1, <3>2 DEF RenderInv, TypeOK
      <3> QED BY <3>2, <3>3, ExtendingKeeps DEF RenderInv, TypeOK
    <2>2. ASSUME NEW x \in Assignments, Set(x)
          PROVE  RenderInv'
      <3>1. x \in SetClause
        BY ChoicesAssumption
      <3>2. /\ sets' = Append(sets, x) /\ pc' = "build"
            /\ UNCHANGED <<kind, args, assigned, groups, next>>
            /\ UNCHANGED <<wheres, conflictCols, updateOnConflict, orderBy>>
        BY <2>2 DEF Set, Extending
      <3>3. /\ sets' \in Seq(SetClause) /\ DOMAIN sets \subseteq DOMAIN sets'
            /\ \A i \in DOMAIN sets : sets'[i] = sets[i]
        BY <3>1, <3>2 DEF RenderInv, TypeOK
      <3> QED BY <3>2, <3>3, ExtendingKeeps DEF RenderInv, TypeOK
    <2>3. ASSUME NEW cols \in {{}} \cup {{p} : p \in Properties},
                 NEW updateCols \in {{}} \cup {{p} : p \in Properties},
                 UpdateOnConflict(cols, updateCols)
          PROVE  RenderInv'
      BY <2>3, ExtendingKeeps DEF UpdateOnConflict, Extending, RenderInv, TypeOK
    <2>4. ASSUME NEW p \in Properties, OrderBy(p)
          PROVE  RenderInv'
      BY <2>4, ExtendingKeeps DEF OrderBy, Extending, RenderInv, TypeOK
    <2>5. CASE Execute
      <3>1. /\ args' = <<>> /\ assigned' = <<>> /\ groups' = <<>> /\ next' = 1
            /\ pc' \in {"render", "refused"} /\ UNCHANGED query
        BY <2>5 DEF Execute
      <3>2. TypeOK'
        BY <3>1 DEF RenderInv, TypeOK, query
      <3>3. DOMAIN args' = {} /\ DOMAIN assigned' = {} /\ DOMAIN groups' = {}
        BY <3>1
      <3>4. next' <= Len(wheres') + 1 /\ Len(assigned') <= Len(sets')
        BY <3>1 DEF RenderInv, TypeOK, query
      <3> QED BY <3>1, <3>2, <3>3, <3>4 DEF RenderInv, BoundAsGiven
    <2>6. CASE RenderSet
      BY <2>6, RenderSetKeeps
    <2>7. CASE RenderWhere
      BY <2>7, RenderWhereKeeps
    <2>8. CASE Send
      <3>1. /\ pc' = "sent" /\ Len(assigned) = Len(sets) /\ next > Len(wheres)
            /\ pc = "render" /\ UNCHANGED <<query, args, assigned, groups, next>>
        BY <2>8 DEF Send
      <3>2. /\ next \in Nat /\ Len(wheres) \in Nat /\ Len(sets) \in Nat
            /\ next <= Len(wheres) + 1
        BY <3>1 DEF RenderInv, TypeOK
      <3>3. next = Len(wheres) + 1
        BY <3>1, <3>2
      <3> QED BY <3>1, <3>2, <3>3, RenderingNothingKeeps
    <2>9. CASE UNCHANGED vars
      BY <2>9, RenderingNothingKeeps DEF RenderInv, TypeOK, vars
    <2> QED BY <2>1, <2>2, <2>3, <2>4, <2>5, <2>6, <2>7, <2>8, <2>9 DEF Next
  <1> QED BY <1>1, <1>2, PTL DEF Spec

-----------------------------------------------------------------------------
(* The meaning of the statement.  GroupInv says how far the condition is:  *)
(* every group has the clauses from a leading one (the first, or one that  *)
(* Where added) up to the next, and the last group is the one that an      *)
(* OrWhere may still join.                                                 *)
Leads(i) == i = 1 \/ ~wheres[i].or

Chain(i) == {j \in i..(next - 1) : \A k \in (i + 1)..j : wheres[k].or}

Positions(g) == {g[j].of : j \in DOMAIN g}

AsWritten(c) ==
    /\ c.of \in 1..(next - 1)
    /\ c.prop = wheres[c.of].prop /\ c.op = RenderedOp(wheres[c.of])

GroupsSoFar ==
    /\ \A g \in DOMAIN groups : \A j \in DOMAIN groups[g] : AsWritten(groups[g][j])
    /\ groups = <<>> <=> next = 1
    /\ \A g \in DOMAIN groups : next - 1 \in Positions(groups[g]) <=> g = Len(groups)
    /\ \A g \in DOMAIN groups : \E i \in 1..(next - 1) : Leads(i) /\ Positions(groups[g]) = Chain(i)
    /\ \A i \in 1..(next - 1) : Leads(i) => \E g \in DOMAIN groups : Positions(groups[g]) = Chain(i)

GroupInv ==
    /\ kind = "insert" => wheres = <<>>
    /\ pc \in {"render", "sent"} => validateProperties(whereProperties) /\ GroupsSoFar

(* Grouping adds a group of the new clause or adds it to the last group.   *)
LEMMA GroupedPositions ==
    ASSUME groups \in Seq(Seq(Rendered)), NEW c \in Rendered, NEW or \in BOOLEAN
    PROVE  LET n == Len(groups)
               G == Grouped(c, or)
           IN /\ n \in Nat /\ DOMAIN groups = 1..n
              /\ ~or \/ groups = <<>> =>
                    /\ G \in Seq(Seq(Rendered)) /\ Len(G) = n + 1 /\ DOMAIN G = 1..(n + 1)
                    /\ Positions(G[n + 1]) = {c.of}
                    /\ \A g \in 1..n : G[g] = groups[g]
              /\ ~(~or \/ groups = <<>>) =>
                    /\ G \in Seq(Seq(Rendered)) /\ Len(G) = n /\ DOMAIN G = 1..n /\ n \in 1..n
                    /\ Positions(G[n]) = Positions(groups[n]) \cup {c.of}
                    /\ \A g \in 1..n : g # n => G[g] = groups[g]
  <1> DEFINE G == Grouped(c, or)
             n == Len(groups)
  <1>1. n \in Nat /\ DOMAIN groups = 1..n /\ \A g \in 1..n : groups[g] \in Seq(Rendered)
    OBVIOUS
  <1>2. CASE ~or \/ groups = <<>>
    <2>1. G = Append(groups, <<c>>)
      BY <1>2 DEF Grouped
    <2>2. <<c>> \in Seq(Rendered) /\ DOMAIN <<c>> = {1} /\ <<c>>[1] = c
      OBVIOUS
    <2>3. /\ G \in Seq(Seq(Rendered)) /\ Len(G) = n + 1 /\ DOMAIN G = 1..(n + 1)
          /\ G[n + 1] = <<c>> /\ \A g \in 1..n : G[g] = groups[g]
      BY <2>1, <2>2
    <2>4. Positions(<<c>>) = {c.of}
      BY <2>2 DEF Positions
    <2> HIDE DEF G, n
    <2> QED BY <1>1, <1>2, <2>3, <2>4 DEF G, n
  <1>3. CASE or /\ groups # <<>>
    <2> DEFINE h == Append(groups[n], c)
    <2>1. n \in 1..n
      BY <1>1, <1>3
    <2>2. /\ h \in Seq(Rendered) /\ Len(groups[n]) \in Nat
          /\ DOMAIN groups[n] = 1..Len(groups[n]) /\ DOMAIN h = 1..(Len(groups[n]) + 1)
          /\ h[Len(groups[n]) + 1] = c
          /\ \A j \in 1..Len(groups[n]) : h[j] = groups[n][j]
      BY <1>1, <2>1
    <2>3. G = [groups EXCEPT ![n] = h]
      BY <1>3 DEF Grouped
    <2> HIDE DEF h
    <2>4. Positions(h) = Positions(groups[n]) \cup {c.of}
      <3>1. \A j \in DOMAIN h : j \in DOMAIN groups[n] \/ j = Len(groups[n]) + 1
        BY <2>2
      <3>2. Len(groups[n]) + 1 \in DOMAIN h /\ \A j \in DOMAIN groups[n] : j \in DOMAIN h
        BY <2>2
      <3> QED BY <2>2, <3>1, <3>2 DEF Positions
    <2>5. /\ [groups EXCEPT ![n] = h] \in Seq(Seq(Rendered))
          /\ Len([groups EXCEPT ![n] = h]) = Len(groups)
          /\ \A g \in 1..Len(groups) :
                [groups EXCEPT ![n] = h][g] = IF g = n THEN h ELSE groups[g]
      BY <2>1, <2>2, ExceptSeq
    <2>6. G \in Seq(Seq(Rendered)) /\ Len(G) = n /\ DOMAIN G = 1..n
      BY <2>3, <2>5
    <2>7. G[n] = h /\ \A g \in 1..n : g # n => G[g] = groups[g]
      BY <2>1, <2>3, <2>5
    <2> HIDE DEF G, n
    <2> QED BY <1>1, <1>3, <2>1, <2>4, <2>6, <2>7 DEF G, n
  <1> QED BY <1>2, <1>3

(* A new clause leads a chain of its own, or lengthens the one that had    *)
(* the clause before it.                                                   *)
LEMMA ChainsGrow ==
    ASSUME next \in Nat, next' = next + 1, UNCHANGED wheres,
           NEW i \in 1..(next - 1)
    PROVE  /\ next - 1 \in Chain(i) /\ wheres[next].or => Chain(i)' = Chain(i) \cup {next}
           /\ ~(next - 1 \in Chain(i) /\ wheres[next].or) => Chain(i)' = Chain(i)
           /\ next \notin Chain(i)
  <1>1. /\ next \notin Chain(i) /\ i < next /\ i..next = i..(next - 1) \cup {next}
        /\ i \in Nat /\ i <= next - 1 /\ next - 1 \in i..(next - 1)
    BY DEF Chain
  <1>2. Chain(i)' = {j \in i..next : \A k \in (i + 1)..j : wheres[k].or}
    BY DEF Chain
  <1>3. (\A k \in (i + 1)..next : wheres[k].or)
           <=> (\A k \in (i + 1)..(next - 1) : wheres[k].or) /\ wheres[next].or
    <2>1. (i + 1)..next = (i + 1)..(next - 1) \cup {next}
      BY <1>1
    <2> QED BY <2>1
  <1>4. next - 1 \in Chain(i) <=> \A k \in (i + 1)..(next - 1) : wheres[k].or
    BY <1>1 DEF Chain
  <1> QED BY <1>1, <1>2, <1>3, <1>4 DEF Chain

LEMMA NewChain ==
    ASSUME next \in Nat, next' = next + 1, UNCHANGED wheres, NEW m \in Nat \ {0}, m = next
    PROVE  Chain(m)' = {m} /\ (Leads(m)' <=> m = 1 \/ ~wheres[m].or)
  <1>1. Chain(m)' = {j \in m..m : \A k \in (m + 1)..j : wheres[k].or}
    BY DEF Chain
  <1>2. m..m = {m} /\ (m + 1)..m = {}
    OBVIOUS
  <1> QED BY <1>1, <1>2 DEF Leads

(* One more clause of the condition.                                       *)
LEMMA RenderWhereGroups ==
    ASSUME RenderInv, GroupInv, RenderWhere
    PROVE  GroupInv'
  <1> DEFINE w == wheres[next]
             c == whereClauseSQL(next)
             n == Len(groups)
  <1>1. /\ pc = "render" /\ next <= Len(wheres) /\ UNCHANGED query
        /\ GroupsSoFar /\ validateProperties(whereProperties)
    BY DEF RenderWhere, GroupInv
  <1>2. TypeOK /\ next \in DOMAIN wheres /\ w \in WhereClause
    BY <1>1 DEF RenderInv, TypeOK
  <1>3. /\ kind' = "insert" => wheres' = <<>>
        /\ wheres' = wheres /\ validateProperties(whereProperties)'
    BY <1>1 DEF GroupInv, query, validateProperties, whereProperties
  <1>m. PICK m \in Nat \ {0} : m = next
    BY <1>2 DEF TypeOK
  <1>4. CASE MissingValue(w)
    <2>1. pc' = "refused"
      BY <1>4 DEF RenderWhere
    <2> QED BY <2>1, <1>3 DEF GroupInv
  <1>5. CASE ~MissingValue(w)
    <2>1. groups' = Grouped(c, w.or) /\ next' = next + 1
      BY <1>5 DEF RenderWhere
    <2>2. c \in Rendered /\ c.of = next /\ c.prop = w.prop /\ c.op = RenderedOp(w)
      BY <1>2, <1>5, WhereClauseType DEF whereClauseSQL
    <2>3. groups \in Seq(Seq(Rendered)) /\ w.or \in BOOLEAN /\ next \in Nat \ {0}
      BY <1>2 DEF WhereClause, TypeOK
    <2> HIDE DEF c, w
    <2>4. \A g \in DOMAIN groups' : \A j \in DOMAIN groups'[g] :
               \E x \in Rendered : x = groups'[g][j] /\ AsWritten(x)'
      <3>1. \A x \in Rendered : x = c => AsWritten(x)'
        BY <2>1, <2>2, <2>3, <1>3 DEF AsWritten, w
      <3>2. \A x \in Rendered : AsWritten(x) => AsWritten(x)'
        BY <2>1, <2>3, <1>3 DEF AsWritten
      <3>3. \A g \in DOMAIN groups' : \A j \in DOMAIN groups'[g] :
               \/ groups'[g][j] = c
               \/ /\ g \in DOMAIN groups /\ j \in DOMAIN groups[g]
                  /\ groups'[g][j] = groups[g][j]
        <4>1. \A g \in DOMAIN Grouped(c, w.or) : \A j \in DOMAIN Grouped(c, w.or)[g] :
                 \/ Grouped(c, w.or)[g][j] = c
                 \/ /\ g \in DOMAIN groups /\ j \in DOMAIN groups[g]
                    /\ Grouped(c, w.or)[g][j] = groups[g][j]
          BY <2>2, <2>3, GroupedProperties
        <4> QED BY <4>1, <2>1
      <3>4. \A g \in DOMAIN groups : \A j \in DOMAIN groups[g] :
               groups[g][j] \in Rendered /\ AsWritten(groups[g][j])
        BY <2>3, <1>1 DEF GroupsSoFar
      <3> SUFFICES ASSUME NEW g \in DOMAIN groups', NEW j \in DOMAIN groups'[g]
                   PROVE  \E x \in Rendered : x = groups'[g][j] /\ AsWritten(x)'
        OBVIOUS
      <3>5. CASE groups'[g][j] = c
        BY <3>1, <3>5, <2>2
      <3>6. CASE /\ g \in DOMAIN groups /\ j \in DOMAIN groups[g]
                 /\ groups'[g][j] = groups[g][j]
        BY <3>2, <3>4, <3>6
      <3> QED BY <3>3, <3>5, <3>6
    <2>5. /\ n \in Nat /\ DOMAIN groups = 1..n
          /\ \A g \in 1..n : next \notin Positions(groups[g])
          /\ groups = <<>> <=> next = 1
          /\ \A i \in 1..next : i = next \/ i \in 1..(next - 1)
          /\ \A i \in 1..(next - 1) : i \in 1..next
      <3>1. \A g \in DOMAIN groups : \E i \in 1..(next - 1) : Positions(groups[g]) = Chain(i)
        BY <1>1 DEF GroupsSoFar
      <3> QED BY <2>1, <2>3, <1>1, <1>3, <3>1, ChainsGrow DEF GroupsSoFar
    <2>6. \A i \in 1..(next - 1) : Leads(i)' <=> Leads(i)
      BY <1>3 DEF Leads
    <2>7. CASE ~w.or \/ groups = <<>>
      <3>1. /\ Len(groups') = n + 1 /\ DOMAIN groups' = 1..(n + 1)
            /\ Positions(groups'[n + 1]) = {next}
            /\ \A g \in 1..n : groups'[g] = groups[g]
        BY <2>1, <2>2, <2>3, <2>7, GroupedPositions
      <3>2. Leads(m)' /\ Chain(m)' = {m}
        BY <1>m, <2>1, <2>3, <2>5, <2>7, <1>3, NewChain DEF w
      <3>3. \A i \in 1..(next - 1) : Chain(i)' = Chain(i)
        <4> SUFFICES ASSUME NEW i \in 1..(next - 1)
                     PROVE  Chain(i)' = Chain(i)
          OBVIOUS
        <4>1. next # 1
          BY <2>3
        <4>2. ~wheres[next].or
          BY <4>1, <2>5, <2>7 DEF w
        <4> QED BY <4>2, <2>1, <2>3, <1>3, ChainsGrow
      <3>4. groups' = <<>> <=> next' = 1
        BY <3>1, <2>1, <2>3, <2>5
      <3>5. \A g \in DOMAIN groups' : next' - 1 \in Positions(groups'[g]) <=> g = Len(groups')
        BY <3>1, <2>1, <2>3, <2>5
      <3>6. \A g \in DOMAIN groups' :
               \E i \in 1..(next' - 1) : Leads(i)' /\ Positions(groups'[g]) = Chain(i)'
        <4> SUFFICES ASSUME NEW g \in 1..(n + 1)
                     PROVE  \E i \in 1..next : Leads(i)' /\ Positions(groups'[g]) = Chain(i)'
          BY <3>1, <2>1, <2>3
        <4>1. CASE g = n + 1
          BY <1>m, <4>1, <3>1, <3>2, <2>3
        <4>2. CASE g \in 1..n
          BY <4>2, <3>1, <3>3, <2>5, <2>6, <1>1 DEF GroupsSoFar
        <4> QED BY <4>1, <4>2, <2>5
      <3>7. \A i \in 1..(next' - 1) :
               Leads(i)' => \E g \in DOMAIN groups' : Positions(groups'[g]) = Chain(i)'
        <4> SUFFICES ASSUME NEW i \in 1..next, Leads(i)'
                     PROVE  \E g \in 1..(n + 1) : Positions(groups'[g]) = Chain(i)'
          BY <3>1, <2>1, <2>3
        <4>1. CASE i = next
          BY <1>m, <4>1, <3>1, <3>2, <2>5
        <4>2. CASE i \in 1..(next - 1)
          <5>1. PICK g \in 1..n : Positions(groups[g]) = Chain(i)
            BY <4>2, <2>5, <2>6, <1>1 DEF GroupsSoFar
          <5>2. g \in 1..(n + 1)
            BY <2>5
          <5> QED BY <4>2, <5>1, <5>2, <3>1, <3>3
        <4> QED BY <4>1, <4>2, <2>5
      <3> QED BY <1>3, <2>4, <3>4, <3>5, <3>6, <3>7 DEF GroupInv, GroupsSoFar
    <2>8. CASE w.or /\ groups # <<>>
      <3>1. /\ Len(groups') = n /\ DOMAIN groups' = 1..n /\ n \in 1..n
            /\ Positions(groups'[n]) = Positions(groups[n]) \cup {next}
            /\ \A g \in 1..n : g # n => groups'[g] = groups[g]
        BY <2>1, <2>2, <2>3, <2>8, GroupedPositions
      <3>2. \A i \in 1..(next - 1) :
               Chain(i)' = IF next - 1 \in Chain(i) THEN Chain(i) \cup {next} ELSE Chain(i)
        BY <2>1, <2>3, <2>8, <1>3, ChainsGrow DEF w
      <3>3. \A g \in 1..n : Positions(groups'[g]) =
               IF next - 1 \in Positions(groups[g]) THEN Positions(groups[g]) \cup {next}
               ELSE Positions(groups[g])
        BY <3>1, <2>5, <1>1 DEF GroupsSoFar
      <3>4. groups' # <<>> /\ next' # 1 /\ next' - 1 = next
        BY <3>1, <2>1, <2>3
      <3>5. \A g \in DOMAIN groups' : next' - 1 \in Positions(groups'[g]) <=> g = Len(groups')
        BY <3>1, <3>4, <2>5
      <3>6. ~Leads(m)'
        BY <1>m, <2>1, <2>3, <2>5, <2>8, <1>3, NewChain DEF w
      <3>7. \A g \in DOMAIN groups' :
               \E i \in 1..(next' - 1) : Leads(i)' /\ Positions(groups'[g]) = Chain(i)'
        <4> SUFFICES ASSUME NEW g \in 1..n
                     PROVE  \E i \in 1..next : Leads(i)' /\ Positions(groups'[g]) = Chain(i)'
          BY <3>1, <3>4
        <4>1. PICK i \in 1..(next - 1) : Leads(i) /\ Positions(groups[g]) = Chain(i)
          BY <2>5, <1>1 DEF GroupsSoFar
        <4> QED BY <4>1, <3>2, <3>3, <2>5, <2>6
      <3>8. \A i \in 1..(next' - 1) :
               Leads(i)' => \E g \in DOMAIN groups' : Positions(groups'[g]) = Chain(i)'
        <4> SUFFICES ASSUME NEW i \in 1..next, Leads(i)'
                     PROVE  \E g \in 1..n : Positions(groups'[g]) = Chain(i)'
          BY <3>1, <3>4
        <4>1. i \in 1..(next - 1)
          BY <1>m, <3>6, <2>5
        <4>2. PICK g \in 1..n : Positions(groups[g]) = Chain(i)
          BY <4>1, <2>5, <2>6, <1>1 DEF GroupsSoFar
        <4> QED BY <4>1, <4>2, <3>2, <3>3
      <3> QED BY <1>3, <2>4, <3>4, <3>5, <3>7, <3>8 DEF GroupInv, GroupsSoFar
    <2> QED BY <2>7, <2>8, <2>3
  <1> QED BY <1>4, <1>5

LEMMA GroupInvariant == Spec => [](RenderInv /\ GroupInv)
  <1>1. Init => GroupInv
    BY DEF Init, GroupInv
  <1>2. RenderInv /\ GroupInv /\ [Next]_vars => GroupInv'
    <2> SUFFICES ASSUME RenderInv, GroupInv, [Next]_vars
                 PROVE  GroupInv'
      OBVIOUS
    <2>1. ASSUME UNCHANGED <<query, groups, next>>, pc' \in {"render", "sent"} => pc = "render"
          PROVE  GroupInv'
      <3>1. \A i : (Leads(i)' <=> Leads(i)) /\ Chain(i)' = Chain(i)
        BY <2>1 DEF Leads, Chain, query
      <3>2. \A x : AsWritten(x)' <=> AsWritten(x)
        BY <2>1 DEF AsWritten, query
      <3>3. GroupsSoFar => GroupsSoFar'
        BY <2>1, <3>1, <3>2 DEF GroupsSoFar
      <3>4. validateProperties(whereProperties)' <=> validateProperties(whereProperties)
        BY <2>1 DEF query, validateProperties, whereProperties
      <3> QED BY <2>1, <3>3, <3>4 DEF GroupInv, query
    <2>2. ASSUME NEW w \in Clauses, Where(w)
          PROVE  GroupInv'
      BY <2>2 DEF Where, Extending, GroupInv
    <2>3. CASE \/ \E s \in Assignments : Set(s)
               \/ \E c, u \in {{}} \cup {{p} : p \in Properties} : UpdateOnConflict(c, u)
               \/ \E p \in Properties : OrderBy(p)
      BY <2>3 DEF Set, UpdateOnConflict, OrderBy, Extending, GroupInv
    <2>4. CASE Execute
      <3>1. /\ groups' = <<>> /\ next' = 1 /\ UNCHANGED query
            /\ pc' \in {"render", "sent"} => Valid
        BY <2>4 DEF Execute
      <3>2. kind \in {"select", "insert", "update", "delete"}
        BY DEF RenderInv, TypeOK
      <3>3. kind = "insert" => whereProperties = {}
        BY DEF GroupInv, whereProperties
      <3>4. Valid => validateProperties(whereProperties)
        BY <3>2, <3>3 DEF Valid, SelectValid, UpdateValid, DeleteValid, validateProperties
      <3>5. validateProperties(whereProperties)' <=> validateProperties(whereProperties)
        BY <3>1 DEF query, validateProperties, whereProperties
      <3>6. GroupsSoFar'
        <4>1. DOMAIN groups' = {} /\ 1..(next' - 1) = {}
          BY <3>1
        <4> QED BY <3>1, <4>1 DEF GroupsSoFar
      <3> QED BY <3>1, <3>4, <3>5, <3>6 DEF GroupInv, query
    <2>5. CASE RenderSet
      BY <2>1, <2>5 DEF RenderSet
    <2>6. CASE RenderWhere
      BY <2>6, RenderWhereGroups
    <2>7. CASE Send
      BY <2>1, <2>7 DEF Send
    <2>8. CASE UNCHANGED vars
      <3>1. CASE pc = "sent"
        <4>1. \A i : (Leads(i)' <=> Leads(i)) /\ Chain(i)' = Chain(i)
          BY <2>8 DEF Leads, Chain, query, vars
        <4>2. \A x : AsWritten(x)' <=> AsWritten(x)
          BY <2>8 DEF AsWritten, query, vars
        <4>3. GroupsSoFar => GroupsSoFar'
          BY <2>8, <4>1, <4>2 DEF GroupsSoFar, vars
        <4> QED BY <2>8, <4>3 DEF GroupInv, query, vars, validateProperties, whereProperties
      <3>2. CASE pc # "sent"
        BY <2>1, <2>8, <3>2 DEF vars
      <3> QED BY <3>1, <3>2
    <2> QED BY <2>2, <2>3, <2>4, <2>5, <2>6, <2>7, <2>8 DEF Next
  <1> QED BY <1>1, <1>2, PlaceholdersInStep, PTL DEF Spec

(* A rendered clause says of a column's value what the clause does.        *)
LEMMA SameTruth ==
    ASSUME NEW w \in WhereClause, NEW c \in Rendered, NEW x,
           c.op = RenderedOp(w), Len(c.at) = Len(Bound(w)),
           \A k \in 1..Len(c.at) : args[c.at[k]] = Bound(w)[k]
    PROVE  Truth(c.op, x, [k \in DOMAIN c.at |-> args[c.at[k]]]) <=> Truth(w.op, x, w.values)
  <1> DEFINE vs == [k \in DOMAIN c.at |-> args[c.at[k]]]
  <1>1. w.op \in Ops /\ w.values \in Seq(Values)
    BY DEF WhereClause, Ops
  <1>2. c.at \in Seq(Nat) /\ DOMAIN c.at = 1..Len(c.at) /\ DOMAIN vs = 1..Len(c.at)
    BY DEF Rendered
  <1>3. \A k \in 1..Len(c.at) : vs[k] = Bound(w)[k]
    BY <1>2
  <1> HIDE DEF vs
  <1>4. CASE w.op \in Nullary
    BY <1>4 DEF RenderedOp, Truth, Nullary, Lists
  <1>5. CASE w.op \in Scalar
    <2>1. Bound(w) = <<w.values[1]>> /\ c.op = w.op
      BY <1>5 DEF Bound, RenderedOp, Scalar, Lists
    <2>2. vs[1] = w.values[1]
      BY <2>1, <1>3
    <2> QED BY <1>5, <2>1, <2>2 DEF Truth, Scalar, vs
  <1>6. CASE w.op \in Lists /\ w.values = <<>>
    <2>1. DOMAIN w.values = {}
      BY <1>6
    <2>2. c.op = IF w.op = "IN" THEN "FALSE" ELSE "TRUE"
      BY <1>6 DEF RenderedOp
    <2> QED BY <1>6, <2>1, <2>2 DEF Truth, Lists
  <1>7. CASE w.op \in Lists /\ w.values # <<>>
    <2>1. Bound(w) = w.values /\ c.op = w.op
      BY <1>7 DEF Bound, RenderedOp, Lists
    <2>2. DOMAIN vs = DOMAIN w.values /\ \A k \in DOMAIN vs : vs[k] = w.values[k]
      BY <1>1, <1>2, <1>3, <2>1
    <2>3. vs = <<>> <=> w.values = <<>>
      BY <1>1, <1>7, <2>2
    <2> QED BY <1>7, <2>1, <2>2, <2>3 DEF Truth, Lists, vs
  <1> QED BY <1>1, <1>4, <1>5, <1>6, <1>7 DEF Ops

(* What Execute sends means what the chain of calls asked for, whatever    *)
(* the clauses, their number and the executions before: the grouping of    *)
(* buildWhereSQL, its placeholders and the list operators agree.           *)
THEOREM StatementMeansChain == Spec => []MeansWhatWasAsked
  <1>1. RenderInv /\ GroupInv => MeansWhatWasAsked
    <2> SUFFICES ASSUME RenderInv, GroupInv, pc = "sent", NEW row \in Rows
                 PROVE  validateProperties(whereProperties) /\ (Selected(row) <=> Asked(row))
      BY DEF MeansWhatWasAsked, GroupInv
    <2> DEFINE Holds(i) == Truth(wheres[i].op, row[wheres[i].prop], wheres[i].values)
               Rendering(c) == Truth(c.op, row[c.prop], [k \in DOMAIN c.at |-> args[c.at[k]]])
    <2>1. /\ validateProperties(whereProperties) /\ GroupsSoFar /\ TypeOK /\ BoundAsGiven
          /\ next - 1 = Len(wheres) /\ Len(wheres) \in Nat /\ DOMAIN wheres = 1..Len(wheres)
      BY DEF GroupInv, RenderInv, TypeOK
    <2>2. \A g \in DOMAIN groups : \A j \in DOMAIN groups[g] :
             Rendering(groups[g][j]) <=> Holds(groups[g][j].of)
      <3> SUFFICES ASSUME NEW g \in DOMAIN groups, NEW j \in DOMAIN groups[g],
                          NEW c, c = groups[g][j]
                   PROVE  Rendering(c) <=> Holds(c.of)
        OBVIOUS
      <3>1. c \in Rendered /\ ClauseBound(c) /\ AsWritten(c)
        BY <2>1 DEF GroupsSoFar, BoundAsGiven, TypeOK
      <3>2. wheres[c.of] \in WhereClause
        BY <3>1, <2>1 DEF ClauseBound, TypeOK
      <3> DEFINE w == wheres[c.of]
      <3>3. /\ c.op = RenderedOp(w) /\ c.prop = w.prop /\ Len(c.at) = Len(Bound(w))
            /\ \A k \in 1..Len(c.at) : args[c.at[k]] = Bound(w)[k]
        BY <3>1 DEF ClauseBound, AsWritten
      <3> HIDE DEF w
      <3>4. Truth(c.op, row[c.prop], [k \in DOMAIN c.at |-> args[c.at[k]]])
               <=> Truth(w.op, row[c.prop], w.values)
        BY <3>1, <3>2, <3>3, SameTruth DEF w
      <3> QED BY <3>3, <3>4 DEF w
    <2> HIDE DEF Holds, Rendering
    <2>3. Selected(row) <=> \A g \in DOMAIN groups : \E i \in Positions(groups[g]) : Holds(i)
      <3>1. Selected(row) <=>
               \A g \in DOMAIN groups : \E j \in DOMAIN groups[g] : Rendering(groups[g][j])
        BY DEF Selected, Rendering
      <3> QED BY <2>2, <3>1 DEF Positions
    <2>4. Asked(row) <=> \A i \in 1..Len(wheres) : Leads(i) => \E j \in Chain(i) : Holds(j)
      BY <2>1 DEF Asked, Leads, Chain, Holds
    <2> QED BY <2>1, <2>3, <2>4 DEF GroupsSoFar
  <1> QED BY <1>1, GroupInvariant, PTL
=============================================================================
