--------------------------- MODULE Migrator_proofs ---------------------------
(***************************************************************************)
(* Proofs about Migrator, for any processes, names, calls and bounds: its  *)
(* types, what survives a Down that overlaps other calls, and, when Down   *)
(* is exclusive, the exact ledger and the refinement of MigrationLedger.   *)
(***************************************************************************)
EXTENDS Migrator, TLAPS

(* The loop position names an element of the set while the loop runs.      *)
LEMMA CurrentType ==
    ASSUME TypeOK, NEW p \in Procs, at[p] < Len(call[p].set)
    PROVE  Current(p) \in Names
<1>1. call[p].set \in Seq(Names) /\ at[p] \in Nat
  BY DEF TypeOK, CallType
<1>2. DEFINE s == call[p].set
<1>3. at[p] + 1 \in 1 .. Len(s) /\ Len(s) - at[p] \in 1 .. Len(s)
  BY <1>1
<1> QED
  BY <1>1, <1>3 DEF Current

LEMMA NoTxType == NoTx \in TxType
  BY DEF NoTx, TxType

LEMMA LoopLabelType ==
    ASSUME NEW p \in Procs, NEW k \in Nat
    PROVE  /\ LoopLabel(p, k) \in {"check", "commit", "empty"}
           /\ LoopLabel(p, k) = "empty" => ~ IsUp(p)
  BY DEF LoopLabel

LEMMA ReturnType ==
    ASSUME TypeOK, NEW p \in Procs, NEW r \in {"none", "ok", "err"}, Return(p, r)
    PROVE  /\ pc' \in [Procs -> Labels]
           /\ tx' \in [Procs -> TxType]
           /\ result' \in [Procs -> {"none", "ok", "err"}]
           /\ call' \in [Procs -> CallType]
           /\ at' \in [Procs -> Nat]
           /\ made' \in [Procs -> Nat]
           /\ \A q \in Procs : at'[q] <= Len(call'[q].set)
  BY NoTxType DEF TypeOK, Return, Labels

LEMMA RollbackType ==
    ASSUME TypeOK, NEW p \in Procs, Rollback(p)
    PROVE  TypeOK'
  BY ReturnType DEF Rollback, dbVars, TypeOK

LEMMA PublishType ==
    ASSUME TypeOK, NEW p \in Procs, Publish(p)
    PROVE  table' \in BOOLEAN /\ rows' \in SUBSET Names /\ effect' \in [Names -> Int]
<1>1. tx[p] \in TxType
  BY DEF TypeOK
<1> QED
  BY <1>1 DEF TypeOK, Publish, TxType

LEMMA GotoType ==
    ASSUME TypeOK, NEW p \in Procs, NEW l \in Labels, Goto(p, l),
           at' \in [Procs -> Nat], tx' \in [Procs -> TxType],
           \A q \in Procs : at'[q] <= Len(call[q].set)
    PROVE  TypeOK'
  BY DEF TypeOK, Goto

(* Every field of a transaction keeps its type when a statement adds to it. *)
LEMMA TxUpdateType ==
    ASSUME TypeOK, NEW p \in Procs
    PROVE  /\ [tx EXCEPT ![p].created = TRUE] \in [Procs -> TxType]
           /\ [tx EXCEPT ![p].locked = TRUE] \in [Procs -> TxType]
           /\ [tx EXCEPT ![p].dropped = TRUE] \in [Procs -> TxType]
           /\ \A n \in Names :
                /\ [tx EXCEPT ![p].ins = @ \cup {n}] \in [Procs -> TxType]
                /\ [tx EXCEPT ![p].del = @ \cup ({n} \cap rows)] \in [Procs -> TxType]
                /\ [tx EXCEPT ![p].ran[n] = @ + 1] \in [Procs -> TxType]
           /\ [at EXCEPT ![p] = @ + 1] \in [Procs -> Nat]
<1>1. tx \in [Procs -> TxType] /\ at \in [Procs -> Nat] /\ rows \subseteq Names
  BY DEF TypeOK
<1>2. tx[p] \in TxType
  BY <1>1
<1>3. \A n \in Names : [tx[p].ran EXCEPT ![n] = @ + 1] \in [Names -> Nat]
  BY <1>2 DEF TxType
<1>4. /\ [tx[p] EXCEPT !.created = TRUE] \in TxType
      /\ [tx[p] EXCEPT !.locked = TRUE] \in TxType
      /\ [tx[p] EXCEPT !.dropped = TRUE] \in TxType
      /\ \A n \in Names : [tx[p] EXCEPT !.ins = @ \cup {n}] \in TxType
      /\ \A n \in Names : [tx[p] EXCEPT !.del = @ \cup ({n} \cap rows)] \in TxType
      /\ \A n \in Names : [tx[p] EXCEPT !.ran[n] = @ + 1] \in TxType
  BY <1>1, <1>2, <1>3 DEF TxType
<1> QED
  BY <1>1, <1>4

(* The label of a session bounds its loop position.  Only this part of     *)
(* SessionShape is needed for types.                                       *)
InLoop ==
    \A p \in Procs :
        /\ pc[p] \in {"create", "createWait"} => at[p] = 0
        /\ pc[p] \in {"check", "run", "record"} => at[p] < Len(call[p].set)

LEMMA InitType == Init => TypeOK /\ InLoop
<1> SUFFICES ASSUME Init PROVE TypeOK /\ InLoop
  OBVIOUS
<1>1. table \in BOOLEAN /\ rows \in SUBSET Names
  BY DEF Init
<1>2. [op |-> "up", set |-> <<>>] \in CallType
  BY DEF CallType
<1>3. TypeOK
  BY <1>1, <1>2, NoTxType DEF Init, TypeOK, Labels
<1> QED
  BY <1>3 DEF Init, InLoop
LEMMA ReturnInLoop ==
    ASSUME TypeOK, InLoop, NEW p \in Procs, NEW r, Return(p, r)
    PROVE  InLoop'
  BY DEF TypeOK, Return, InLoop

(* A statement succeeds: on to label l, at position k.                     *)
LEMMA GotoInLoop ==
    ASSUME TypeOK, InLoop, NEW p \in Procs, NEW l \in Labels, Goto(p, l),
           NEW k \in Nat, at' = [at EXCEPT ![p] = k], tx' \in [Procs -> TxType],
           k <= Len(call[p].set),
           l \in {"create", "createWait"} => k = 0,
           l \in {"check", "run", "record"} => k < Len(call[p].set)
    PROVE  TypeOK' /\ InLoop'
<1>1. TypeOK'
  BY GotoType DEF TypeOK
<1>2. InLoop'
  BY DEF TypeOK, Goto, InLoop
<1> QED
  BY <1>1, <1>2

LEMMA GotoLoopLabel ==
    ASSUME TypeOK, InLoop, NEW p \in Procs, NEW k \in Nat, Goto(p, LoopLabel(p, k)),
           at' = [at EXCEPT ![p] = k], tx' \in [Procs -> TxType],
           k <= Len(call[p].set)
    PROVE  TypeOK' /\ InLoop'
<1>1. /\ LoopLabel(p, k) \in Labels
      /\ LoopLabel(p, k) \notin {"create", "createWait"}
      /\ LoopLabel(p, k) \in {"check", "run", "record"} => k < Len(call[p].set)
  BY DEF LoopLabel, Labels
<1> QED
  BY <1>1, GotoInLoop

LEMMA StatementType ==
    ASSUME TypeOK, InLoop, NEW p \in Procs,
           Create(p) \/ CreateResumes(p) \/ Check(p) \/ RunQuery(p)
             \/ Insert(p) \/ Delete(p) \/ CheckEmpty(p) \/ Drop(p)
    PROVE  TypeOK' /\ InLoop'
<1>1. /\ tx \in [Procs -> TxType]
      /\ at[p] \in Nat
      /\ at[p] + 1 \in Nat
      /\ at[p] <= Len(call[p].set)
      /\ Len(call[p].set) \in Nat
      /\ 0 <= Len(call[p].set)
      /\ at[p] < Len(call[p].set) => at[p] + 1 <= Len(call[p].set)
      /\ at = [at EXCEPT ![p] = at[p]]
      /\ pc[p] \in {"create", "createWait"} => at = [at EXCEPT ![p] = 0]
      /\ [at EXCEPT ![p] = @ + 1] = [at EXCEPT ![p] = at[p] + 1]
  BY DEF TypeOK, InLoop, CallType
<1>2. ASSUME Rollback(p) PROVE TypeOK' /\ InLoop'
  BY <1>2, RollbackType, ReturnInLoop DEF Rollback
<1>3. pc[p] \in {"check", "run", "record"} => Current(p) \in Names /\ at[p] < Len(call[p].set)
  BY CurrentType DEF InLoop
<1>4. CASE Create(p)
  <2>1. at' = [at EXCEPT ![p] = 0]
    BY <1>1, <1>4 DEF Create
  <2>2. tx' = tx \/ tx' = [tx EXCEPT ![p].created = TRUE]
    BY <1>4 DEF Create
  <2>3. tx' \in [Procs -> TxType]
    <3>1. [tx EXCEPT ![p].created = TRUE] \in [Procs -> TxType]
      BY TxUpdateType
    <3> QED
      BY <1>1, <2>2, <3>1
  <2>4. CASE Goto(p, LoopLabel(p, 0))
    BY <1>1, <2>1, <2>3, <2>4, GotoLoopLabel
  <2>5. CASE Goto(p, "createWait")
    BY <1>1, <2>1, <2>3, <2>5, GotoInLoop DEF Labels
  <2> QED
    BY <1>4, <2>4, <2>5 DEF Create
<1>5. CASE CreateResumes(p)
  <2>1. CASE Rollback(p)
    BY <1>2, <2>1
  <2>2. CASE Goto(p, LoopLabel(p, 0)) /\ tx' = [tx EXCEPT ![p].created = TRUE] /\ UNCHANGED at
    <3>1. pc[p] = "createWait"
      BY <1>5 DEF CreateResumes
    <3>2. at' = [at EXCEPT ![p] = 0]
      BY <1>1, <2>2, <3>1
    <3>3. tx' \in [Procs -> TxType]
      BY <2>2, TxUpdateType
    <3> QED
      BY <1>1, <2>2, <3>2, <3>3, GotoLoopLabel
  <2> QED
    BY <1>5, <2>1, <2>2 DEF CreateResumes
<1>6. CASE Check(p)
  <2>1. CASE Rollback(p)
    BY <1>2, <2>1
  <2>2. CASE tx' = [tx EXCEPT ![p].locked = TRUE] /\ Goto(p, "run") /\ UNCHANGED at
    <3>1. tx' \in [Procs -> TxType] /\ "run" \in Labels
      BY <2>2, TxUpdateType DEF Labels
    <3>2. at' = [at EXCEPT ![p] = at[p]] /\ at[p] < Len(call[p].set)
      BY <1>1, <1>3, <1>6, <2>2 DEF Check
    <3> QED
      BY <1>1, <2>2, <3>1, <3>2, GotoInLoop
  <2>3. CASE /\ tx' = [tx EXCEPT ![p].locked = TRUE]
             /\ Goto(p, LoopLabel(p, at[p] + 1))
             /\ at' = [at EXCEPT ![p] = @ + 1]
    BY <1>1, <1>3, <1>6, <2>3, TxUpdateType, GotoLoopLabel DEF Check
  <2> QED
    BY <1>6, <2>1, <2>2, <2>3 DEF Check
<1>7. CASE RunQuery(p)
  <2>1. tx' \in [Procs -> TxType] /\ "record" \in Labels
    BY <1>3, <1>7, TxUpdateType DEF RunQuery, Labels
  <2>2. at' = [at EXCEPT ![p] = at[p]] /\ at[p] < Len(call[p].set)
    BY <1>1, <1>3, <1>7 DEF RunQuery
  <2> QED
    BY <1>1, <1>7, <2>1, <2>2, GotoInLoop DEF RunQuery
<1>8. CASE Insert(p)
  <2>1. CASE Rollback(p)
    BY <1>2, <2>1
  <2>2. CASE /\ tx' = [tx EXCEPT ![p].ins = @ \cup {Current(p)}]
             /\ Goto(p, LoopLabel(p, at[p] + 1))
             /\ at' = [at EXCEPT ![p] = @ + 1]
    <3>1. tx' \in [Procs -> TxType]
      BY <1>3, <1>8, <2>2, TxUpdateType DEF Insert
    <3> QED
      BY <1>1, <1>3, <1>8, <2>2, <3>1, GotoLoopLabel DEF Insert
  <2> QED
    BY <1>8, <2>1, <2>2 DEF Insert
<1>9. CASE Delete(p)
  <2>1. tx' \in [Procs -> TxType]
    BY <1>3, <1>9, TxUpdateType DEF Delete
  <2> QED
    BY <1>1, <1>3, <1>9, <2>1, GotoLoopLabel DEF Delete
<1>10. CASE CheckEmpty(p)
  <2>1. CASE Rollback(p)
    BY <1>2, <2>1
  <2>2. ASSUME NEW l \in {"drop", "commit"}, Goto(p, l), UNCHANGED at,
               tx' = [tx EXCEPT ![p].locked = TRUE]
        PROVE  TypeOK' /\ InLoop'
    <3>1. tx' \in [Procs -> TxType] /\ l \in Labels
      BY <2>2, TxUpdateType DEF Labels
    <3> QED
      BY <1>1, <2>2, <3>1, GotoInLoop
  <2> QED
    BY <1>10, <2>1, <2>2 DEF CheckEmpty
<1>11. CASE Drop(p)
  <2>1. tx' \in [Procs -> TxType] /\ "commit" \in Labels
    BY <1>11, TxUpdateType DEF Drop, Labels
  <2>2. at' = [at EXCEPT ![p] = at[p]] /\ Goto(p, "commit")
    BY <1>1, <1>11 DEF Drop
  <2> QED
    BY <1>1, <2>1, <2>2, GotoInLoop
<1> QED
  BY <1>4, <1>5, <1>6, <1>7, <1>8, <1>9, <1>10, <1>11

LEMMA NextType == TypeOK /\ InLoop /\ [Next]_vars => TypeOK' /\ InLoop'
<1> SUFFICES ASSUME TypeOK, InLoop, [Next]_vars PROVE TypeOK' /\ InLoop'
  OBVIOUS
<1>1. CASE UNCHANGED vars
  BY <1>1 DEF vars, TypeOK, InLoop
<1>2. ASSUME NEW p \in Procs, Start(p) PROVE TypeOK' /\ InLoop'
  <2>1. Calls[p] \subseteq CallType
    BY CallsAssumption
  <2> QED
    BY <1>2, <2>1 DEF Start, TypeOK, InLoop, Labels
<1>3. ASSUME NEW p \in Procs, Return(p, "ok") \/ Return(p, "err") \/ Return(p, "none"),
             Publish(p) \/ UNCHANGED dbVars
      PROVE  TypeOK' /\ InLoop'
  <2>1. table' \in BOOLEAN /\ rows' \in SUBSET Names /\ effect' \in [Names -> Int]
    BY <1>3, PublishType DEF dbVars, TypeOK
  <2>2. InLoop'
    BY <1>3, ReturnInLoop
  <2> QED
    BY <1>3, <2>1, <2>2, ReturnType DEF TypeOK
<1>4. ASSUME NEW p \in Procs, Commit(p) \/ Settle(p) \/ Fail(p) \/ DeadlockVictim(p) \/ Crash(p)
      PROVE  TypeOK' /\ InLoop'
  BY <1>3, <1>4 DEF Commit, Settle, Fail, DeadlockVictim, Crash, Rollback
<1>5. ASSUME NEW p \in Procs, CommitFails(p) PROVE TypeOK' /\ InLoop'
  <2>1. CASE Rollback(p)
    BY <1>3, <2>1 DEF Rollback
  <2>2. CASE /\ pc' = [pc EXCEPT ![p] = "inDoubt"]
             /\ result' = [result EXCEPT ![p] = "err"]
             /\ UNCHANGED <<table, rows, effect, call, at, tx, made>>
    <3>1. TypeOK'
      BY <2>2 DEF TypeOK, Labels
    <3>2. InLoop'
      BY <2>2 DEF TypeOK, InLoop
    <3> QED
      BY <3>1, <3>2
  <2> QED
    BY <1>5, <2>1, <2>2 DEF CommitFails
<1> QED
  BY <1>1, <1>2, <1>4, <1>5, StatementType DEF Next, Step

(* Type correctness, whatever the calls and however they overlap: in       *)
(* particular the loop never reads past its set in either direction.       *)
THEOREM TypeCorrect == Spec => []TypeOK
<1>1. Spec => [](TypeOK /\ InLoop)
  BY InitType, NextType, PTL DEF Spec
<1> QED
  BY <1>1, PTL

-----------------------------------------------------------------------------
(* Down overlaps Up and other Downs, as long as no two processes revert    *)
(* one migration.                                                          *)

DisjointReverts ==
    \A p, q \in Procs : \A c \in Calls[p], e \in Calls[q] :
        p # q /\ c.op = "down" /\ e.op = "down" => NamesOf(c) \cap NamesOf(e) = {}

Reverts(p) == IF IsUp(p) THEN {} ELSE NamesOf(call[p])

CallMade(p) == IsUp(p) \/ call[p] \in Calls[p]

(* What the transaction of p holds at its statement.                       *)
Holding(p) ==
    /\ pc[p] \in {"idle", "create", "createWait"} => tx[p] = NoTx
    /\ pc[p] \in {"run", "record", "drop"} => tx[p].locked
    /\ tx[p].del # {} \/ tx[p].dropped => tx[p].locked
    /\ pc[p] \in {"empty", "drop"} => ~ IsUp(p)
    /\ IF IsUp(p) THEN tx[p].del = {} /\ ~ tx[p].dropped
                  ELSE tx[p].ins = {} /\ tx[p].del \subseteq rows \cap Reverts(p)

(* An Up has run what it records at least once, a Down what it deletes     *)
(* exactly once; the row it is about to delete is there.                   *)
Counted(p) ==
    LET pending == IF pc[p] = "record" THEN {Current(p)} ELSE {} IN
    IF IsUp(p)
    THEN \A n \in tx[p].ins \cup pending : tx[p].ran[n] >= 1
    ELSE /\ \A n \in Names :
              tx[p].ran[n] = IF n \in tx[p].del \cup pending THEN 1 ELSE 0
         /\ pc[p] \in {"run", "record"} => Current(p) \in rows \ tx[p].del

(* Only one session creates the table, and only a table that is not there; *)
(* a session locks a table it sees.                                        *)
Placed(p) ==
    /\ tx[p].created => ~ table
    /\ tx[p].locked => table \/ tx[p].created

Apart(p, q) ==
    /\ ~ (tx[p].created /\ tx[q].created)
    /\ tx[q].dropped => ~ tx[p].locked

InEffect == \A n \in Names : effect[n] >= (IF n \in rows THEN 1 ELSE 0)

Sound(p) == CallMade(p) /\ Holding(p) /\ Counted(p) /\ Placed(p)

OverlapInv ==
    /\ \A p \in Procs : Sound(p)
    /\ \A p, q \in Procs : p # q => Apart(p, q)
    /\ InEffect

LEMMA RevertsApart ==
    ASSUME DisjointReverts, TypeOK, OverlapInv, NEW p \in Procs, NEW q \in Procs, p # q
    PROVE  Reverts(p) \cap Reverts(q) = {}
<1>1. \A s \in Procs : IsUp(s) \/ (call[s] \in Calls[s] /\ call[s].op = "down")
  BY DEF OverlapInv, Sound, CallMade, IsUp, TypeOK, CallType
<1> QED
  BY <1>1 DEF DisjointReverts, Reverts

LEMMA CurrentReverts ==
    ASSUME TypeOK, NEW p \in Procs, at[p] < Len(call[p].set), ~ IsUp(p)
    PROVE  Current(p) \in Reverts(p)
<1>1. call[p].set \in Seq(Names) /\ at[p] \in Nat
  BY DEF TypeOK, CallType
<1>2. Len(call[p].set) - at[p] \in DOMAIN call[p].set
  BY <1>1
<1> QED
  BY <1>2 DEF Current, Reverts, NamesOf

LEMMA InitOverlap == Init => OverlapInv
<1> SUFFICES ASSUME Init PROVE OverlapInv
  OBVIOUS
<1>1. ASSUME NEW p \in Procs PROVE Sound(p)
  BY <1>1 DEF Init, Sound, CallMade, Holding, Counted, Placed, NoTx, IsUp
<1> QED
  BY <1>1 DEF Init, OverlapInv, Apart, InEffect, NoTx

(* A session that is not moved keeps what is said of it if the rows it     *)
(* holds stay and the table stays in sight.                                *)
LEMMA OtherSound ==
    ASSUME NEW q \in Procs, Sound(q), UNCHANGED <<pc[q], call[q], at[q], tx[q]>>,
           tx[q].created => ~ table',
           tx[q].locked => table' \/ tx[q].created,
           ~ IsUp(q) /\ tx[q].locked => rows \cap Reverts(q) \subseteq rows',
           ~ IsUp(q) /\ pc[q] \in {"run", "record"} => Current(q) \in Reverts(q)
    PROVE  Sound(q)'
<1>1. IsUp(q)' = IsUp(q) /\ Current(q)' = Current(q) /\ Reverts(q)' = Reverts(q)
  BY DEF IsUp, Current, Reverts
<1>2. CallMade(q)' /\ Placed(q)'
  BY <1>1 DEF Sound, CallMade, Placed
<1>3. Holding(q)'
  BY <1>1 DEF Sound, Holding
<1>4. Counted(q)'
  BY <1>1 DEF Sound, Counted, Holding
<1> QED
  BY <1>2, <1>3, <1>4 DEF Sound

(* A step of p inside its own transaction.                                 *)
LEMMA OwnStep ==
    ASSUME TypeOK, InLoop, OverlapInv, NEW p \in Procs, UNCHANGED dbVars, Sound(p)',
           \A q \in Procs \ {p} :
               /\ UNCHANGED <<pc[q], call[q], at[q], tx[q]>>
               /\ tx'[p].created => ~ tx[q].created
               /\ tx'[p].locked => ~ tx[q].dropped
               /\ tx'[p].dropped => ~ tx[q].locked
    PROVE  OverlapInv'
<1>1. ASSUME NEW q \in Procs \ {p} PROVE Sound(q)'
  <2>1. ~ IsUp(q) /\ pc[q] \in {"run", "record"} => Current(q) \in Reverts(q)
    BY CurrentReverts DEF InLoop
  <2> QED
    BY <2>1, OtherSound DEF OverlapInv, Sound, Placed, dbVars
<1>2. \A q, r \in Procs : q # r => Apart(q, r)'
  BY DEF OverlapInv, Apart
<1>3. InEffect'
  BY DEF OverlapInv, InEffect, dbVars
<1> QED
  BY <1>1, <1>2, <1>3 DEF OverlapInv

LEMMA AbandonOverlap ==
    ASSUME TypeOK, InLoop, OverlapInv, NEW p \in Procs, NEW r,
           Return(p, r), UNCHANGED dbVars
    PROVE  OverlapInv'
<1>1. /\ pc'[p] = "idle" /\ tx'[p] = NoTx /\ UNCHANGED <<call, at>>
      /\ \A q \in Procs \ {p} : UNCHANGED <<pc[q], tx[q]>>
  BY DEF Return, TypeOK
<1>2. Sound(p)'
  BY <1>1 DEF OverlapInv, Sound, CallMade, Holding, Counted, Placed, NoTx, IsUp
<1> QED
  BY <1>1, <1>2, OwnStep DEF NoTx

LEMMA StartOverlap ==
    ASSUME TypeOK, InLoop, OverlapInv, NEW p \in Procs, Start(p)
    PROVE  OverlapInv'
<1>1. /\ pc'[p] = "create" /\ tx' = tx /\ tx[p] = NoTx /\ call'[p] \in Calls[p]
      /\ \A q \in Procs \ {p} : UNCHANGED <<pc[q], call[q], at[q], tx[q]>>
  BY DEF Start, TypeOK, OverlapInv, Sound, Holding
<1>2. Sound(p)'
  BY <1>1 DEF Sound, CallMade, Holding, Counted, Placed, NoTx
<1> QED
  BY <1>1, <1>2, OwnStep DEF Start, dbVars, NoTx

(* A commit takes away only rows of migrations the session reverts, unless *)
(* it drops the table, which no other session has then locked.             *)
LEMMA PublishOverlap ==
    ASSUME DisjointReverts, TypeOK, InLoop, OverlapInv, NEW p \in Procs, NEW r,
           pc[p] \in {"commit", "inDoubt"}, Publish(p), Return(p, r)
    PROVE  OverlapInv'
<1>1. /\ pc'[p] = "idle" /\ tx'[p] = NoTx /\ UNCHANGED <<call, at>>
      /\ \A q \in Procs \ {p} : UNCHANGED <<pc[q], tx[q]>>
  BY DEF Return, TypeOK
<1>2. Sound(p)'
  BY <1>1 DEF OverlapInv, Sound, CallMade, Holding, Counted, Placed, NoTx, IsUp
<1>3. ASSUME NEW q \in Procs \ {p} PROVE Sound(q)'
  <2>1. /\ Sound(p) /\ Sound(q) /\ Apart(p, q) /\ Apart(q, p)
        /\ Reverts(p) \cap Reverts(q) = {}
    BY RevertsApart DEF OverlapInv
  <2>2. ~ IsUp(q) /\ pc[q] \in {"run", "record"} => Current(q) \in Reverts(q)
    BY CurrentReverts DEF InLoop
  <2>3. tx[q].created => ~ table'
    BY <2>1 DEF Sound, Placed, Apart, Publish
  <2>4. tx[q].locked => table' \/ tx[q].created
    BY <2>1 DEF Sound, Placed, Apart, Publish
  <2>5. tx[q].locked => rows' = (rows \ tx[p].del) \cup tx[p].ins
    BY <2>1 DEF Apart, Publish
  <2>6. tx[p].del \subseteq Reverts(p)
    BY <2>1 DEF Sound, Holding
  <2>7. tx[q].locked => rows \cap Reverts(q) \subseteq rows'
    BY <2>1, <2>5, <2>6
  <2> QED
    BY <1>1, <2>1, <2>2, <2>3, <2>4, <2>7, OtherSound
<1>4. \A q, s \in Procs : q # s => Apart(q, s)'
  BY <1>1 DEF OverlapInv, Apart, NoTx
<1>5. InEffect'
  <2>1. Sound(p) /\ tx[p] \in TxType /\ pc[p] # "record"
    BY DEF OverlapInv, TypeOK
  <2>2. \A n \in Names : effect[n] \in Int /\ tx[p].ran[n] \in Nat
    BY <2>1 DEF TypeOK, TxType
  <2>3. CASE IsUp(p)
    <3>1. rows' = rows \cup tx[p].ins
      BY <2>1, <2>3 DEF Publish, Sound, Holding
    <3>2. \A n \in Names : effect'[n] = effect[n] + tx[p].ran[n]
      BY <2>3 DEF Publish
    <3>3. \A n \in tx[p].ins : tx[p].ran[n] >= 1
      BY <2>1, <2>3 DEF Sound, Counted
    <3> QED
      BY <2>2, <3>1, <3>2, <3>3 DEF OverlapInv, InEffect
  <2>4. CASE ~ IsUp(p)
    <3>1. rows' \subseteq rows \ tx[p].del /\ tx[p].del \subseteq rows
      BY <2>1, <2>4 DEF Publish, Sound, Holding
    <3>2. \A n \in Names : effect'[n] = effect[n] - tx[p].ran[n]
      BY <2>4 DEF Publish
    <3>3. \A n \in Names : tx[p].ran[n] = IF n \in tx[p].del THEN 1 ELSE 0
      BY <2>1, <2>4 DEF Sound, Counted
    <3> QED
      BY <2>2, <3>1, <3>2, <3>3 DEF OverlapInv, InEffect
  <2> QED
    BY <2>3, <2>4
<1> QED
  BY <1>2, <1>3, <1>4, <1>5 DEF OverlapInv

(* A statement of p succeeds: on to label l, at position k, with t as its  *)
(* transaction.                                                            *)
LEMMA GotoOverlap ==
    ASSUME TypeOK, InLoop, OverlapInv, NEW p \in Procs, NEW l \in Labels, NEW k, NEW t,
           Goto(p, l), at' = [at EXCEPT ![p] = k], tx' = [tx EXCEPT ![p] = t],
           Holding(p)', Counted(p)',
           t.created => ~ table,
           t.locked => table \/ t.created,
           \A q \in Procs \ {p} :
               /\ t.created => ~ tx[q].created
               /\ t.locked => ~ tx[q].dropped
               /\ t.dropped => ~ tx[q].locked
    PROVE  OverlapInv'
<1>1. /\ tx'[p] = t /\ UNCHANGED <<call, dbVars>>
      /\ \A q \in Procs \ {p} : UNCHANGED <<pc[q], call[q], at[q], tx[q]>>
  BY DEF Goto, TypeOK, dbVars
<1>2. Sound(p)'
  BY <1>1 DEF OverlapInv, Sound, CallMade, Placed, IsUp, dbVars
<1> QED
  BY <1>1, <1>2, OwnStep

(* The fields of the transaction after a statement.                        *)
LEMMA TxAfter ==
    ASSUME TypeOK, NEW p \in Procs
    PROVE  /\ tx[p] \in TxType /\ tx = [tx EXCEPT ![p] = tx[p]]
           /\ at = [at EXCEPT ![p] = at[p]]
           /\ NoTx.del = {} /\ NoTx.ins = {} /\ ~ NoTx.created /\ ~ NoTx.locked
           /\ ~ NoTx.dropped /\ \A n \in Names : NoTx.ran[n] = 0
  BY DEF TypeOK, NoTx

LEMMA CreateOverlap ==
    ASSUME TypeOK, InLoop, OverlapInv, NEW p \in Procs, Create(p) \/ CreateResumes(p)
    PROVE  OverlapInv'
<1>1. /\ Sound(p) /\ tx[p] = NoTx /\ UNCHANGED <<table, call, rows>> /\ at' = at
      /\ NoTx.del = {} /\ NoTx.ins = {} /\ ~ NoTx.created /\ ~ NoTx.locked
      /\ ~ NoTx.dropped /\ \A n \in Names : NoTx.ran[n] = 0
  BY TxAfter DEF Create, CreateResumes, Goto, Return, Rollback, dbVars, OverlapInv, Sound, Holding
<1>2. ASSUME Rollback(p) PROVE OverlapInv'
  BY <1>2, AbandonOverlap DEF Rollback
<1>3. ASSUME Goto(p, "createWait"), UNCHANGED tx PROVE OverlapInv'
  <2>1. pc'[p] = "createWait" /\ tx'[p] = NoTx
    BY <1>1, <1>3 DEF Goto, TypeOK
  <2>2. Holding(p)' /\ Counted(p)'
    BY <1>1, <2>1 DEF Holding, Counted, IsUp, Sound
  <2> QED
    BY <1>1, <1>3, <2>2, GotoOverlap, TxAfter DEF Labels
<1>4. ASSUME NEW t \in {NoTx, [NoTx EXCEPT !.created = TRUE]}, Goto(p, LoopLabel(p, 0)),
             tx' = [tx EXCEPT ![p] = t],
             t.created => ~ table /\ \A q \in Procs \ {p} : ~ tx[q].created
      PROVE  OverlapInv'
  <2>1. /\ LoopLabel(p, 0) \in {"check", "commit", "empty"}
        /\ LoopLabel(p, 0) = "empty" => ~ IsUp(p)
    BY LoopLabelType
  <2>2. /\ tx'[p] = t /\ pc'[p] = LoopLabel(p, 0)
        /\ t.del = {} /\ t.ins = {} /\ ~ t.locked /\ ~ t.dropped /\ t.ran = NoTx.ran
    BY <1>1, <1>4 DEF Goto, TypeOK, NoTx
  <2>3. Holding(p)'
    BY <1>1, <2>1, <2>2 DEF Holding, IsUp
  <2>4. Counted(p)'
    BY <1>1, <2>1, <2>2 DEF Counted, IsUp
  <2>5. LoopLabel(p, 0) \in Labels /\ at' = [at EXCEPT ![p] = at[p]]
    BY <1>1, <2>1, TxAfter DEF Labels
  <2> QED
    BY <1>4, <2>2, <2>3, <2>4, <2>5, GotoOverlap
<1>5. [tx EXCEPT ![p].created = TRUE] = [tx EXCEPT ![p] = [NoTx EXCEPT !.created = TRUE]]
  BY <1>1
<1>6. \A q \in Procs \ {p} : pc[p] = "createWait" /\ WaitsFor(p) = {} => ~ tx[q].created
  BY DEF WaitsFor
<1>7. [NoTx EXCEPT !.created = TRUE].created = TRUE
  BY DEF NoTx
<1> QED
  BY <1>1, <1>2, <1>3, <1>4, <1>5, <1>6, <1>7, TxAfter DEF Create, CreateResumes

(* A SELECT locks a table that p sees, which no other session has dropped. *)
LEMMA LockOverlap ==
    ASSUME TypeOK, InLoop, OverlapInv, NEW p \in Procs,
           NEW l \in {"check", "run", "empty", "drop", "commit"}, Goto(p, l),
           pc[p] \in {"check", "empty"}, WaitsFor(p) = {}, TableVisible(p),
           at' = at \/ at' = [at EXCEPT ![p] = @ + 1],
           tx' = [tx EXCEPT ![p].locked = TRUE],
           l \in {"empty", "drop"} => ~ IsUp(p),
           l = "run" /\ ~ IsUp(p) => at' = at /\ Current(p) \in RowsVisible(p)
    PROVE  OverlapInv'
<1>1. Sound(p) /\ tx[p] \in TxType
  BY DEF OverlapInv, TypeOK
<1> DEFINE t == [tx[p] EXCEPT !.locked = TRUE]
<1>2. /\ tx' = [tx EXCEPT ![p] = t] /\ tx'[p] = t /\ pc'[p] = l
      /\ t.locked /\ t.created = tx[p].created /\ t.dropped = tx[p].dropped
      /\ t.ins = tx[p].ins /\ t.del = tx[p].del /\ t.ran = tx[p].ran
  BY <1>1 DEF Goto, TypeOK, TxType
<1> HIDE DEF t
<1>3. UNCHANGED <<table, rows, call>>
  BY DEF Goto
<1>4. Holding(p)'
  BY <1>1, <1>2, <1>3 DEF Sound, Holding, IsUp, Reverts
<1>5. Counted(p)'
  <2>1. l = "run" /\ ~ IsUp(p) => Current(p)' = Current(p)
    BY <1>3 DEF Current, IsUp
  <2>2. ~ IsUp(p) => tx[p].ins = {}
    BY <1>1 DEF Sound, Holding
  <2> QED
    BY <1>1, <1>2, <1>3, <2>1, <2>2 DEF Sound, Counted, IsUp, RowsVisible
<1>6. \A q \in Procs \ {p} : ~ tx[q].dropped
  <2>1. \A q \in Procs \ {p} : tx[q].dropped => tx[q].created
    BY DEF WaitsFor
  <2>2. \A q \in Procs \ {p} : tx[q].created => ~ table /\ ~ tx[p].created
    BY DEF OverlapInv, Sound, Placed, Apart
  <2> QED
    BY <2>1, <2>2 DEF TableVisible
<1>7. l \in Labels
  BY DEF Labels
<1>8. PICK k : at' = [at EXCEPT ![p] = k]
  BY TxAfter
<1> QED
  BY <1>2, <1>4, <1>5, <1>6, <1>7, <1>8, GotoOverlap
  DEF OverlapInv, Sound, Placed, Apart, TableVisible

LEMMA CheckOverlap ==
    ASSUME TypeOK, InLoop, OverlapInv, NEW p \in Procs, Check(p) \/ CheckEmpty(p)
    PROVE  OverlapInv'
<1>1. CASE Rollback(p)
  BY <1>1, AbandonOverlap DEF Rollback
<1>2. CASE Check(p) /\ ~ Rollback(p)
  <2>1. /\ pc[p] = "check" /\ WaitsFor(p) = {} /\ TableVisible(p)
        /\ tx' = [tx EXCEPT ![p].locked = TRUE]
    BY <1>2 DEF Check
  <2>2. CASE /\ Goto(p, "run") /\ UNCHANGED at
             /\ ~ IsUp(p) => Current(p) \in RowsVisible(p)
    BY <2>1, <2>2, LockOverlap
  <2>3. CASE Goto(p, LoopLabel(p, at[p] + 1)) /\ at' = [at EXCEPT ![p] = @ + 1]
    <3>1. /\ LoopLabel(p, at[p] + 1) \in {"check", "commit", "empty"}
          /\ LoopLabel(p, at[p] + 1) = "empty" => ~ IsUp(p)
      BY LoopLabelType DEF TypeOK
    <3> QED
      BY <2>1, <2>3, <3>1, LockOverlap
  <2> QED
    BY <1>2, <2>2, <2>3 DEF Check
<1>3. CASE CheckEmpty(p) /\ ~ Rollback(p)
  <2>1. pc[p] = "empty" /\ ~ IsUp(p)
    BY <1>3 DEF CheckEmpty, OverlapInv, Sound, Holding
  <2> QED
    BY <1>3, <2>1, LockOverlap DEF CheckEmpty
<1> QED
  BY <1>1, <1>2, <1>3

(* The table locks of p stay what they are.                                *)
LEMMA WriteOverlap ==
    ASSUME TypeOK, InLoop, OverlapInv, NEW p \in Procs, NEW l \in Labels, NEW k, NEW t,
           Goto(p, l), at' = [at EXCEPT ![p] = k], tx' = [tx EXCEPT ![p] = t],
           Holding(p)', Counted(p)',
           t.created = tx[p].created, t.locked = tx[p].locked, t.dropped = tx[p].dropped
    PROVE  OverlapInv'
<1>1. Placed(p) /\ \A q \in Procs \ {p} : Apart(p, q) /\ Apart(q, p)
  BY DEF OverlapInv, Sound
<1>2. (t.created => ~ table) /\ (t.locked => table \/ t.created)
  BY <1>1 DEF Placed
<1>3. \A q \in Procs \ {p} : /\ t.created => ~ tx[q].created
                             /\ t.locked => ~ tx[q].dropped
                             /\ t.dropped => ~ tx[q].locked
  BY <1>1 DEF Apart
<1> QED
  BY <1>2, <1>3, GotoOverlap

LEMMA RunQueryOverlap ==
    ASSUME TypeOK, InLoop, OverlapInv, NEW p \in Procs, RunQuery(p)
    PROVE  OverlapInv'
<1>1. /\ Sound(p) /\ tx[p] \in TxType /\ pc[p] = "run" /\ Current(p) \in Names
      /\ UNCHANGED <<rows, call, at>>
  BY CurrentType DEF OverlapInv, TypeOK, RunQuery, InLoop, Goto
<1> DEFINE t == [tx[p] EXCEPT !.ran[Current(p)] = @ + 1]
<1>2. /\ tx' = [tx EXCEPT ![p] = t] /\ tx'[p] = t /\ pc'[p] = "record"
      /\ t.locked = tx[p].locked /\ t.created = tx[p].created /\ t.dropped = tx[p].dropped
      /\ t.ins = tx[p].ins /\ t.del = tx[p].del
      /\ t.ran = [tx[p].ran EXCEPT ![Current(p)] = @ + 1]
  BY <1>1 DEF RunQuery, Goto, TypeOK, TxType
<1> HIDE DEF t
<1>3. Current(p)' = Current(p) /\ IsUp(p)' = IsUp(p)
  BY <1>1 DEF Current, IsUp
<1>4. Holding(p)'
  BY <1>1, <1>2, <1>3 DEF Sound, Holding, Reverts
<1>5. Counted(p)'
  <2>1. tx[p].ran \in [Names -> Nat] /\ tx[p].ins \subseteq Names
    BY <1>1 DEF TxType
  <2>2. t.ran[Current(p)] = tx[p].ran[Current(p)] + 1
    BY <1>1, <1>2, <2>1
  <2>3. \A n \in Names \ {Current(p)} : t.ran[n] = tx[p].ran[n]
    BY <1>2, <2>1
  <2>4. CASE IsUp(p)
    <3>1. \A n \in tx[p].ins : tx[p].ran[n] >= 1
      BY <1>1, <2>4 DEF Sound, Counted
    <3>2. \A n \in tx[p].ins \cup {Current(p)} : t.ran[n] >= 1
      BY <1>1, <2>1, <2>2, <2>3, <3>1
    <3> QED
      BY <1>2, <1>3, <2>4, <3>2 DEF Counted
  <2>5. CASE ~ IsUp(p)
    <3>1. /\ \A n \in Names : tx[p].ran[n] = IF n \in tx[p].del THEN 1 ELSE 0
          /\ Current(p) \in rows \ tx[p].del
      BY <1>1, <2>5 DEF Sound, Counted
    <3>2. \A n \in Names : t.ran[n] = IF n \in tx[p].del \cup {Current(p)} THEN 1 ELSE 0
      BY <1>1, <2>2, <2>3, <3>1
    <3> QED
      BY <1>1, <1>2, <1>3, <2>5, <3>1, <3>2 DEF Counted
  <2> QED
    BY <2>4, <2>5
<1>6. at' = [at EXCEPT ![p] = at[p]] /\ "record" \in Labels
  BY <1>1, TxAfter DEF Labels
<1> QED
  BY <1>2, <1>4, <1>5, <1>6, WriteOverlap DEF RunQuery

LEMMA RecordOverlap ==
    ASSUME TypeOK, InLoop, OverlapInv, NEW p \in Procs, Insert(p) \/ Delete(p)
    PROVE  OverlapInv'
<1>1. CASE Rollback(p)
  BY <1>1, AbandonOverlap DEF Rollback
<1>2. /\ Sound(p) /\ tx[p] \in TxType /\ pc[p] = "record" /\ Current(p) \in Names
      /\ LoopLabel(p, at[p] + 1) \in {"check", "commit", "empty"}
      /\ LoopLabel(p, at[p] + 1) = "empty" => ~ IsUp(p)
      /\ ~ IsUp(p) => Current(p) \in Reverts(p)
  <2>1. pc[p] = "record" /\ Sound(p) /\ tx[p] \in TxType /\ at[p] + 1 \in Nat
    BY DEF OverlapInv, TypeOK, Insert, Delete
  <2>2. at[p] < Len(call[p].set)
    BY <2>1 DEF InLoop
  <2> QED
    BY <2>1, <2>2, CurrentType, CurrentReverts, LoopLabelType
<1>3. ASSUME NEW ins, NEW del,
             ins = IF IsUp(p) THEN tx[p].ins \cup {Current(p)} ELSE tx[p].ins,
             del = IF IsUp(p) THEN tx[p].del ELSE tx[p].del \cup ({Current(p)} \cap rows),
             tx' = [tx EXCEPT ![p] = [tx[p] EXCEPT !.ins = ins, !.del = del]],
             Goto(p, LoopLabel(p, at[p] + 1)), at' = [at EXCEPT ![p] = @ + 1]
      PROVE  OverlapInv'
  <2> DEFINE t == [tx[p] EXCEPT !.ins = ins, !.del = del]
  <2>1. /\ tx' = [tx EXCEPT ![p] = t] /\ tx'[p] = t
        /\ pc'[p] \in {"check", "commit", "empty"} /\ (pc'[p] = "empty" => ~ IsUp(p))
        /\ t.locked = tx[p].locked /\ t.created = tx[p].created
        /\ t.dropped = tx[p].dropped
        /\ t.ins = ins /\ t.del = del /\ t.ran = tx[p].ran
    BY <1>2, <1>3 DEF Goto, TypeOK, TxType
  <2> HIDE DEF t
  <2>2. UNCHANGED <<rows, call>> /\ IsUp(p)' = IsUp(p) /\ Reverts(p)' = Reverts(p)
    BY <1>3 DEF Goto, IsUp, Reverts
  <2>3. Holding(p)'
    BY <1>2, <1>3, <2>1, <2>2 DEF Sound, Holding
  <2>4. Counted(p)'
    BY <1>2, <1>3, <2>1, <2>2 DEF Sound, Counted
  <2>5. LoopLabel(p, at[p] + 1) \in Labels /\ at' = [at EXCEPT ![p] = at[p] + 1]
    BY <1>2, <1>3 DEF Labels
  <2> QED
    BY <1>3, <2>1, <2>3, <2>4, <2>5, WriteOverlap
<1>4. CASE Insert(p) /\ ~ Rollback(p)
  <2>1. [tx EXCEPT ![p].ins = @ \cup {Current(p)}]
          = [tx EXCEPT ![p] = [tx[p] EXCEPT !.ins = tx[p].ins \cup {Current(p)},
                                            !.del = tx[p].del]]
    BY <1>2 DEF TypeOK, TxType
  <2> QED
    BY <1>3, <1>4, <2>1 DEF Insert
<1>5. CASE Delete(p)
  <2>1. [tx EXCEPT ![p].del = @ \cup ({Current(p)} \cap rows)]
          = [tx EXCEPT ![p] = [tx[p] EXCEPT !.ins = tx[p].ins,
                                !.del = tx[p].del \cup ({Current(p)} \cap rows)]]
    BY <1>2 DEF TypeOK, TxType
  <2> QED
    BY <1>3, <1>5, <2>1 DEF Delete
<1> QED
  BY <1>1, <1>4, <1>5

(* DROP TABLE waits until no other session has the table locked.           *)
LEMMA DropOverlap ==
    ASSUME TypeOK, InLoop, OverlapInv, NEW p \in Procs, Drop(p)
    PROVE  OverlapInv'
<1>1. Sound(p) /\ tx[p] \in TxType /\ UNCHANGED <<rows, call, at>> /\ pc[p] = "drop"
  BY DEF OverlapInv, TypeOK, Drop, Goto
<1> DEFINE t == [tx[p] EXCEPT !.dropped = TRUE]
<1>2. /\ tx' = [tx EXCEPT ![p] = t] /\ tx'[p] = t /\ pc'[p] = "commit"
      /\ t.locked = tx[p].locked /\ t.created = tx[p].created /\ t.dropped
      /\ t.ins = tx[p].ins /\ t.del = tx[p].del /\ t.ran = tx[p].ran
  BY <1>1 DEF Drop, Goto, TypeOK, TxType
<1> HIDE DEF t
<1>3. Holding(p)'
  BY <1>1, <1>2 DEF Sound, Holding, IsUp, Reverts
<1>4. Counted(p)'
  BY <1>1, <1>2 DEF Sound, Counted, IsUp
<1>5. Placed(p) /\ \A q \in Procs \ {p} : Apart(p, q) /\ Apart(q, p) /\ ~ tx[q].locked
  BY DEF OverlapInv, Sound, Drop, WaitsFor
<1>6. (t.created => ~ table) /\ (t.locked => table \/ t.created)
  BY <1>2, <1>5 DEF Placed
<1>7. \A q \in Procs \ {p} : /\ t.created => ~ tx[q].created
                             /\ t.locked => ~ tx[q].dropped
                             /\ t.dropped => ~ tx[q].locked
  BY <1>2, <1>5 DEF Apart
<1>8. at' = [at EXCEPT ![p] = at[p]] /\ "commit" \in Labels
  BY <1>1, TxAfter DEF Labels
<1>9. Goto(p, "commit")
  BY DEF Drop
<1> QED
  BY <1>2, <1>3, <1>4, <1>6, <1>7, <1>8, <1>9, GotoOverlap

LEMMA NextOverlap ==
    ASSUME DisjointReverts, TypeOK, InLoop, OverlapInv, [Next]_vars
    PROVE  OverlapInv'
<1>1. CASE UNCHANGED vars
  BY <1>1 DEF vars, OverlapInv, Sound, CallMade, Holding, Counted, Placed, Apart,
              InEffect, IsUp, Current, Reverts
<1>2. ASSUME NEW p \in Procs, NEW r, Return(p, r), UNCHANGED dbVars PROVE OverlapInv'
  BY <1>2, AbandonOverlap
<1>3. ASSUME NEW p \in Procs, Commit(p) \/ CommitFails(p) \/ Settle(p) PROVE OverlapInv'
  <2>1. CASE Publish(p) /\ (Commit(p) \/ Settle(p))
    BY <2>1, PublishOverlap DEF Commit, Settle
  <2>2. CASE /\ pc[p] = "commit" /\ pc' = [pc EXCEPT ![p] = "inDoubt"]
             /\ UNCHANGED <<table, rows, effect, call, at, tx>>
    <3>1. Sound(p)'
      BY <2>2 DEF TypeOK, OverlapInv, Sound, CallMade, Holding, Counted, Placed,
                  IsUp, Reverts
    <3> QED
      BY <2>2, <3>1, OwnStep DEF TypeOK, OverlapInv, Apart, dbVars
  <2> QED
    BY <1>2, <1>3, <2>1, <2>2 DEF Commit, CommitFails, Settle, Rollback
<1>4. ASSUME NEW p \in Procs, Fail(p) \/ DeadlockVictim(p) \/ Crash(p) PROVE OverlapInv'
  BY <1>2, <1>4 DEF Fail, DeadlockVictim, Crash, Rollback
<1> QED
  BY <1>1, <1>3, <1>4, StartOverlap, CreateOverlap, CheckOverlap, RunQueryOverlap,
     RecordOverlap, DropOverlap DEF Next, Step

(* A recorded migration is in effect for any number of processes, whose    *)
(* Downs overlap Ups and each other, as long as no two processes revert    *)
(* the same migration: Up never skips one that is not in effect.           *)
THEOREM RecordedStaysApplied == ASSUME DisjointReverts PROVE Spec => []RecordedIsApplied
<1>1. Init => TypeOK /\ InLoop /\ OverlapInv
  BY InitType, InitOverlap
<1>2. TypeOK /\ InLoop /\ OverlapInv /\ [Next]_vars => (TypeOK /\ InLoop /\ OverlapInv)'
  BY NextType, NextOverlap
<1>3. TypeOK /\ OverlapInv => RecordedIsApplied
  BY DEF TypeOK, OverlapInv, InEffect, RecordedIsApplied
<1> QED
  BY <1>1, <1>2, <1>3, PTL DEF Spec

-----------------------------------------------------------------------------
(* With an exclusive Down the ledger is exact: LedgerInv is inductive, and *)
(* the calls refine the atomic steps of MigrationLedger.                   *)

Session(p) == SessionShape(p) /\ RowsDisjoint(p) /\ RanOnce(p) /\ LoopDone(p)

(* A step of p that leaves the committed tables and the other sessions     *)
(* alone preserves the invariant if it preserves what is said of p.        *)
LEMMA LocalStep ==
    ASSUME TypeOK, LedgerInv, NEW p \in Procs,
           UNCHANGED <<rows, effect, call>>, pc[p] # "idle",
           \A q \in Procs \ {p} : pc'[q] = pc[q] /\ at'[q] = at[q] /\ tx'[q] = tx[q],
           Session(p)'
    PROVE  LedgerInv'
<1>1. ASSUME NEW q \in Procs \ {p} PROVE Session(q)'
  <2>1. Session(q) /\ q \in Procs
    BY <1>1 DEF LedgerInv, Session
  <2>2. UNCHANGED <<pc[q], at[q], tx[q], call[q], rows>>
    BY <1>1
  <2>3. SessionShape(q)'
    BY <2>1, <2>2 DEF Session, SessionShape, IsUp
  <2>4. RowsDisjoint(q)'
    BY <1>1, <2>1, <2>2 DEF Session, RowsDisjoint
  <2>5. RanOnce(q)'
    BY <2>1, <2>2 DEF Session, RanOnce, Current, IsUp
  <2>6. LoopDone(q)'
    BY <2>1, <2>2 DEF Session, LoopDone, IsUp
  <2> QED
    BY <2>3, <2>4, <2>5, <2>6 DEF Session
<1>2. DownAlone'
  BY DEF LedgerInv, DownAlone, IsUp
<1>3. LedgerExact'
  BY DEF LedgerInv, LedgerExact
<1> QED
  BY <1>1, <1>2, <1>3 DEF LedgerInv, Session

LEMMA InitLedger == Init => LedgerInv
<1> SUFFICES ASSUME Init PROVE LedgerInv
  OBVIOUS
<1>1. ASSUME NEW p \in Procs PROVE Session(p)
  BY <1>1 DEF Init, NoTx, Session, SessionShape, RowsDisjoint, RanOnce, LoopDone, IsUp
<1> QED
  BY <1>1 DEF Init, LedgerInv, Session, DownAlone, LedgerExact
(* A session that ends without committing leaves nothing behind.           *)
LEMMA AbandonStep ==
    ASSUME TypeOK, LedgerInv, NEW p \in Procs, NEW r, pc[p] # "idle",
           Return(p, r), UNCHANGED dbVars
    PROVE  LedgerInv'
<1>1. pc'[p] = "idle" /\ tx'[p] = NoTx
  BY DEF Return, TypeOK
<1>2. Session(p)'
  BY <1>1 DEF Session, SessionShape, RowsDisjoint, RanOnce, LoopDone, NoTx
<1>3. \A q \in Procs \ {p} : pc'[q] = pc[q] /\ at'[q] = at[q] /\ tx'[q] = tx[q]
  BY DEF Return, TypeOK
<1> QED
  BY <1>2, <1>3, LocalStep DEF Return, dbVars

LEMMA StartStep ==
    ASSUME ExclusiveDown, TypeOK, LedgerInv, NEW p \in Procs, Start(p)
    PROVE  LedgerInv'
<1>1. /\ tx'[p] = NoTx /\ pc'[p] = "create" /\ at'[p] = 0
      /\ UNCHANGED <<rows, effect, tx>>
      /\ \A q \in Procs \ {p} : UNCHANGED <<pc[q], at[q], call[q]>>
  BY DEF Start, TypeOK, LedgerInv, SessionShape
<1>2. Session(p)'
  BY <1>1 DEF Session, SessionShape, RowsDisjoint, RanOnce, LoopDone, NoTx
<1>3. ASSUME NEW q \in Procs \ {p} PROVE Session(q)'
  <2>1. Session(q) /\ q \in Procs
    BY <1>3 DEF LedgerInv, Session
  <2>2. UNCHANGED <<pc[q], at[q], tx[q], call[q], rows>>
    BY <1>1, <1>3
  <2> QED
    BY <1>1, <2>1, <2>2
    DEF Session, SessionShape, RowsDisjoint, RanOnce, LoopDone, Current, IsUp
<1>4. DownAlone'
  <2>1. PICK c \in Calls[p] : Admitted(c) /\ call' = [call EXCEPT ![p] = c]
    BY DEF Start
  <2>2. \A q \in Procs \ {p} : pc'[q] # "idle" => IsUp(p)' /\ IsUp(q)'
    BY <1>1, <2>1 DEF Admitted, IsUp, TypeOK
  <2>3. \A q, r \in Procs \ {p} :
           q # r /\ pc'[q] # "idle" /\ pc'[r] # "idle" => IsUp(q)' /\ IsUp(r)'
    BY <1>1 DEF LedgerInv, DownAlone, IsUp
  <2> QED
    BY <2>2, <2>3 DEF DownAlone
<1>5. LedgerExact'
  BY <1>1 DEF LedgerInv, LedgerExact
<1> QED
  BY <1>2, <1>3, <1>4, <1>5 DEF LedgerInv, Session

(* What a committing transaction does to the committed tables.             *)
LEMMA PublishEffect ==
    ASSUME TypeOK, LedgerInv, NEW p \in Procs, pc[p] \in {"commit", "inDoubt"}, Publish(p)
    PROVE  /\ tx[p].ins \subseteq Names /\ tx[p].del \subseteq rows
           /\ rows' = (rows \ tx[p].del) \cup tx[p].ins
           /\ tx[p].ins \cap rows = {}
           /\ IsUp(p) => tx[p].del = {}
           /\ ~ IsUp(p) => tx[p].ins = {}
           /\ \A n \in Names : effect'[n] =
                IF n \in tx[p].ins THEN effect[n] + 1
                ELSE IF n \in tx[p].del THEN effect[n] - 1 ELSE effect[n]
<1>1. Session(p) /\ tx[p] \in TxType
  BY DEF LedgerInv, Session, TypeOK
<1>2. /\ tx[p].ins \subseteq Names /\ tx[p].del \subseteq rows
      /\ tx[p].ins \cap rows = {}
      /\ IsUp(p) => tx[p].del = {} /\ ~ tx[p].dropped
      /\ ~ IsUp(p) => tx[p].ins = {}
      /\ tx[p].dropped => rows \subseteq tx[p].del
  BY <1>1 DEF Session, SessionShape, RowsDisjoint, TxType
<1>3. rows' = (rows \ tx[p].del) \cup tx[p].ins
  BY <1>2 DEF Publish
<1>4. \A n \in Names : tx[p].ran[n] = IF n \in tx[p].ins \cup tx[p].del THEN 1 ELSE 0
  BY <1>1 DEF Session, RanOnce
<1>5. \A n \in Names : effect'[n] = IF IsUp(p) THEN effect[n] + tx[p].ran[n]
                                               ELSE effect[n] - tx[p].ran[n]
  BY DEF Publish
<1>6. \A n \in Names : effect[n] \in Int
  BY DEF TypeOK
<1>7. \A n \in Names : effect'[n] =
         IF n \in tx[p].ins THEN effect[n] + 1
         ELSE IF n \in tx[p].del THEN effect[n] - 1 ELSE effect[n]
  BY <1>2, <1>4, <1>5, <1>6
<1> QED
  BY <1>2, <1>3, <1>7
(* A commit: the rows of the transaction become visible to the others,     *)
(* which are Ups that inserted other rows, or are idle.                    *)
LEMMA PublishStep ==
    ASSUME TypeOK, LedgerInv, NEW p \in Procs, NEW r,
           pc[p] \in {"commit", "inDoubt"}, Publish(p), Return(p, r)
    PROVE  LedgerInv'
<1>1. /\ tx[p].ins \subseteq Names /\ tx[p].del \subseteq rows
      /\ rows' = (rows \ tx[p].del) \cup tx[p].ins
      /\ tx[p].ins \cap rows = {}
      /\ IsUp(p) => tx[p].del = {}
      /\ ~ IsUp(p) => tx[p].ins = {}
      /\ \A n \in Names : effect'[n] =
           IF n \in tx[p].ins THEN effect[n] + 1
           ELSE IF n \in tx[p].del THEN effect[n] - 1 ELSE effect[n]
  BY PublishEffect
<1>2. /\ pc'[p] = "idle" /\ tx'[p] = NoTx
      /\ UNCHANGED <<call, at>>
      /\ \A q \in Procs \ {p} : UNCHANGED <<pc[q], tx[q]>>
  BY DEF Return, TypeOK
<1>3. Session(p)'
  BY <1>2 DEF Session, SessionShape, RowsDisjoint, RanOnce, LoopDone, NoTx
<1>4. ASSUME NEW q \in Procs \ {p} PROVE Session(q)'
  <2>1. Session(q) /\ q \in Procs /\ pc[p] # "idle"
    BY <1>4 DEF LedgerInv, Session
  <2>2. UNCHANGED <<pc[q], tx[q], at[q], call[q]>>
    BY <1>2, <1>4
  <2>3. CASE pc[q] = "idle"
    BY <2>1, <2>2, <2>3, <1>2
    DEF Session, SessionShape, RowsDisjoint, RanOnce, LoopDone, NoTx, IsUp
  <2>4. CASE pc[q] # "idle"
    <3>1. IsUp(p) /\ IsUp(q) /\ IsUp(q)'
      BY <1>4, <2>1, <2>2, <2>4 DEF LedgerInv, DownAlone, IsUp
    <3>2. rows \subseteq rows' /\ rows' = rows \cup tx[p].ins
      BY <1>1, <3>1
    <3>3. SessionShape(q)'
      BY <2>1, <2>2 DEF Session, SessionShape, IsUp
    <3>4. tx[q].del = {} /\ ~ tx[q].dropped /\ pc[q] # "drop"
      BY <2>1, <3>1 DEF Session, SessionShape
    <3>5. RowsDisjoint(q)'
      <4>1. tx[p].ins \cap tx[q].ins = {} /\ tx[q].ins \cap rows = {}
        BY <1>4, <2>1 DEF Session, RowsDisjoint
      <4>2. tx'[q].ins \cap rows' = {}
        BY <2>2, <3>2, <4>1
      <4>3. \A s \in Procs \ {q} : tx'[q].ins \cap tx'[s].ins = {}
        BY <1>2, <2>1, <2>2 DEF Session, RowsDisjoint, NoTx
      <4> QED
        BY <2>2, <3>4, <4>2, <4>3 DEF RowsDisjoint
    <3>6. RanOnce(q)'
      BY <2>1, <2>2, <3>1 DEF Session, RanOnce, Current, IsUp
    <3>7. LoopDone(q)'
      BY <2>1, <2>2, <3>1, <3>2 DEF Session, LoopDone
    <3> QED
      BY <3>3, <3>5, <3>6, <3>7 DEF Session
  <2> QED
    BY <2>3, <2>4
<1>5. DownAlone'
  BY <1>2 DEF LedgerInv, DownAlone, IsUp
<1>6. LedgerExact'
  BY <1>1 DEF LedgerInv, LedgerExact, TypeOK
<1> QED
  BY <1>3, <1>4, <1>5, <1>6 DEF LedgerInv, Session

(* A statement that neither ends the transaction nor touches committed     *)
(* rows moves only its own session.                                        *)
LEMMA GotoStep ==
    ASSUME TypeOK, LedgerInv, NEW p \in Procs, NEW l, NEW k, NEW t, pc[p] # "idle",
           Goto(p, l), at' = [at EXCEPT ![p] = k], tx' = [tx EXCEPT ![p] = t],
           Session(p)'
    PROVE  LedgerInv'
<1>1. \A q \in Procs \ {p} : pc'[q] = pc[q] /\ at'[q] = at[q] /\ tx'[q] = tx[q]
  BY DEF Goto, TypeOK
<1> QED
  BY <1>1, LocalStep DEF Goto
LEMMA LoopLabelShape ==
    ASSUME TypeOK, NEW p \in Procs, NEW k \in Nat, k =< Len(call[p].set)
    PROVE  /\ LoopLabel(p, k) \in {"check", "commit", "empty"}
           /\ LoopLabel(p, k) = "check" => k < Len(call[p].set)
           /\ LoopLabel(p, k) \in {"commit", "empty"} => k = Len(call[p].set)
           /\ LoopLabel(p, k) = "empty" => ~ IsUp(p)
<1>1. Len(call[p].set) \in Nat
  BY DEF TypeOK, CallType
<1> QED
  BY <1>1 DEF LoopLabel

(* Passing an element that is now recorded (Up) or unrecorded (Down).      *)
LEMMA AdvanceStep ==
    ASSUME TypeOK, LedgerInv, NEW p \in Procs, NEW t \in TxType,
           pc[p] \in {"check", "record"},
           Goto(p, LoopLabel(p, at[p] + 1)), at' = [at EXCEPT ![p] = at[p] + 1],
           tx' = [tx EXCEPT ![p] = t],
           tx[p].ins \subseteq t.ins, tx[p].del \subseteq t.del,
           t.ins \cap rows = {}, t.del \subseteq rows, ~ t.dropped,
           IsUp(p) => t.del = {}, ~ IsUp(p) => t.ins = {},
           \A q \in Procs \ {p} : t.ins \cap tx[q].ins = {},
           \A n \in Names : t.ran[n] = IF n \in t.ins \cup t.del THEN 1 ELSE 0,
           IF IsUp(p) THEN Current(p) \in rows \cup t.ins
                      ELSE Current(p) \notin rows \ t.del
    PROVE  LedgerInv'
<1>1. /\ at[p] \in Nat /\ call[p].set \in Seq(Names) /\ Len(call[p].set) \in Nat
      /\ at[p] < Len(call[p].set) /\ LoopDone(p) /\ Session(p)
  BY DEF TypeOK, LedgerInv, SessionShape, CallType, Session
<1> DEFINE l == LoopLabel(p, at[p] + 1)
<1>3. /\ l \in {"check", "commit", "empty"}
      /\ l = "check" => at[p] + 1 < Len(call[p].set)
      /\ l \in {"commit", "empty"} => at[p] + 1 = Len(call[p].set)
      /\ l = "empty" => ~ IsUp(p)
  BY <1>1, LoopLabelShape
<1>4. /\ pc'[p] = l /\ at'[p] = at[p] + 1 /\ tx'[p] = t
      /\ UNCHANGED <<call, rows>>
      /\ \A q \in Procs \ {p} : tx'[q] = tx[q]
  BY DEF Goto, TypeOK
<1> HIDE DEF l
<1>5. SessionShape(p)'
  BY <1>1, <1>3, <1>4 DEF SessionShape, IsUp
<1>6. RowsDisjoint(p)'
  BY <1>3, <1>4 DEF RowsDisjoint
<1>7. RanOnce(p)'
  BY <1>3, <1>4 DEF RanOnce
<1>8. LoopDone(p)'
  <2>1. ASSUME NEW i \in 1 .. at[p] + 1
        PROVE  IF IsUp(p) THEN call[p].set[i] \in rows \cup t.ins
               ELSE call[p].set[Len(call[p].set) + 1 - i] \notin rows \ t.del
    <3>1. CASE i = at[p] + 1
      <4>1. Len(call[p].set) + 1 - i = Len(call[p].set) - at[p]
        BY <1>1, <3>1
      <4> QED
        BY <3>1, <4>1 DEF Current
    <3>2. CASE i # at[p] + 1
      <4>1. i \in 1 .. at[p]
        BY <1>1, <3>2
      <4> QED
        BY <1>1, <4>1 DEF LoopDone
    <3> QED
      BY <3>1, <3>2
  <2> QED
    BY <1>4, <2>1 DEF LoopDone, IsUp
<1>9. Session(p)'
  BY <1>5, <1>6, <1>7, <1>8 DEF Session
<1> QED
  BY <1>1, <1>9, GotoStep
LEMMA CreateStep ==
    ASSUME TypeOK, LedgerInv, NEW p \in Procs, Create(p) \/ CreateResumes(p)
    PROVE  LedgerInv'
<1>1. /\ pc[p] \in {"create", "createWait"} /\ at[p] = 0 /\ tx[p] = NoTx
      /\ call[p].set \in Seq(Names) /\ Len(call[p].set) \in Nat /\ Session(p)
  BY DEF Create, CreateResumes, TypeOK, LedgerInv, SessionShape, CallType, Session
<1>2. CASE Rollback(p)
  BY <1>1, <1>2, AbandonStep DEF Rollback
<1>3. ASSUME NEW l \in {"createWait", LoopLabel(p, 0)}, NEW t,
             Goto(p, l), at' = at, tx' = [tx EXCEPT ![p] = t],
             t.ins = {}, t.del = {}, ~ t.dropped, \A n \in Names : t.ran[n] = 0,
             l = "createWait" => t = NoTx
      PROVE  LedgerInv'
  <2>1. pc'[p] = l /\ at'[p] = 0 /\ tx'[p] = t /\ call' = call /\ rows' = rows
    BY <1>1, <1>3 DEF Goto, TypeOK
  <2>2. /\ LoopLabel(p, 0) \in {"check", "commit", "empty"}
        /\ LoopLabel(p, 0) = "check" => 0 < Len(call[p].set)
        /\ LoopLabel(p, 0) \in {"commit", "empty"} => 0 = Len(call[p].set)
        /\ LoopLabel(p, 0) = "empty" => ~ IsUp(p)
    BY <1>1, LoopLabelShape
  <2>3. SessionShape(p)'
    BY <1>3, <2>1, <2>2 DEF SessionShape, IsUp
  <2>4. RowsDisjoint(p)'
    BY <1>3, <2>1, <2>2 DEF RowsDisjoint
  <2>5. RanOnce(p)'
    BY <1>3, <2>1, <2>2 DEF RanOnce
  <2>6. LoopDone(p)'
    BY <2>1 DEF LoopDone
  <2>7. at' = [at EXCEPT ![p] = at[p]]
    BY <1>3 DEF TypeOK
  <2> QED
    BY <1>1, <1>3, <2>3, <2>4, <2>5, <2>6, <2>7, GotoStep DEF Session
<1>4. tx = [tx EXCEPT ![p] = NoTx]
  BY <1>1 DEF TypeOK
<1>5. [tx EXCEPT ![p].created = TRUE] = [tx EXCEPT ![p] = [NoTx EXCEPT !.created = TRUE]]
  BY <1>1
<1>6. /\ NoTx.ins = {} /\ NoTx.del = {} /\ ~ NoTx.dropped
      /\ \A n \in Names : NoTx.ran[n] = 0
  BY DEF NoTx
<1> DEFINE creating == [NoTx EXCEPT !.created = TRUE]
<1>7. /\ creating.ins = {} /\ creating.del = {} /\ ~ creating.dropped
      /\ \A n \in Names : creating.ran[n] = 0
  BY DEF NoTx
<1>8. LoopLabel(p, 0) # "createWait"
  BY DEF LoopLabel
<1>9. CASE Create(p)
  <2>1. CASE Goto(p, LoopLabel(p, 0)) /\ UNCHANGED <<at, tx>>
    BY <1>3, <1>4, <1>6, <2>1
  <2>2. CASE Goto(p, LoopLabel(p, 0)) /\ UNCHANGED at /\ tx' = [tx EXCEPT ![p].created = TRUE]
    BY <1>3, <1>5, <1>7, <1>8, <2>2
  <2>3. CASE Goto(p, "createWait") /\ UNCHANGED <<at, tx>>
    BY <1>3, <1>4, <1>6, <2>3
  <2> QED
    BY <1>9, <2>1, <2>2, <2>3 DEF Create
<1>10. CASE CreateResumes(p)
  <2>1. CASE Goto(p, LoopLabel(p, 0)) /\ UNCHANGED at /\ tx' = [tx EXCEPT ![p].created = TRUE]
    BY <1>3, <1>5, <1>7, <1>8, <2>1
  <2> QED
    BY <1>2, <1>10, <2>1 DEF CreateResumes
<1> QED
  BY <1>9, <1>10

LEMMA CheckStep ==
    ASSUME TypeOK, LedgerInv, NEW p \in Procs, Check(p)
    PROVE  LedgerInv'
<1>1. /\ pc[p] = "check" /\ Session(p) /\ tx[p] \in TxType /\ at[p] \in Nat
      /\ Current(p) \in Names
  BY CurrentType DEF Check, TypeOK, LedgerInv, SessionShape, Session
<1>2. CASE Rollback(p)
  BY <1>1, <1>2, AbandonStep DEF Rollback
<1> DEFINE t == [tx[p] EXCEPT !.locked = TRUE]
           pending == IF IsUp(p) THEN Current(p) \notin RowsVisible(p)
                                 ELSE Current(p) \in RowsVisible(p)
<1>3. /\ t \in TxType /\ t.ins = tx[p].ins /\ t.del = tx[p].del
      /\ t.ran = tx[p].ran /\ t.dropped = tx[p].dropped
  BY <1>1 DEF TxType
<1>4. /\ t.ins \cap rows = {} /\ t.del \subseteq rows /\ ~ t.dropped
      /\ IsUp(p) => t.del = {}
      /\ ~ IsUp(p) => t.ins = {}
      /\ \A q \in Procs \ {p} : t.ins \cap tx[q].ins = {}
      /\ \A n \in Names : t.ran[n] = IF n \in t.ins \cup t.del THEN 1 ELSE 0
  BY <1>1, <1>3 DEF Session, SessionShape, RowsDisjoint, RanOnce
<1>5. pending <=> IF IsUp(p) THEN Current(p) \notin rows \cup t.ins
                             ELSE Current(p) \in rows \ t.del
  BY <1>3, <1>4 DEF RowsVisible
<1> HIDE DEF t, pending
<1>6. CASE pending /\ tx' = [tx EXCEPT ![p] = t] /\ Goto(p, "run") /\ UNCHANGED at
  <2>1. pc'[p] = "run" /\ tx'[p] = t /\ UNCHANGED <<rows, call, at>>
    BY <1>6 DEF Goto, TypeOK
  <2>2. \A q \in Procs \ {p} : tx'[q] = tx[q]
    BY <1>6 DEF TypeOK
  <2>3. SessionShape(p)' /\ LoopDone(p)'
    BY <1>1, <1>3, <1>4, <2>1 DEF Session, SessionShape, LoopDone, IsUp
  <2>4. RowsDisjoint(p)'
    BY <1>4, <2>1, <2>2 DEF RowsDisjoint
  <2>5. RanOnce(p)'
    BY <1>4, <1>5, <1>6, <2>1 DEF RanOnce, Current, IsUp
  <2>6. at' = [at EXCEPT ![p] = at[p]]
    BY <1>6 DEF TypeOK
  <2> QED
    BY <1>1, <1>6, <2>3, <2>4, <2>5, <2>6, GotoStep DEF Session
<1>7. CASE /\ ~ pending
           /\ tx' = [tx EXCEPT ![p] = t]
           /\ Goto(p, LoopLabel(p, at[p] + 1))
           /\ at' = [at EXCEPT ![p] = at[p] + 1]
  <2>1. IF IsUp(p) THEN Current(p) \in rows \cup t.ins ELSE Current(p) \notin rows \ t.del
    BY <1>5, <1>7
  <2> QED
    BY <1>1, <1>3, <1>4, <1>7, <2>1, AdvanceStep
<1> QED
  BY <1>2, <1>6, <1>7 DEF Check, t, pending
LEMMA RunQueryStep ==
    ASSUME TypeOK, LedgerInv, NEW p \in Procs, RunQuery(p)
    PROVE  LedgerInv'
<1>1. /\ pc[p] = "run" /\ Session(p) /\ tx[p] \in TxType /\ Current(p) \in Names
      /\ Goto(p, "record") /\ UNCHANGED at
  BY CurrentType DEF RunQuery, TypeOK, LedgerInv, SessionShape, Session
<1> DEFINE t == [tx[p] EXCEPT !.ran[Current(p)] = @ + 1]
<1>2. tx' = [tx EXCEPT ![p] = t]
  BY DEF RunQuery
<1>3. /\ t.ins = tx[p].ins /\ t.del = tx[p].del /\ t.dropped = tx[p].dropped
      /\ t.ran = [tx[p].ran EXCEPT ![Current(p)] = @ + 1]
  BY <1>1 DEF TxType
<1> HIDE DEF t
<1>4. /\ pc'[p] = "record" /\ tx'[p] = t /\ UNCHANGED <<rows, call, at>>
      /\ \A q \in Procs \ {p} : tx'[q] = tx[q]
      /\ at' = [at EXCEPT ![p] = at[p]]
  BY <1>1, <1>2 DEF Goto, TypeOK
<1>5. SessionShape(p)' /\ LoopDone(p)'
  BY <1>1, <1>3, <1>4 DEF Session, SessionShape, LoopDone, IsUp
<1>6. RowsDisjoint(p)'
  BY <1>1, <1>3, <1>4 DEF Session, RowsDisjoint
<1>7. RanOnce(p)'
  <2>1. /\ \A n \in Names : tx[p].ran[n] = IF n \in tx[p].ins \cup tx[p].del THEN 1 ELSE 0
        /\ Current(p) \notin tx[p].ins \cup tx[p].del
        /\ ~ IsUp(p) => Current(p) \in rows
    BY <1>1 DEF Session, RanOnce
  <2>2. tx[p].ran \in [Names -> Nat]
    BY <1>1 DEF TxType
  <2>3. \A n \in Names : t.ran[n] =
          IF n \in t.ins \cup t.del \cup {Current(p)} THEN 1 ELSE 0
    BY <1>1, <1>3, <2>1, <2>2
  <2>4. Current(p)' = Current(p) /\ IsUp(p)' = IsUp(p)
    BY <1>4 DEF Current, IsUp
  <2> QED
    BY <1>3, <1>4, <2>1, <2>3, <2>4 DEF RanOnce
<1> QED
  BY <1>1, <1>2, <1>4, <1>5, <1>6, <1>7, GotoStep DEF Session

LEMMA InsertStep ==
    ASSUME TypeOK, LedgerInv, NEW p \in Procs, Insert(p)
    PROVE  LedgerInv'
<1>1. /\ pc[p] = "record" /\ IsUp(p) /\ Session(p) /\ tx[p] \in TxType
      /\ Current(p) \in Names /\ WaitsFor(p) = {} /\ at[p] \in Nat
  BY CurrentType DEF Insert, TypeOK, LedgerInv, SessionShape, Session
<1>2. CASE Rollback(p)
  BY <1>1, <1>2, AbandonStep DEF Rollback
<1>3. CASE /\ Current(p) \notin RowsVisible(p)
           /\ tx' = [tx EXCEPT ![p].ins = @ \cup {Current(p)}]
           /\ Goto(p, LoopLabel(p, at[p] + 1))
           /\ at' = [at EXCEPT ![p] = at[p] + 1]
  <2> DEFINE t == [tx[p] EXCEPT !.ins = @ \cup {Current(p)}]
  <2>1. /\ t \in TxType /\ t.ins = tx[p].ins \cup {Current(p)} /\ t.del = tx[p].del
        /\ t.ran = tx[p].ran /\ t.dropped = tx[p].dropped
        /\ tx' = [tx EXCEPT ![p] = t]
    BY <1>1, <1>3 DEF TxType
  <2> HIDE DEF t
  <2>2. tx[p].del = {} /\ ~ tx[p].dropped
    BY <1>1 DEF Session, SessionShape
  <2>3. Current(p) \notin rows
    BY <1>3, <2>2 DEF RowsVisible
  <2>4. \A q \in Procs \ {p} : Current(p) \notin tx[q].ins
    BY <1>1 DEF WaitsFor
  <2>5. /\ t.ins \cap rows = {} /\ t.del \subseteq rows
        /\ \A q \in Procs \ {p} : t.ins \cap tx[q].ins = {}
    BY <1>1, <2>1, <2>2, <2>3, <2>4 DEF Session, RowsDisjoint
  <2>6. \A n \in Names : t.ran[n] = IF n \in t.ins \cup t.del THEN 1 ELSE 0
    BY <1>1, <2>1 DEF Session, RanOnce
  <2> QED
    BY <1>1, <1>3, <2>1, <2>2, <2>5, <2>6, AdvanceStep
<1> QED
  BY <1>2, <1>3 DEF Insert

LEMMA DeleteStep ==
    ASSUME TypeOK, LedgerInv, NEW p \in Procs, Delete(p)
    PROVE  LedgerInv'
<1>1. /\ pc[p] = "record" /\ ~ IsUp(p) /\ Session(p) /\ tx[p] \in TxType
      /\ Current(p) \in Names /\ at[p] \in Nat /\ rows \subseteq Names
  BY CurrentType DEF Delete, TypeOK, LedgerInv, SessionShape, Session
<1> DEFINE t == [tx[p] EXCEPT !.del = @ \cup ({Current(p)} \cap rows)]
<1>2. tx' = [tx EXCEPT ![p] = t] /\ Goto(p, LoopLabel(p, at[p] + 1))
      /\ at' = [at EXCEPT ![p] = at[p] + 1]
  BY DEF Delete
<1>3. Current(p) \in rows
  BY <1>1 DEF Session, RanOnce
<1>4. /\ t \in TxType /\ t.ins = tx[p].ins /\ t.del = tx[p].del \cup {Current(p)}
      /\ t.ran = tx[p].ran /\ t.dropped = tx[p].dropped
  BY <1>1, <1>3 DEF TxType
<1> HIDE DEF t
<1>5. /\ t.ins = {} /\ t.del \subseteq rows /\ ~ t.dropped
  BY <1>1, <1>3, <1>4 DEF Session, SessionShape, RowsDisjoint
<1>6. \A n \in Names : t.ran[n] = IF n \in t.ins \cup t.del THEN 1 ELSE 0
  BY <1>1, <1>4 DEF Session, RanOnce
<1> QED
  BY <1>1, <1>2, <1>4, <1>5, <1>6, AdvanceStep

LEMMA EmptyDropStep ==
    ASSUME TypeOK, LedgerInv, NEW p \in Procs, CheckEmpty(p) \/ Drop(p)
    PROVE  LedgerInv'
<1>1. /\ pc[p] \in {"empty", "drop"} /\ ~ IsUp(p) /\ Session(p) /\ tx[p] \in TxType
  BY DEF CheckEmpty, Drop, TypeOK, LedgerInv, SessionShape, Session
<1>2. CASE Rollback(p)
  BY <1>1, <1>2, AbandonStep DEF Rollback
<1>3. ASSUME NEW l \in {"drop", "commit"}, NEW t, Goto(p, l), UNCHANGED at,
             tx' = [tx EXCEPT ![p] = t],
             t.ins = tx[p].ins, t.del = tx[p].del, t.ran = tx[p].ran,
             l = "drop" \/ t.dropped => rows \subseteq t.del,
             t.dropped => l = "commit"
      PROVE  LedgerInv'
  <2>1. /\ pc'[p] = l /\ tx'[p] = t /\ UNCHANGED <<rows, call, at>>
        /\ \A q \in Procs \ {p} : tx'[q] = tx[q]
        /\ at' = [at EXCEPT ![p] = at[p]]
    BY <1>3 DEF Goto, TypeOK
  <2>2. SessionShape(p)'
    BY <1>1, <1>3, <2>1 DEF Session, SessionShape, IsUp
  <2>3. RowsDisjoint(p)'
    BY <1>1, <1>3, <2>1 DEF Session, RowsDisjoint
  <2>4. RanOnce(p)'
    BY <1>1, <1>3, <2>1 DEF Session, RanOnce
  <2>5. LoopDone(p)'
    BY <1>1, <1>3, <2>1 DEF Session, LoopDone, IsUp
  <2> QED
    BY <1>1, <1>3, <2>1, <2>2, <2>3, <2>4, <2>5, GotoStep DEF Session
<1>4. tx[p].ins = {} /\ ~ tx[p].dropped
  BY <1>1 DEF Session, SessionShape
<1>5. CASE /\ tx' = [tx EXCEPT ![p].locked = TRUE]
           /\ Goto(p, IF RowsVisible(p) = {} THEN "drop" ELSE "commit")
           /\ UNCHANGED at
  <2> DEFINE t == [tx[p] EXCEPT !.locked = TRUE]
             l == IF RowsVisible(p) = {} THEN "drop" ELSE "commit"
  <2>1. /\ t.ins = tx[p].ins /\ t.del = tx[p].del /\ t.ran = tx[p].ran
        /\ t.dropped = tx[p].dropped
    BY <1>1 DEF TxType
  <2>2. l = "drop" => rows \subseteq tx[p].del
    BY DEF RowsVisible
  <2> QED
    BY <1>3, <1>4, <1>5, <2>1, <2>2
<1>6. CASE Drop(p)
  <2> DEFINE t == [tx[p] EXCEPT !.dropped = TRUE]
  <2>1. t.ins = tx[p].ins /\ t.del = tx[p].del /\ t.ran = tx[p].ran
    BY <1>1 DEF TxType
  <2>2. rows \subseteq tx[p].del
    BY <1>1, <1>6 DEF Drop, Session, RowsDisjoint
  <2> QED
    BY <1>3, <1>6, <2>1, <2>2 DEF Drop
<1> QED
  BY <1>2, <1>5, <1>6 DEF CheckEmpty
LEMMA NextLedger ==
    ASSUME ExclusiveDown
    PROVE  TypeOK /\ LedgerInv /\ [Next]_vars => LedgerInv'
<1> SUFFICES ASSUME TypeOK, LedgerInv, [Next]_vars PROVE LedgerInv'
  OBVIOUS
<1>1. CASE UNCHANGED vars
  BY <1>1 DEF vars, LedgerInv, SessionShape, RowsDisjoint, RanOnce, LoopDone,
              DownAlone, LedgerExact, Current, IsUp
<1>2. ASSUME NEW p \in Procs, Start(p) PROVE LedgerInv'
  BY <1>2, StartStep
<1>3. ASSUME NEW p \in Procs, Commit(p) PROVE LedgerInv'
  BY <1>3, PublishStep DEF Commit
<1>4. ASSUME NEW p \in Procs, Rollback(p), pc[p] # "idle" PROVE LedgerInv'
  BY <1>4, AbandonStep DEF Rollback
<1>5. ASSUME NEW p \in Procs, CommitFails(p) PROVE LedgerInv'
  <2>1. CASE Rollback(p)
    BY <1>4, <1>5, <2>1 DEF CommitFails
  <2>2. CASE /\ pc' = [pc EXCEPT ![p] = "inDoubt"]
             /\ UNCHANGED <<table, rows, effect, call, at, tx, made>>
    <3>1. Session(p) /\ pc[p] = "commit" /\ pc'[p] = "inDoubt"
      BY <1>5, <2>2 DEF CommitFails, LedgerInv, Session, TypeOK
    <3>2. Session(p)'
      BY <2>2, <3>1
      DEF Session, SessionShape, RowsDisjoint, RanOnce, LoopDone, Current, IsUp
    <3>3. \A q \in Procs \ {p} : pc'[q] = pc[q] /\ at'[q] = at[q] /\ tx'[q] = tx[q]
      BY <2>2 DEF TypeOK
    <3> QED
      BY <2>2, <3>1, <3>2, <3>3, LocalStep
  <2> QED
    BY <1>5, <2>1, <2>2 DEF CommitFails
<1>6. ASSUME NEW p \in Procs, Settle(p) PROVE LedgerInv'
  <2>1. CASE Publish(p)
    BY <1>6, <2>1, PublishStep DEF Settle
  <2>2. CASE UNCHANGED dbVars
    BY <1>6, <2>2, AbandonStep DEF Settle
  <2> QED
    BY <1>6, <2>1, <2>2 DEF Settle
<1>7. ASSUME NEW p \in Procs, Crash(p) PROVE LedgerInv'
  BY <1>7, AbandonStep DEF Crash
<1>8. ASSUME NEW p \in Procs, Fail(p) PROVE LedgerInv'
  BY <1>4, <1>8 DEF Fail
<1>9. ASSUME NEW p \in Procs, DeadlockVictim(p) PROVE LedgerInv'
  <2>1. WaitsFor(p) # {}
    BY <1>9 DEF DeadlockVictim, Deadlocked
  <2>2. pc[p] # "idle"
    BY <2>1 DEF WaitsFor
  <2> QED
    BY <1>4, <1>9, <2>2 DEF DeadlockVictim
<1>10. ASSUME NEW p \in Procs, Step(p), ~ Commit(p), ~ CommitFails(p), ~ Settle(p)
       PROVE  LedgerInv'
  BY <1>10, CreateStep, CheckStep, RunQueryStep, InsertStep, DeleteStep, EmptyDropStep
  DEF Step
<1> QED
  BY <1>1, <1>2, <1>3, <1>5, <1>6, <1>7, <1>8, <1>9, <1>10 DEF Next

(* The ledger's inductive invariant, for every number of processes and of  *)
(* migrations, where Down runs while no other session is open.             *)
THEOREM LedgerInvariant == ASSUME ExclusiveDown PROVE Spec => [](TypeOK /\ LedgerInv)
<1>1. Init => TypeOK /\ LedgerInv
  BY InitType, InitLedger
<1>2. TypeOK /\ LedgerInv /\ [Next]_vars => (TypeOK /\ LedgerInv)'
  <2>1. TypeOK /\ LedgerInv => InLoop
    BY DEF LedgerInv, SessionShape, InLoop
  <2> QED
    BY <2>1, NextType, NextLedger
<1> QED
  BY <1>1, <1>2, PTL DEF Spec

(* If Down only runs alone, the migrations table records exactly the       *)
(* migrations in effect, for any number of concurrent Ups, in any order,   *)
(* with failures, crashes and lost acknowledgements at any statement.      *)
THEOREM LedgerIsExact == ASSUME ExclusiveDown PROVE Spec => []LedgerExact
<1>1. LedgerInv => LedgerExact
  BY DEF LedgerInv
<1> QED
  BY <1>1, LedgerInvariant, PTL
-----------------------------------------------------------------------------

(* Only Commit and Settle change the committed rows or effects, and a call *)
(* only returns nil by Commit.                                             *)
LEMMA CommittedChanges ==
    ASSUME TypeOK, Next
    PROVE  \/ UNCHANGED <<rows, effect>> /\ \A p \in Procs : result'[p] = "ok" => result[p] = "ok"
           \/ \E p \in Procs : Commit(p)
           \/ \E p \in Procs :
                /\ pc[p] = "inDoubt" /\ Publish(p)
                /\ \A q \in Procs : result'[q] = "ok" => result[q] = "ok"
<1>1. PICK p \in Procs : Start(p) \/ Step(p) \/ Fail(p) \/ DeadlockVictim(p) \/ Crash(p)
  BY DEF Next
<1>2. ASSUME NEW r \in {"err", "none"}, Return(p, r)
      PROVE  \A q \in Procs : result'[q] = "ok" => result[q] = "ok"
  BY <1>2 DEF Return, TypeOK
<1>3. ASSUME Rollback(p)
      PROVE  UNCHANGED <<rows, effect>> /\ \A q \in Procs : result'[q] = "ok" => result[q] = "ok"
  BY <1>2, <1>3 DEF Rollback, dbVars
<1>4. CASE Fail(p) \/ DeadlockVictim(p)
  BY <1>3, <1>4 DEF Fail, DeadlockVictim
<1>5. CASE Crash(p)
  BY <1>2, <1>5 DEF Crash, dbVars
<1>6. CASE Start(p)
  BY <1>6 DEF Start, TypeOK
<1>7. CASE Settle(p)
  BY <1>2, <1>7 DEF Settle, dbVars
<1>8. CASE CommitFails(p)
  <2>1. CASE Rollback(p)
    BY <1>3, <2>1
  <2>2. CASE result' = [result EXCEPT ![p] = "err"] /\ UNCHANGED <<rows, effect>>
    BY <2>2 DEF TypeOK
  <2> QED
    BY <1>8, <2>1, <2>2 DEF CommitFails
<1>9. ASSUME NEW l, Goto(p, l)
      PROVE  UNCHANGED <<rows, effect, result>>
  BY <1>9 DEF Goto
<1>10. CASE Create(p) \/ CreateResumes(p) \/ Check(p) \/ RunQuery(p)
              \/ Insert(p) \/ Delete(p) \/ CheckEmpty(p) \/ Drop(p)
  BY <1>3, <1>9, <1>10
  DEF Create, CreateResumes, Check, RunQuery, Insert, Delete, CheckEmpty, Drop
<1> QED
  BY <1>1, <1>4, <1>5, <1>6, <1>7, <1>8, <1>10 DEF Step

(* A call that returns nil has done to the ledger what its set says.       *)
THEOREM ReportsAreTrue == ASSUME ExclusiveDown PROVE Spec => ReportsHold
<1> DEFINE Report(p) == IF IsUp(p) THEN NamesOf(call[p]) \subseteq rows'
                                   ELSE NamesOf(call[p]) \cap rows' = {}
<1>1. ASSUME TypeOK, LedgerInv, NEW p \in Procs, Commit(p)
      PROVE  Report(p)
  <2>1. /\ pc[p] = "commit" /\ at[p] = Len(call[p].set) /\ LoopDone(p)
        /\ call[p].set \in Seq(Names)
    BY <1>1 DEF Commit, TypeOK, LedgerInv, SessionShape, CallType
  <2>2. /\ rows' = (rows \ tx[p].del) \cup tx[p].ins
        /\ IsUp(p) => tx[p].del = {}
        /\ ~ IsUp(p) => tx[p].ins = {}
    BY <1>1, PublishEffect DEF Commit
  <2> DEFINE s == call[p].set
  <2>3. ASSUME NEW i \in 1 .. Len(s)
        PROVE  IF IsUp(p) THEN s[i] \in rows' ELSE s[i] \notin rows'
    <3>1. i \in 1 .. at[p] /\ Len(s) + 1 - i \in 1 .. at[p]
          /\ Len(s) + 1 - (Len(s) + 1 - i) = i
      BY <2>1
    <3> QED
      BY <2>1, <2>2, <3>1 DEF LoopDone
  <2>4. NamesOf(call[p]) = {s[i] : i \in 1 .. Len(s)}
    BY <2>1 DEF NamesOf
  <2> QED
    BY <2>3, <2>4
<1>2. ASSUME TypeOK, LedgerInv, [Next]_vars, NEW p \in Procs,
             result[p] # "ok", result'[p] = "ok"
      PROVE  Report(p)
  <2>1. Next
    BY <1>2 DEF vars
  <2>2. PICK q \in Procs : Commit(q)
    BY <1>2, <2>1, CommittedChanges
  <2>3. p = q
    BY <1>2, <2>2 DEF Commit, Return, TypeOK
  <2> QED
    BY <1>1, <1>2, <2>2, <2>3
<1> DEFINE A == \A p \in Procs : result[p] # "ok" /\ result'[p] = "ok" => Report(p)
<1>3. TypeOK /\ LedgerInv /\ [Next]_vars => [A]_vars
  BY <1>2
<1> HIDE DEF Report
<1>4. Spec => [][A]_vars
  <2> HIDE DEF A
  <2> QED
    BY <1>3, LedgerInvariant, PTL DEF Spec
<1> QED
  BY <1>4 DEF ReportsHold, Report

(* The transactional Migrator implements the atomic MigrationLedger.       *)
THEOREM MigratorRefinesLedger == ASSUME ExclusiveDown PROVE Spec => LedgerRefined
<1>1. Init => Ledger!Init
  BY DEF Init, Ledger!Init, Ledger!Recorded
<1>2. ASSUME TypeOK, LedgerInv, NEW p \in Procs,
             pc[p] \in {"commit", "inDoubt"}, Publish(p)
      PROVE  Ledger!Next
  <2>1. /\ tx[p].ins \subseteq Names /\ tx[p].del \subseteq rows
        /\ rows' = (rows \ tx[p].del) \cup tx[p].ins
        /\ tx[p].ins \cap rows = {}
        /\ IsUp(p) => tx[p].del = {}
        /\ ~ IsUp(p) => tx[p].ins = {}
        /\ \A n \in Names : effect'[n] =
             IF n \in tx[p].ins THEN effect[n] + 1
             ELSE IF n \in tx[p].del THEN effect[n] - 1 ELSE effect[n]
    BY <1>2, PublishEffect
  <2>2. effect' = [n \in Names |-> effect'[n]]
    BY <1>2, PublishType
  <2>3. rows \subseteq Names
    BY <1>2 DEF TypeOK
  <2>4. CASE IsUp(p)
    BY <2>1, <2>2, <2>4 DEF Ledger!Next, Ledger!Up
  <2>5. CASE ~ IsUp(p)
    BY <2>1, <2>2, <2>3, <2>5 DEF Ledger!Next, Ledger!Down
  <2> QED
    BY <2>4, <2>5
<1>3. TypeOK /\ LedgerInv /\ [Next]_vars => [Ledger!Next]_(Ledger!ledgerVars)
  <2> SUFFICES ASSUME TypeOK, LedgerInv, [Next]_vars, ~ UNCHANGED <<rows, effect>>
               PROVE  Ledger!Next
    BY DEF Ledger!ledgerVars
  <2>1. Next
    BY DEF vars
  <2> QED
    BY <1>2, <2>1, CommittedChanges DEF Commit
<1> QED
  BY <1>1, <1>3, LedgerInvariant, PTL DEF Spec, LedgerRefined, Ledger!Spec
=============================================================================
