----------------------- MODULE TriggerCatalog_proofs -----------------------
(***************************************************************************)
(* Proofs about TriggerCatalog, for any processes, notifications and       *)
(* changes: the locks that Apply and DropSQL take keep the catalog intact, *)
(* and the calls implement the atomic steps of NotificationRegistry.       *)
(***************************************************************************)
EXTENDS TriggerCatalog, TLAPS

(* No two transactions have locked the same function or table.             *)
Exclusive == \A p, q \in Procs : p # q => owns[p] \cap owns[q] = {}

(* Apply has locked its function before it touches the table.              *)
HoldsFunction(p) ==
    pc[p] \in {"table", "trigger", "commit"} /\ call[p].op = "apply" =>
        FunctionLock(Target(p)) \in owns[p]

(* A function that is about to be dropped stays without dependents.        *)
DropIsSafe(p) ==
    pc[p] = "commit" /\ call[p].op = "drop" /\ FunctionLock(Target(p)) \in owns[p] =>
        ~HasDependents(Target(p))

(* Only Apply creates triggers, and only of what builds.                   *)
BuiltFirst(p) ==
    /\ pc[p] # "idle" /\ call[p].op = "apply" => Builds(Target(p))
    /\ pc[p] = "trigger" => call[p].op = "apply"

Session(p) == HoldsFunction(p) /\ DropIsSafe(p) /\ BuiltFirst(p)

(* Where the triggers come from: a notification that was applied, and if   *)
(* no names clash one that the application still counts on.                *)
Origins ==
    \A k \in Keys : triggers[k] # NoTrigger =>
        \E n \in everInstalled :
            /\ k = TriggerKey[n] /\ triggers[k] = TriggerOf[n]
            /\ Registry!ClashFree => n \in installed

AllBuilt == \A n \in everInstalled : Builds(n)

CatalogInv ==
    /\ TypeOK
    /\ Exclusive
    /\ \A p \in Procs : Session(p)
    /\ CatalogIntact
    /\ Origins
    /\ AllBuilt

-----------------------------------------------------------------------------
(* Names.                                                                  *)

(* Each notification has its function and its trigger.                     *)
LEMMA NamesOf ==
    ASSUME NEW n \in Notifs
    PROVE  /\ triggerFunctionName[n] \in Names /\ TriggerKey[n] \in Keys
           /\ FunctionOf[n] # NoFunction /\ TriggerOf[n] # NoTrigger
           /\ TriggerOf[n].function = triggerFunctionName[n]
           /\ TriggerOf[n].ops = Operations(n)
<1>1. triggerFunctionName[n] \in Names /\ TriggerKey[n] \in Keys
  BY DEF Names, Keys
<1>2. TriggerOf[n] = [ops |-> Operations(n), function |-> triggerFunctionName[n]]
  BY DEF TriggerOf
<1> QED BY <1>1, <1>2, NothingsAssumption

LEMMA ClashesOf ==
    ASSUME NEW n \in Notifs, NEW m \in Notifs
    PROVE  /\ <<n, m>> \in Clashes <=>
                 n # m /\ (\/ triggerFunctionName[n] = triggerFunctionName[m]
                           \/ TriggerKey[n] = TriggerKey[m])
           /\ <<n, m>> \in SameTrigger <=> n # m /\ TriggerKey[n] = TriggerKey[m]
BY DEF Clashes, SameTrigger

(* The call of a process that is not idle.                                 *)
LEMMA TargetType ==
    ASSUME TypeOK, NEW p \in Procs, pc[p] # "idle"
    PROVE  Target(p) \in Notifs /\ call[p].op \in {"apply", "drop"} /\ call[p] \in Call
BY DEF TypeOK, Target, Call

-----------------------------------------------------------------------------
(* Steps that leave the catalog alone.                                     *)

LEMMA LocalStep ==
    ASSUME CatalogInv, NEW p \in Procs, TypeOK',
           UNCHANGED <<functions, triggers, installed, everInstalled>>,
           \A q \in Procs \ {p} : UNCHANGED <<pc[q], call[q], owns[q]>>,
           \A q \in Procs \ {p} : owns'[p] \cap owns[q] = {},
           Session(p)'
    PROVE  CatalogInv'
<1>1. Exclusive'
  BY DEF CatalogInv, Exclusive
<1>2. ASSUME NEW q \in Procs PROVE Session(q)'
  <2>1. CASE q = p
    BY <2>1
  <2>2. CASE q # p
    <3>1. UNCHANGED <<pc[q], call[q], owns[q], triggers>> /\ Session(q)
      BY <2>2 DEF CatalogInv
    <3> QED BY <3>1 DEF Session, HoldsFunction, DropIsSafe, BuiltFirst, Target, HasDependents
  <2> QED BY <2>1, <2>2
<1>3. CatalogIntact'
  BY DEF CatalogInv, CatalogIntact
<1>4. Origins'
  BY DEF CatalogInv, Origins, Registry!ClashFree
<1>5. AllBuilt'
  BY DEF CatalogInv, AllBuilt
<1> QED BY <1>1, <1>2, <1>3, <1>4, <1>5 DEF CatalogInv

LEMMA StartStep ==
    ASSUME CatalogInv, NEW p \in Procs, NEW c \in Call, Start(p, c)
    PROVE  CatalogInv'
<1>1. /\ pc[p] = "idle" /\ pc'[p] \in {"function", "table"} /\ call'[p] = c /\ owns' = owns
      /\ pc'[p] = "table" => c.op # "apply"
      /\ c.op = "apply" => Builds(c.n)
      /\ \A q \in Procs \ {p} : UNCHANGED <<pc[q], call[q], owns[q]>>
      /\ UNCHANGED <<functions, triggers, installed, everInstalled>>
  BY DEF Start, Goto, CatalogInv, TypeOK, catalogVars, historyVars
<1>2. TypeOK'
  BY DEF Start, Goto, CatalogInv, TypeOK, catalogVars, historyVars
<1>3. Session(p)'
  BY <1>1 DEF Session, HoldsFunction, DropIsSafe, BuiltFirst, Target
<1>4. \A q \in Procs \ {p} : owns'[p] \cap owns[q] = {}
  BY <1>1 DEF CatalogInv, Exclusive
<1> QED BY <1>1, <1>2, <1>3, <1>4, LocalStep

LEMMA RollbackStep ==
    ASSUME CatalogInv, NEW p \in Procs, Rollback(p)
    PROVE  CatalogInv'
<1>1. /\ pc'[p] = "idle" /\ owns'[p] = {}
      /\ \A q \in Procs \ {p} : UNCHANGED <<pc[q], call[q], owns[q]>>
      /\ UNCHANGED <<functions, triggers, installed, everInstalled>>
  BY DEF Rollback, Goto, CatalogInv, TypeOK, catalogVars, historyVars
<1>2. TypeOK'
  BY DEF Rollback, Goto, CatalogInv, TypeOK, catalogVars, historyVars
<1>3. Session(p)'
  BY <1>1 DEF Session, HoldsFunction, DropIsSafe, BuiltFirst
<1> QED BY <1>1, <1>2, <1>3, LocalStep

LEMMA CreateFunctionStep ==
    ASSUME CatalogInv, NEW p \in Procs, CreateFunction(p)
    PROVE  CatalogInv'
<1> DEFINE lock == FunctionLock(Target(p))
<1>1. /\ pc[p] # "idle" /\ call[p].op = "apply"
      /\ pc'[p] = "table" /\ call' = call /\ owns'[p] = owns[p] \cup {lock}
      /\ \A q \in Procs \ {p} : UNCHANGED <<pc[q], owns[q]>> /\ lock \notin owns[q]
      /\ UNCHANGED <<functions, triggers, installed, everInstalled>>
  BY DEF CreateFunction, Goto, Lock, Free, CatalogInv, TypeOK, catalogVars, historyVars
<1>2. lock \in Locks
  BY <1>1, TargetType DEF Locks, CatalogInv
<1>3. TypeOK'
  BY <1>2 DEF CreateFunction, Goto, Lock, CatalogInv, TypeOK, catalogVars, historyVars
<1>4. Session(p)'
  BY <1>1 DEF Session, HoldsFunction, DropIsSafe, BuiltFirst, Target, CatalogInv, FunctionLock
<1>5. \A q \in Procs \ {p} : owns'[p] \cap owns[q] = {}
  BY <1>1 DEF CatalogInv, Exclusive
<1> QED BY <1>1, <1>3, <1>4, <1>5, LocalStep

LEMMA AwaitFunctionStep ==
    ASSUME CatalogInv, NEW p \in Procs, AwaitFunction(p)
    PROVE  CatalogInv'
<1>1. /\ pc[p] # "idle" /\ pc'[p] = "blocked" /\ call' = call /\ owns' = owns
      /\ \A q \in Procs \ {p} : UNCHANGED pc[q]
      /\ UNCHANGED <<functions, triggers, installed, everInstalled>>
  BY DEF AwaitFunction, Goto, CatalogInv, TypeOK, catalogVars, historyVars
<1>2. TypeOK'
  BY DEF AwaitFunction, Goto, CatalogInv, TypeOK, catalogVars, historyVars
<1>3. Session(p)'
  BY <1>1 DEF Session, HoldsFunction, DropIsSafe, BuiltFirst, Target, CatalogInv
<1>4. \A q \in Procs \ {p} : owns'[p] \cap owns[q] = {}
  BY <1>1 DEF CatalogInv, Exclusive
<1> QED BY <1>1, <1>2, <1>3, <1>4, LocalStep

LEMMA DropTriggerStep ==
    ASSUME CatalogInv, NEW p \in Procs, DropTrigger(p)
    PROVE  CatalogInv'
<1> DEFINE lock == TableLock(Target(p))
<1>1. /\ pc[p] = "table" /\ call' = call /\ owns'[p] = owns[p] \cup {lock}
      /\ pc'[p] = IF call[p].op = "apply" THEN "trigger" ELSE "unfunction"
      /\ \A q \in Procs \ {p} : UNCHANGED <<pc[q], owns[q]>> /\ lock \notin owns[q]
      /\ UNCHANGED <<functions, triggers, installed, everInstalled>>
  BY DEF DropTrigger, Goto, Lock, Free, CatalogInv, TypeOK, catalogVars, historyVars
<1>2. lock \in Locks
  BY <1>1, TargetType DEF Locks, CatalogInv
<1>3. TypeOK'
  <2>1. owns' \in [Procs -> SUBSET Locks]
    BY <1>2 DEF DropTrigger, Lock, CatalogInv, TypeOK
  <2>2. pc' = [pc EXCEPT ![p] = pc'[p]] /\ pc'[p] \in {"trigger", "unfunction"}
    BY <1>1 DEF DropTrigger, Goto
  <2> QED BY <1>1, <2>1, <2>2 DEF DropTrigger, CatalogInv, TypeOK, catalogVars, historyVars
<1>4. Session(p)'
  BY <1>1 DEF Session, HoldsFunction, DropIsSafe, BuiltFirst, Target, CatalogInv, FunctionLock
<1>5. \A q \in Procs \ {p} : owns'[p] \cap owns[q] = {}
  BY <1>1 DEF CatalogInv, Exclusive
<1> QED BY <1>1, <1>3, <1>4, <1>5, LocalStep

LEMMA CreateTriggerStep ==
    ASSUME CatalogInv, NEW p \in Procs, CreateTrigger(p)
    PROVE  CatalogInv'
<1>1. /\ pc[p] = "trigger" /\ pc'[p] = "commit" /\ call' = call /\ owns' = owns
      /\ \A q \in Procs \ {p} : UNCHANGED pc[q]
      /\ UNCHANGED <<functions, triggers, installed, everInstalled>>
  BY DEF CreateTrigger, Goto, CatalogInv, TypeOK, catalogVars, historyVars
<1>2. TypeOK'
  BY DEF CreateTrigger, Goto, CatalogInv, TypeOK, catalogVars, historyVars
<1>3. call[p].op = "apply"
  BY <1>1 DEF CatalogInv, Session, BuiltFirst
<1>4. Session(p)'
  BY <1>1, <1>3 DEF Session, HoldsFunction, DropIsSafe, BuiltFirst, Target, CatalogInv, FunctionLock
<1>5. \A q \in Procs \ {p} : owns'[p] \cap owns[q] = {}
  BY <1>1 DEF CatalogInv, Exclusive
<1> QED BY <1>1, <1>2, <1>4, <1>5, LocalStep

(* What is not there has no dependents.                                    *)
LEMMA AbsentIsFree ==
    ASSUME CatalogInv, NEW n \in Notifs, functions[triggerFunctionName[n]] = NoFunction
    PROVE  ~HasDependents(n)
BY DEF CatalogInv, CatalogIntact, HasDependents

LEMMA DropFunctionStep ==
    ASSUME CatalogInv, NEW p \in Procs, DropFunction(p)
    PROVE  CatalogInv'
<1> DEFINE n == Target(p)
           lock == FunctionLock(n)
<1>1. /\ pc[p] # "idle" /\ call[p].op = "drop" /\ pc'[p] = "commit" /\ call' = call
      /\ \A q \in Procs \ {p} : UNCHANGED pc[q]
      /\ UNCHANGED <<functions, triggers, installed, everInstalled>>
  BY DEF DropFunction, Goto, CatalogInv, TypeOK, catalogVars, historyVars
<1>2. n \in Notifs /\ lock \in Locks
  BY <1>1, TargetType DEF Locks, CatalogInv
<1>3. ~HasDependents(n)
  BY <1>2, AbsentIsFree DEF DropFunction
<1>4. owns' \in [Procs -> SUBSET Locks]
  BY <1>2 DEF DropFunction, Lock, CatalogInv, TypeOK
<1>5. /\ owns'[p] \subseteq owns[p] \cup {lock}
      /\ \A q \in Procs \ {p} : owns'[q] = owns[q] /\ owns'[p] \cap owns[q] = {}
  BY DEF DropFunction, Lock, Free, CatalogInv, TypeOK, Exclusive
<1>6. TypeOK'
  BY <1>4 DEF DropFunction, Goto, CatalogInv, TypeOK, catalogVars, historyVars
<1>7. Session(p)'
  <2>1. (~HasDependents(n))'
    BY <1>1, <1>3 DEF HasDependents, Target
  <2> QED BY <1>1, <2>1 DEF Session, HoldsFunction, DropIsSafe, BuiltFirst, Target
<1> QED BY <1>1, <1>5, <1>6, <1>7, LocalStep

-----------------------------------------------------------------------------
(* Commit.                                                                 *)

(* The transaction of Apply, and that of DropSQL.                          *)
LEMMA ApplyCommits ==
    ASSUME CatalogInv, NEW p \in Procs, Commit(p), call[p].op = "apply"
    PROVE  LET n == Target(p) IN
           /\ n \in Notifs /\ Builds(n) /\ FunctionLock(n) \in owns[p]
           /\ functions'[triggerFunctionName[n]] = FunctionOf[n]
           /\ triggers'[TriggerKey[n]] = TriggerOf[n]
           /\ \A f \in Names \ {triggerFunctionName[n]} : functions'[f] = functions[f]
           /\ \A k \in Keys \ {TriggerKey[n]} : triggers'[k] = triggers[k]
           /\ installed' = {m \in installed : <<n, m>> \notin Clashes} \cup {n}
           /\ everInstalled' = everInstalled \cup {n}
<1>1. pc[p] = "commit" /\ Publish(p) /\ Record(p)
  BY DEF Commit
<1>2. Target(p) \in Notifs
  BY <1>1, TargetType DEF CatalogInv
<1>3. Builds(Target(p)) /\ FunctionLock(Target(p)) \in owns[p]
  BY <1>1 DEF CatalogInv, Session, BuiltFirst, HoldsFunction
<1> QED BY <1>1, <1>2, <1>3, NamesOf DEF Publish, Record, CatalogInv, TypeOK

LEMMA DropCommits ==
    ASSUME CatalogInv, NEW p \in Procs, Commit(p), call[p].op = "drop"
    PROVE  LET n == Target(p) IN
           /\ n \in Notifs
           /\ triggers'[TriggerKey[n]] = NoTrigger
           /\ \A k \in Keys \ {TriggerKey[n]} : triggers'[k] = triggers[k]
           /\ \A f \in Names \ {triggerFunctionName[n]} : functions'[f] = functions[f]
           /\ functions'[triggerFunctionName[n]] # functions[triggerFunctionName[n]] =>
                 ~HasDependents(n)
           /\ installed' = {m \in installed : m # n /\ <<n, m>> \notin SameTrigger}
           /\ everInstalled' = everInstalled
<1>1. pc[p] = "commit" /\ Publish(p) /\ Record(p)
  BY DEF Commit
<1>2. Target(p) \in Notifs
  BY <1>1, TargetType DEF CatalogInv
<1>3. FunctionLock(Target(p)) \in owns[p] => ~HasDependents(Target(p))
  BY <1>1 DEF CatalogInv, Session, DropIsSafe
<1> QED BY <1>1, <1>2, <1>3, NamesOf DEF Publish, Record, CatalogInv, TypeOK

LEMMA CommitType ==
    ASSUME CatalogInv, NEW p \in Procs, Commit(p)
    PROVE  TypeOK'
<1>1. pc[p] = "commit" /\ TypeOK
  BY DEF Commit, CatalogInv
<1>2. Target(p) \in Notifs /\ call[p].op \in {"apply", "drop"}
  BY <1>1, TargetType
<1>3. functions' \in [Names -> {FunctionOf[n] : n \in Notifs} \cup {NoFunction}]
  BY <1>1, <1>2, NamesOf DEF Commit, Publish, TypeOK
<1>4. triggers' \in [Keys -> {TriggerOf[n] : n \in Notifs} \cup {NoTrigger}]
  BY <1>1, <1>2, NamesOf DEF Commit, Publish, TypeOK
<1>5. installed' \subseteq everInstalled' /\ everInstalled' \subseteq Notifs
  BY <1>1, <1>2 DEF Commit, Record, TypeOK
<1>6. pc' \in [Procs -> {"idle", "function", "blocked", "doomed", "table", "trigger", "unfunction", "commit"}]
  BY <1>1, Zenon DEF Commit, TypeOK
<1>7. call' \in [Procs -> Call \cup {NoCall}] /\ owns' \in [Procs -> SUBSET Locks]
  BY <1>1 DEF Commit, TypeOK
<1>8. \A q \in Procs : pc'[q] # "idle" => call'[q] \in Call
  BY <1>1 DEF Commit, TypeOK
<1>9. announced'.change \in Changes \cup {NoChange}
  BY DEF Commit, Silence
<1> QED BY <1>3, <1>4, <1>5, <1>6, <1>7, <1>8, <1>9 DEF TypeOK

(* The other transactions are where they were, or waited for the function  *)
(* and fail; in particular no drop loses its guard.                        *)
LEMMA CommitOthers ==
    ASSUME CatalogInv, NEW p \in Procs, Commit(p), NEW q \in Procs
    PROVE  Session(q)'
<1>1. pc'[p] = "idle" /\ owns'[p] = {}
  BY DEF Commit, CatalogInv, TypeOK
<1>2. CASE q = p
  BY <1>1, <1>2 DEF Session, HoldsFunction, DropIsSafe, BuiltFirst
<1>3. CASE q # p
  <2>1. UNCHANGED <<call[q], owns[q]>> /\ pc'[q] \in {pc[q], "doomed"}
        /\ (pc'[q] # pc[q] => pc[q] = "blocked")
    BY <1>3 DEF Commit, CatalogInv, TypeOK
  <2>2. Target(q)' = Target(q)
    BY <2>1 DEF Target
  <2>3. Session(q)
    BY DEF CatalogInv
  <2>4. HoldsFunction(q)' /\ BuiltFirst(q)'
    BY <2>1, <2>2, <2>3 DEF Session, HoldsFunction, BuiltFirst
  <2>5. DropIsSafe(q)'
    <3> SUFFICES ASSUME pc[q] = "commit", call[q].op = "drop",
                        FunctionLock(Target(q)) \in owns[q], HasDependents(Target(q))'
                 PROVE  FALSE
      BY <2>1, <2>2 DEF DropIsSafe
    <3>1. ~HasDependents(Target(q))
      BY <2>3 DEF Session, DropIsSafe
    <3>2. PICK k \in Keys \ {TriggerKey[Target(q)]} :
             triggers'[k] # NoTrigger /\ triggers'[k].function = triggerFunctionName[Target(q)]
      BY <2>2 DEF HasDependents
    <3>3. triggers'[k] # triggers[k]
      BY <3>1, <3>2 DEF HasDependents
    <3>4. call[p].op = "apply"
      BY <3>2, <3>3, DropCommits, TargetType DEF Commit, CatalogInv
    <3>5. /\ Target(p) \in Notifs /\ FunctionLock(Target(p)) \in owns[p]
          /\ triggers'[k] = TriggerOf[Target(p)]
      BY <3>2, <3>3, <3>4, ApplyCommits
    <3>6. triggerFunctionName[Target(p)] = triggerFunctionName[Target(q)]
      BY <3>2, <3>5, NamesOf
    <3>7. FunctionLock(Target(q)) \in owns[p]
      BY <3>5, <3>6 DEF FunctionLock
    <3> QED BY <1>3, <3>7 DEF CatalogInv, Exclusive
  <2> QED BY <2>4, <2>5 DEF Session
<1> QED BY <1>2, <1>3

LEMMA CommitExclusive ==
    ASSUME CatalogInv, NEW p \in Procs, Commit(p)
    PROVE  Exclusive'
<1>1. \A q \in Procs : owns'[q] \subseteq owns[q]
  BY DEF Commit, CatalogInv, TypeOK
<1> QED BY <1>1 DEF CatalogInv, Exclusive

(* Apply disturbs nothing but what clashes with it.                        *)
LEMMA ApplyKeepsCatalog ==
    ASSUME CatalogInv, NEW p \in Procs, Commit(p), call[p].op = "apply"
    PROVE  CatalogIntact' /\ Origins' /\ AllBuilt'
<1> DEFINE n == Target(p)
<1>1. /\ n \in Notifs /\ Builds(n)
      /\ functions'[triggerFunctionName[n]] = FunctionOf[n]
      /\ triggers'[TriggerKey[n]] = TriggerOf[n]
      /\ \A f \in Names \ {triggerFunctionName[n]} : functions'[f] = functions[f]
      /\ \A k \in Keys \ {TriggerKey[n]} : triggers'[k] = triggers[k]
      /\ installed' = {m \in installed : <<n, m>> \notin Clashes} \cup {n}
      /\ everInstalled' = everInstalled \cup {n}
  BY ApplyCommits
<1>2. /\ installed \subseteq Notifs /\ everInstalled \subseteq Notifs
      /\ CatalogIntact /\ Origins /\ AllBuilt
      /\ \A k \in Keys : triggers[k] # NoTrigger => triggers[k].function \in Names
  <2>1. installed \subseteq Notifs /\ everInstalled \subseteq Notifs
        /\ CatalogIntact /\ Origins /\ AllBuilt
    BY DEF CatalogInv, TypeOK
  <2>2. ASSUME NEW k \in Keys, triggers[k] # NoTrigger PROVE triggers[k].function \in Names
    <3>1. PICK m \in everInstalled : triggers[k] = TriggerOf[m]
      BY <2>1, <2>2 DEF Origins
    <3> QED BY <2>1, <3>1, NamesOf
  <2> QED BY <2>1, <2>2
<1> HIDE DEF n
<1>3. ASSUME NEW m \in installed'
      PROVE  /\ functions'[triggerFunctionName[m]] = FunctionOf[m]
             /\ triggers'[TriggerKey[m]] = TriggerOf[m]
  <2>1. CASE m = n
    BY <1>1, <2>1
  <2>2. CASE m # n
    <3>1. m \in installed /\ <<n, m>> \notin Clashes /\ m \in Notifs
      BY <1>1, <1>2, <1>3, <2>2
    <3>2. triggerFunctionName[n] # triggerFunctionName[m] /\ TriggerKey[n] # TriggerKey[m]
      BY <1>1, <2>2, <3>1, ClashesOf
    <3> QED BY <1>1, <1>2, <3>1, <3>2, NamesOf DEF CatalogIntact
  <2> QED BY <2>1, <2>2
<1>4. ASSUME NEW k \in Keys, triggers'[k] # NoTrigger
      PROVE  functions'[triggers'[k].function] # NoFunction
  <2>1. CASE k = TriggerKey[n]
    BY <1>1, <2>1, NamesOf
  <2>2. CASE k # TriggerKey[n]
    <3>1. triggers'[k] = triggers[k] /\ triggers[k] # NoTrigger
      BY <1>1, <1>4, <2>2
    <3>2. functions[triggers[k].function] # NoFunction /\ triggers[k].function \in Names
      BY <1>2, <3>1 DEF CatalogIntact
    <3>3. FunctionOf[n] # NoFunction
      BY <1>1, NamesOf
    <3> QED BY <1>1, <3>1, <3>2, <3>3
  <2> QED BY <2>1, <2>2
<1>5. ASSUME NEW k \in Keys, triggers'[k] # NoTrigger
      PROVE  \E m \in everInstalled' :
                /\ k = TriggerKey[m] /\ triggers'[k] = TriggerOf[m]
                /\ Registry!ClashFree' => m \in installed'
  <2>1. CASE k = TriggerKey[n]
    BY <1>1, <2>1
  <2>2. CASE k # TriggerKey[n]
    <3>1. triggers'[k] = triggers[k] /\ triggers[k] # NoTrigger
      BY <1>1, <1>5, <2>2
    <3>2. PICK m \in everInstalled :
             /\ k = TriggerKey[m] /\ triggers[k] = TriggerOf[m]
             /\ Registry!ClashFree => m \in installed
      BY <1>2, <3>1 DEF Origins
    <3>3. Registry!ClashFree' => Registry!ClashFree /\ <<n, m>> \notin Clashes
      BY <1>1 DEF Registry!ClashFree
    <3> QED BY <1>1, <3>1, <3>2, <3>3
  <2> QED BY <2>1, <2>2
<1>6. AllBuilt'
  BY <1>1, <1>2 DEF AllBuilt
<1> QED BY <1>3, <1>4, <1>5, <1>6 DEF CatalogIntact, Origins

(* The SQL of DropSQL takes its trigger, and its function only if nobody   *)
(* else's trigger executes it.                                             *)
LEMMA DropKeepsCatalog ==
    ASSUME CatalogInv, NEW p \in Procs, Commit(p), call[p].op = "drop"
    PROVE  CatalogIntact' /\ Origins' /\ AllBuilt'
<1> DEFINE n == Target(p)
<1>1. /\ n \in Notifs
      /\ triggers'[TriggerKey[n]] = NoTrigger
      /\ \A k \in Keys \ {TriggerKey[n]} : triggers'[k] = triggers[k]
      /\ \A f \in Names \ {triggerFunctionName[n]} : functions'[f] = functions[f]
      /\ functions'[triggerFunctionName[n]] # functions[triggerFunctionName[n]] =>
            ~HasDependents(n)
      /\ installed' = {m \in installed : m # n /\ <<n, m>> \notin SameTrigger}
      /\ everInstalled' = everInstalled
  BY DropCommits
<1>2. /\ installed \subseteq Notifs /\ everInstalled \subseteq Notifs
      /\ CatalogIntact /\ Origins /\ AllBuilt
  BY DEF CatalogInv, TypeOK
<1> HIDE DEF n
<1>3. ASSUME NEW k \in Keys \ {TriggerKey[n]}, triggers[k] # NoTrigger
      PROVE  /\ functions'[triggers[k].function] = functions[triggers[k].function]
             /\ triggers[k].function \in Names
  <2>1. PICK m \in everInstalled : triggers[k] = TriggerOf[m]
    BY <1>2, <1>3 DEF Origins
  <2>2. triggers[k].function \in Names
    BY <1>2, <2>1, NamesOf
  <2>3. CASE triggers[k].function = triggerFunctionName[n]
    BY <1>1, <1>3, <2>2, <2>3 DEF HasDependents
  <2> QED BY <1>1, <2>2, <2>3
<1>4. ASSUME NEW m \in installed'
      PROVE  /\ functions'[triggerFunctionName[m]] = FunctionOf[m]
             /\ triggers'[TriggerKey[m]] = TriggerOf[m]
  <2>1. m \in installed /\ m # n /\ <<n, m>> \notin SameTrigger /\ m \in Notifs
    BY <1>1, <1>2, <1>4
  <2>2. TriggerKey[m] \in Keys \ {TriggerKey[n]}
    BY <1>1, <2>1, ClashesOf, NamesOf
  <2>3. /\ triggers[TriggerKey[m]] = TriggerOf[m] /\ TriggerOf[m] # NoTrigger
        /\ functions[triggerFunctionName[m]] = FunctionOf[m]
        /\ TriggerOf[m].function = triggerFunctionName[m]
    BY <1>2, <2>1, NamesOf DEF CatalogIntact
  <2>4. functions'[triggerFunctionName[m]] = functions[triggerFunctionName[m]]
    BY <1>3, <2>2, <2>3
  <2> QED BY <1>1, <2>2, <2>3, <2>4
<1>5. ASSUME NEW k \in Keys, triggers'[k] # NoTrigger
      PROVE  functions'[triggers'[k].function] # NoFunction
  <2>1. k \in Keys \ {TriggerKey[n]} /\ triggers'[k] = triggers[k]
    BY <1>1, <1>5
  <2> QED BY <1>2, <1>3, <1>5, <2>1 DEF CatalogIntact
<1>6. ASSUME NEW k \in Keys, triggers'[k] # NoTrigger
      PROVE  \E m \in everInstalled' :
                /\ k = TriggerKey[m] /\ triggers'[k] = TriggerOf[m]
                /\ Registry!ClashFree' => m \in installed'
  <2>1. k \in Keys \ {TriggerKey[n]} /\ triggers'[k] = triggers[k]
    BY <1>1, <1>6
  <2>2. PICK m \in everInstalled :
           /\ k = TriggerKey[m] /\ triggers[k] = TriggerOf[m]
           /\ Registry!ClashFree => m \in installed
    BY <1>2, <1>6, <2>1 DEF Origins
  <2>3. m \in Notifs /\ m # n /\ <<n, m>> \notin SameTrigger
    BY <1>1, <1>2, <2>1, <2>2, ClashesOf
  <2>4. Registry!ClashFree' => Registry!ClashFree
    BY <1>1 DEF Registry!ClashFree
  <2> QED BY <1>1, <2>1, <2>2, <2>3, <2>4
<1>7. AllBuilt'
  BY <1>1, <1>2 DEF AllBuilt
<1> QED BY <1>4, <1>5, <1>6, <1>7 DEF CatalogIntact, Origins

LEMMA CommitStep ==
    ASSUME CatalogInv, NEW p \in Procs, Commit(p)
    PROVE  CatalogInv'
<1>1. call[p].op \in {"apply", "drop"}
  BY TargetType DEF Commit, CatalogInv
<1>2. CatalogIntact' /\ Origins' /\ AllBuilt'
  BY <1>1, ApplyKeepsCatalog, DropKeepsCatalog
<1> QED BY <1>2, CommitType, CommitOthers, CommitExclusive DEF CatalogInv

-----------------------------------------------------------------------------
(* A change of a row.                                                      *)

(* The trigger function of a notification says of a change what the        *)
(* notification is to say.                                                 *)
LEMMA SaysWhatItMeans ==
    ASSUME NEW n \in Notifs, Builds(n), NEW c \in Changes
    PROVE  Notify(FunctionOf[n], c)
              = Message(n.eventName, [prop \in n.props |-> Meaning(prop, n, c)])
<1>1. FunctionOf[n] = [event |-> n.eventName, props |-> n.props, rowID |-> n.rowID]
  BY DEF FunctionOf
<1> DEFINE f == FunctionOf[n]
<1>2. f.event = n.eventName /\ f.props = n.props /\ f.rowID = n.rowID
  BY <1>1
<1> HIDE DEF f
<1>3. ASSUME NEW prop \in n.props PROVE payloadValue(prop, f, c) = Meaning(prop, n, c)
  <2>1. prop \in {FromState, ToState, TableName, RowID, CreatedAt}
    BY DEF Builds
  <2>2. \/ c.op = Insert /\ c.old = NoRow /\ c.new # NoRow
        \/ c.op = Update /\ c.old # NoRow /\ c.new # NoRow
        \/ c.op = Delete /\ c.old # NoRow /\ c.new = NoRow
    BY ChangesAssumption
  <2>3. Insert # Update /\ Update # Delete /\ Insert # Delete
    BY DEF Insert, Update, Delete
  <2>4. (IF c.op \in {Update, Delete} THEN c.old ELSE NoRow) = c.old
    BY <2>2, <2>3
  <2>5. (IF c.op \in {Insert, Update} THEN c.new ELSE NoRow) = c.new
    BY <2>2, <2>3
  <2>6. (IF c.op = Delete THEN c.old ELSE c.new) = (IF c.new = NoRow THEN c.old ELSE c.new)
    BY <2>2, <2>3
  <2> QED BY <1>2, <2>1, <2>4, <2>5, <2>6, Zenon
          DEF payloadValue, Meaning, FromState, ToState, TableName, RowID, CreatedAt
<1>4. [prop \in f.props |-> payloadValue(prop, f, c)] = [prop \in n.props |-> Meaning(prop, n, c)]
  BY <1>2, <1>3
<1> QED BY <1>2, <1>4 DEF f, Notify

(* Nothing that is promised is missing.                                    *)
LEMMA PromisesKept ==
    ASSUME CatalogInv, NEW c \in Changes
    PROVE  Registry!Promised(c) \subseteq MessagesOf(c)
<1> SUFFICES ASSUME NEW n \in installed, NEW m \in Announcement(n, c)
             PROVE  m \in MessagesOf(c)
  BY DEF Registry!Promised, Promises, CatalogInv, TypeOK
<1>1. n \in Notifs /\ Builds(n)
  BY DEF CatalogInv, TypeOK, AllBuilt
<1>2. /\ c.table = RelationOf[n.table] /\ c.op \in Operations(n)
      /\ m = Notify(FunctionOf[n], c)
  BY <1>1, SaysWhatItMeans DEF Announcement
<1> DEFINE k == TriggerKey[n]
<1>3. k \in Keys /\ k[1] = c.table
  BY <1>1, <1>2, NamesOf DEF TriggerKey
<1> HIDE DEF k
<1>4. triggers[k] = TriggerOf[n] /\ functions[triggerFunctionName[n]] = FunctionOf[n]
  BY DEF CatalogInv, CatalogIntact, k
<1>5. k \in Fired(c) /\ triggers[k].function = triggerFunctionName[n]
  BY <1>1, <1>2, <1>3, <1>4, NamesOf DEF Fired
<1> QED BY <1>2, <1>4, <1>5 DEF MessagesOf

(* Without clashes nothing else is said.                                   *)
LEMMA NothingElse ==
    ASSUME CatalogInv, Registry!ClashFree, NEW c \in Changes
    PROVE  MessagesOf(c) \subseteq Registry!Promised(c)
<1> SUFFICES ASSUME NEW k \in Fired(c)
             PROVE  Notify(functions[triggers[k].function], c) \in Registry!Promised(c)
  BY DEF MessagesOf
<1>1. k \in Keys /\ k[1] = c.table /\ triggers[k] # NoTrigger /\ c.op \in triggers[k].ops
  BY DEF Fired
<1>2. PICK n \in installed : k = TriggerKey[n] /\ triggers[k] = TriggerOf[n]
  BY <1>1 DEF CatalogInv, Origins
<1>3. n \in Notifs /\ Builds(n)
  BY DEF CatalogInv, TypeOK, AllBuilt
<1>4. c.table = RelationOf[n.table] /\ c.op \in Operations(n)
  BY <1>1, <1>2, <1>3, NamesOf DEF TriggerKey
<1>5. functions[triggers[k].function] = FunctionOf[n]
  BY <1>2, <1>3, NamesOf DEF CatalogInv, CatalogIntact
<1>6. Notify(functions[triggers[k].function], c) \in Announcement(n, c)
  BY <1>3, <1>4, <1>5, SaysWhatItMeans DEF Announcement
<1>7. Announcement(n, c) = Promises[n][c]
  BY <1>3 DEF Promises
<1> QED BY <1>6, <1>7 DEF Registry!Promised

LEMMA ChangeStep ==
    ASSUME CatalogInv, NEW c \in Changes, ChangeRow(c)
    PROVE  CatalogInv' /\ Registry!Next
<1>1. UNCHANGED <<functions, triggers, pc, call, owns, installed, everInstalled>>
  BY DEF ChangeRow, catalogVars
<1>2. announced' = IF \A m \in MessagesOf(c) : m.fits
                     THEN [change |-> c, refused |-> FALSE, messages |-> MessagesOf(c)]
                     ELSE [change |-> c, refused |-> TRUE, messages |-> {}]
  BY DEF ChangeRow
<1>3. TypeOK'
  <2>1. announced'.change = c
    BY <1>2
  <2> QED BY <1>1, <2>1 DEF CatalogInv, TypeOK
<1>4. CatalogInv'
  <2>1. \A p \in Procs : Session(p)'
    BY <1>1 DEF CatalogInv, Session, HoldsFunction, DropIsSafe, BuiltFirst, Target, HasDependents
  <2>2. Exclusive' /\ CatalogIntact' /\ AllBuilt'
    BY <1>1 DEF CatalogInv, Exclusive, CatalogIntact, AllBuilt
  <2>3. Origins'
    BY <1>1 DEF CatalogInv, Origins, Registry!ClashFree
  <2> QED BY <1>3, <2>1, <2>2, <2>3 DEF CatalogInv
<1>5. CASE \A m \in MessagesOf(c) : m.fits
  <2>1. announced' = [change |-> c, refused |-> FALSE, messages |-> MessagesOf(c)]
    BY <1>2, <1>5
  <2>2. announced'.messages = MessagesOf(c)
    BY <2>1
  <2>3. Registry!Change(c)
    BY <1>1, <2>1, <2>2, PromisesKept, NothingElse DEF Registry!Change
  <2> QED BY <1>4, <2>3 DEF Registry!Next
<1>6. CASE ~(\A m \in MessagesOf(c) : m.fits)
  <2>1. Registry!Refuse(c)
    BY <1>1, <1>2, <1>6, NothingElse DEF Registry!Refuse
  <2> QED BY <1>4, <2>1 DEF Registry!Next
<1> QED BY <1>5, <1>6

-----------------------------------------------------------------------------
(* The behaviours.                                                         *)

(* Every step keeps the invariant, and is a step of the registry or none.  *)
LEMMA NextStep ==
    ASSUME CatalogInv, [Next]_vars
    PROVE  CatalogInv' /\ [Registry!Next]_(Registry!registryVars)
<1> DEFINE Silent == UNCHANGED <<installed, everInstalled, announced>>
<1>1. ASSUME UNCHANGED vars PROVE CatalogInv' /\ Silent
  BY <1>1 DEF vars, CatalogInv, TypeOK, Exclusive, Session, HoldsFunction, DropIsSafe, BuiltFirst,
              Target, HasDependents, CatalogIntact, Origins, AllBuilt, Registry!ClashFree
<1>2. ASSUME NEW p \in Procs, NEW c \in Call, Start(p, c) PROVE CatalogInv' /\ Silent
  BY <1>2, StartStep DEF Start, historyVars
<1>3. ASSUME NEW p \in Procs, Rollback(p) PROVE CatalogInv' /\ Silent
  BY <1>3, RollbackStep DEF Rollback, historyVars
<1>4. ASSUME NEW p \in Procs, CreateFunction(p) PROVE CatalogInv' /\ Silent
  BY <1>4, CreateFunctionStep DEF CreateFunction, historyVars
<1>5. ASSUME NEW p \in Procs, AwaitFunction(p) PROVE CatalogInv' /\ Silent
  BY <1>5, AwaitFunctionStep DEF AwaitFunction, historyVars
<1>6. ASSUME NEW p \in Procs, DropTrigger(p) PROVE CatalogInv' /\ Silent
  BY <1>6, DropTriggerStep DEF DropTrigger, historyVars
<1>7. ASSUME NEW p \in Procs, CreateTrigger(p) PROVE CatalogInv' /\ Silent
  BY <1>7, CreateTriggerStep DEF CreateTrigger, historyVars
<1>8. ASSUME NEW p \in Procs, DropFunction(p) PROVE CatalogInv' /\ Silent
  BY <1>8, DropFunctionStep DEF DropFunction, historyVars
<1>9. ASSUME NEW p \in Procs, Commit(p) PROVE CatalogInv' /\ Registry!Next
  <2>1. Target(p) \in Notifs /\ call[p].op \in {"apply", "drop"}
    BY <1>9, TargetType DEF Commit, CatalogInv
  <2>2. Record(p) /\ announced' = Silence
    BY <1>9 DEF Commit
  <2>3. Registry!Silence = Silence
    BY DEF Registry!Silence, Silence
  <2>4. Registry!Apply(Target(p)) \/ Registry!Drop(Target(p))
    BY <2>1, <2>2, <2>3 DEF Record, Registry!Apply, Registry!Drop
  <2> QED BY <1>9, <2>1, <2>4, CommitStep DEF Registry!Next
<1>10. ASSUME NEW c \in Changes, ChangeRow(c) PROVE CatalogInv' /\ Registry!Next
  BY <1>10, ChangeStep
<1>11. CatalogInv' /\ (Silent \/ Registry!Next)
  BY <1>1, <1>2, <1>3, <1>4, <1>5, <1>6, <1>7, <1>8, <1>9, <1>10
     DEF Next, Step, Fail, RefusedReturns, DeadlockVictim
<1> QED BY <1>11 DEF Registry!registryVars

LEMMA InitCatalog == Init => CatalogInv /\ Registry!Init
<1> SUFFICES ASSUME Init PROVE CatalogInv /\ Registry!Init
  OBVIOUS
<1>1. TypeOK
  BY DEF Init, TypeOK, Silence
<1>2. /\ \A p \in Procs : Session(p)
      /\ Exclusive
  BY DEF Init, Session, HoldsFunction, DropIsSafe, BuiltFirst, Exclusive
<1>3. CatalogIntact /\ Origins /\ AllBuilt
  BY DEF Init, CatalogIntact, Origins, AllBuilt
<1>4. Registry!Init
  BY DEF Init, Registry!Init, Registry!Silence, Silence
<1> QED BY <1>1, <1>2, <1>3, <1>4 DEF CatalogInv

(* The inductive invariant of the catalog: types, locks, what an attempt   *)
(* has written so far, and what it will leave if it commits.               *)
THEOREM CatalogInvariant == Spec => []CatalogInv
<1>1. CatalogInv /\ [Next]_vars => CatalogInv'
  BY NextStep
<1> QED BY <1>1, InitCatalog, PTL DEF Spec

(* What Apply has installed stays installed as it was, and no trigger      *)
(* loses its function, for any number of processes and any names: the      *)
(* server's locks on functions and its dependency check are enough.        *)
THEOREM CatalogStaysIntact == FairSpec => []CatalogIntact
<1>1. CatalogInv => CatalogIntact
  BY DEF CatalogInv
<1> QED BY <1>1, CatalogInvariant, PTL DEF FairSpec

(* Apply and DropSQL are atomic to those who listen: their statements, the *)
(* waits for locks, the failures and the changes of rows in between        *)
(* implement the registry.                                                 *)
THEOREM CatalogRefinesRegistry == FairSpec => RegistryRefined
<1>1. Init => Registry!Init
  BY InitCatalog
<1>2. CatalogInv /\ [Next]_vars => [Registry!Next]_(Registry!registryVars)
  BY NextStep
<1> QED BY <1>1, <1>2, CatalogInvariant, PTL DEF FairSpec, Spec, RegistryRefined, Registry!Spec
=============================================================================
