----------------------- MODULE PolicyLifecycle_proofs -----------------------
(***************************************************************************)
(* Proofs about PolicyLifecycle, for any number of calls and connections:  *)
(* who may change a policy, what a strict report is worth, what is left    *)
(* when all callers want the same, and that a pool with a connection more  *)
(* than calls always has a free one.                                       *)
(***************************************************************************)
EXTENDS PolicyLifecycle, FiniteSetTheorems, TLAPS

(* Which operations are at which statement, and with a valid policy.       *)
Phase(p) ==
    /\ pc[p] \in {"inspect", "getJob", "getStats"} => call[p].op \in {"ensure", "reconcile"}
    /\ pc[p] \in {"add", "adding"} => call[p].op \in {"ensure", "reconcile", "add"}
    /\ pc[p] \in {"remove", "removing"} => call[p].op = "remove"
    /\ pc[p] \in {"recheck", "begin", "txRemove", "txAdd", "commit"} =>
          call[p].op \in {"reconcile", "replace"}
    /\ pc[p] \notin {"ready", "done"} /\ call[p].op # "remove" => call[p].spec \in Specs

(* A transaction that has changed the job, and what it will commit.        *)
Holds(p) ==
    /\ lock = p => pc[p] \in {"txAdd", "commit"}
    /\ lock = p /\ pc[p] = "commit" => pending # NoJob /\ pending.spec = call[p].spec
    /\ pc[p] = "commit" /\ ~call[p].lenient => lock = p

(* A call reports and acts once, at its end.                               *)
Quiet(p) == pc[p] # "done" => result[p] = "none" /\ did[p] = "nothing"

Found(p) == pc[p] \in {"getJob", "getStats"} => seen[p] # NoJob

Strict(p) == kind = "columnstore" /\ ~call[p].lenient => Truthful(p)

InPlace(p) == job # NoJob /\ job.spec = call[p].spec
Fresh(p) == job # NoJob => job.spec = call[p].spec

(* Among callers of one mind a policy that was found missing can only have *)
(* been created as wished, and one that was found as wished is still there.*)
Agreed(p) ==
    /\ pc[p] \in {"add", "adding"} /\ call[p].op # "add" => Fresh(p)
    /\ pc[p] = "txAdd" /\ lock # p => Fresh(p)
    /\ pc[p] = "commit" /\ lock # p => InPlace(p)
    /\ pc[p] \in {"getJob", "getStats"} =>
          (seen[p].spec = call[p].spec => InPlace(p))
    /\ kind = "columnstore" /\ result[p] \in {"created", "replaced", "unchanged"} => InPlace(p)

Session(p) == Phase(p) /\ Holds(p) /\ Quiet(p) /\ Found(p) /\ Strict(p) /\ (SameWish => Agreed(p))

PolicyInv == TypeOK /\ \A p \in Procs : Session(p)

-----------------------------------------------------------------------------
(* How a step of p looks to the others.                                    *)

(* What p may do to the committed policy.                                  *)
Owned(p) ==
    \/ job' = job
    \/ job' # NoJob /\ job'.spec = call[p].spec /\ call[p].op # "remove"
    \/ call[p].op = "remove"

LEMMA OthersKeep ==
    ASSUME PolicyInv, NEW p \in Procs, NEW q \in Procs, q # p,
           UNCHANGED <<kind, call, pc[q], seen[q], result[q], did[q]>>,
           lock' = q <=> lock = q, lock = q => pending' = pending,
           Owned(p)
    PROVE  Session(q)'
<1>1. Session(q)
  BY DEF PolicyInv
<1>2. Phase(q)' /\ Quiet(q)' /\ Found(q)' /\ Strict(q)'
  BY <1>1 DEF Session, Phase, Quiet, Found, Strict, Truthful, Claim
<1>3. Holds(q)'
  BY <1>1 DEF Session, Holds
<1>4. ASSUME SameWish' PROVE Agreed(q)'
  <2>1. SameWish /\ Agreed(q)
    BY <1>1, <1>4 DEF SameWish, Session
  <2>2. job' = job \/ (job' # NoJob /\ job'.spec = call[q].spec)
    BY <2>1 DEF Owned, SameWish
  <2>3. (Fresh(q) => Fresh(q)') /\ (InPlace(q) => InPlace(q)')
    BY <2>2 DEF Fresh, InPlace
  <2> QED BY <2>1, <2>3 DEF Agreed
<1> QED BY <1>2, <1>3, <1>4 DEF Session

(* A step of p, if it preserves the types and what is said of p.           *)
LEMMA StepKeeps ==
    ASSUME PolicyInv, NEW p \in Procs, TypeOK', Session(p)', UNCHANGED <<kind, call>>,
           \A q \in Procs \ {p} : UNCHANGED <<pc[q], seen[q], result[q], did[q]>>,
           lock' \in {lock, p, NoProc}, lock \in {p, NoProc} \/ UNCHANGED <<lock, pending>>,
           Owned(p)
    PROVE  PolicyInv'
<1>1. ASSUME NEW q \in Procs \ {p} PROVE Session(q)'
  <2>1. (lock' = q <=> lock = q) /\ (lock = q => pending' = pending)
    BY NothingsAssumption
  <2> QED BY <2>1, OthersKeep
<1> QED BY <1>1 DEF PolicyInv

(* Return, and what it releases.                                           *)
LEMMA Returns ==
    ASSUME TypeOK, NEW p \in Procs, NEW r, Return(p, r)
    PROVE  /\ pc'[p] = "done" /\ result'[p] = r
           /\ \A q \in Procs \ {p} : UNCHANGED <<pc[q], result[q]>>
           /\ lock' = (IF lock = p THEN NoProc ELSE lock) /\ lock' # p
           /\ pc' \in [Procs -> Labels]
           /\ held' \in [Procs -> SUBSET Conns]
           /\ lock' \in Procs \cup {NoProc}
<1>1. pc' \in [Procs -> Labels]
  BY DEF Return, Goto, TypeOK, Labels
<1> QED BY <1>1, NothingsAssumption DEF Return, Goto, TypeOK

Results == {"none", "created", "unchanged", "replaced", "drift", "done", "err"}

LEMMA ReturnsTyped ==
    ASSUME TypeOK, NEW p \in Procs, NEW r \in Results, Return(p, r)
    PROVE  result' \in [Procs -> Results]
BY DEF Return, TypeOK, Results

LEMMA Acquires ==
    ASSUME TypeOK, NEW p \in Procs, Acquire(p)
    PROVE  held' \in [Procs -> SUBSET Conns]
<1>1. (CHOOSE c \in Free : TRUE) \in Conns
  <2>1. \E c \in Free : TRUE
    BY DEF Acquire
  <2>2. (CHOOSE c \in Free : TRUE) \in Free
    BY <2>1, Zenon
  <2> QED BY <2>2 DEF Free
<1> DEFINE taken == CHOOSE c \in Free : TRUE
<1> HIDE DEF taken
<1>2. held' = [held EXCEPT ![p] = @ \cup {taken}]
  BY DEF Acquire, taken
<1>3. taken \in Conns
  BY <1>1 DEF taken
<1> QED BY <1>2, <1>3 DEF TypeOK

(* An error with nothing committed.                                        *)
LEMMA ErrorStep ==
    ASSUME PolicyInv, NEW p \in Procs, Return(p, "err"), pc[p] # "done",
           UNCHANGED <<kind, job, lastId, pending, call, seen, did>>
    PROVE  PolicyInv'
<1>1. TypeOK
  BY DEF PolicyInv
<1>2. TypeOK'
  BY <1>1, Returns, ReturnsTyped DEF TypeOK, Results
<1>3. pc'[p] = "done" /\ result'[p] = "err" /\ lock' # p
  BY <1>1, Returns
<1>4. Session(p)'
  BY <1>3 DEF Session, Phase, Holds, Quiet, Found, Strict, Truthful, Agreed
<1> QED BY <1>1, <1>2, <1>4, Returns, StepKeeps DEF Owned

-----------------------------------------------------------------------------
(* The steps before a statement that changes the job.                      *)

(* A step of p that leaves the job and its lock alone and moves p.         *)
LEMMA MoveStep ==
    ASSUME PolicyInv, NEW p \in Procs, NEW l \in Labels, Goto(p, l),
           UNCHANGED <<kind, job, lastId, lock, pending, call, result, did>>,
           held' \in [Procs -> SUBSET Conns], seen' \in [Procs -> JobType],
           \A q \in Procs \ {p} : UNCHANGED seen[q],
           pc[p] # "done", l # "done", Session(p)'
    PROVE  PolicyInv'
<1>1. TypeOK /\ pc'[p] = l /\ pc' \in [Procs -> Labels]
      /\ \A q \in Procs \ {p} : UNCHANGED pc[q]
  BY DEF PolicyInv, TypeOK, Goto
<1>2. TypeOK'
  BY <1>1 DEF TypeOK
<1> QED BY <1>1, <1>2, StepKeeps DEF Owned

LEMMA StartStep ==
    ASSUME PolicyInv, NEW p \in Procs, Start(p)
    PROVE  PolicyInv'
<1>1. TypeOK /\ Session(p) /\ pc[p] = "ready" /\ call[p] \in CallType
      /\ UNCHANGED <<kind, job, lastId, pending, call, seen, did>>
  BY DEF PolicyInv, Start, TypeOK
<1>2. CASE Return(p, "err")
  BY <1>1, <1>2, ErrorStep
<1>3. CASE /\ call[p].spec # Invalid \/ call[p].op = "remove"
           /\ Goto(p, IF kind = "columnstore" THEN "capability" ELSE Entry(call[p].op))
           /\ UNCHANGED <<held, lock, result>>
  <2> DEFINE l == IF kind = "columnstore" THEN "capability" ELSE Entry(call[p].op)
  <2>1. call[p].op \in Ops /\ (call[p].op # "remove" => call[p].spec \in Specs)
    BY <1>1, <1>3 DEF CallType
  <2>2. /\ call[p].op \in {"ensure", "reconcile"} => Entry(call[p].op) = "inspect"
        /\ call[p].op = "replace" => Entry(call[p].op) = "begin"
        /\ call[p].op = "add" => Entry(call[p].op) = "add"
        /\ call[p].op = "remove" => Entry(call[p].op) = "remove"
    BY Zenon DEF Entry
  <2>3. l \in {"capability", "inspect", "begin", "add", "remove"}
        /\ (l = "inspect" => call[p].op \in {"ensure", "reconcile"})
        /\ (l = "begin" => call[p].op = "replace")
        /\ (l = "add" => call[p].op = "add")
        /\ (l = "remove" => call[p].op = "remove")
    BY <2>1, <2>2 DEF Ops
  <2> HIDE DEF l
  <2>4. Goto(p, l) /\ pc'[p] = l
    BY <1>1, <1>3 DEF Goto, TypeOK, l
  <2>5. Session(p)'
    BY <1>1, <1>3, <2>1, <2>3, <2>4
    DEF Session, Phase, Holds, Quiet, Found, Strict, Truthful, Agreed, SameWish
  <2>6. l \in Labels
    BY <2>3 DEF Labels
  <2> QED BY <1>1, <1>3, <2>3, <2>4, <2>5, <2>6, MoveStep DEF TypeOK
<1> QED BY <1>2, <1>3 DEF Start

LEMMA RequireCapabilityStep ==
    ASSUME PolicyInv, NEW p \in Procs, RequireCapability(p)
    PROVE  PolicyInv'
<1> DEFINE l == IF pc[p] = "recheck" THEN "begin" ELSE Entry(call[p].op)
<1>1. TypeOK /\ Session(p) /\ pc[p] \in {"capability", "recheck"} /\ call[p] \in CallType
      /\ UNCHANGED <<kind, job, lastId, lock, pending, call, held, seen, result, did>>
  BY DEF PolicyInv, RequireCapability, TypeOK
<1>2. call[p].op \in Ops
  BY <1>1 DEF CallType
<1>3. /\ call[p].op \in {"ensure", "reconcile"} => Entry(call[p].op) = "inspect"
      /\ call[p].op = "replace" => Entry(call[p].op) = "begin"
      /\ call[p].op = "add" => Entry(call[p].op) = "add"
      /\ call[p].op = "remove" => Entry(call[p].op) = "remove"
  BY Zenon DEF Entry
<1>4. l \in {"inspect", "begin", "add", "remove"}
      /\ (l = "inspect" => call[p].op \in {"ensure", "reconcile"})
      /\ (l = "begin" => call[p].op \in {"reconcile", "replace"})
      /\ (l = "add" => call[p].op = "add")
      /\ (l = "remove" => call[p].op = "remove")
  BY <1>1, <1>2, <1>3 DEF Ops, Session, Phase
<1>5. Goto(p, l)
  BY DEF RequireCapability
<1> HIDE DEF l
<1>6. pc'[p] = l
  BY <1>1, <1>5 DEF Goto, TypeOK
<1>7. Session(p)'
  BY <1>1, <1>4, <1>6
  DEF Session, Phase, Holds, Quiet, Found, Strict, Truthful, Agreed, SameWish
<1>8. l \in Labels
  BY <1>4 DEF Labels
<1> QED BY <1>1, <1>4, <1>5, <1>7, <1>8, MoveStep DEF TypeOK

LEMMA InspectRowStep ==
    ASSUME PolicyInv, NEW p \in Procs, InspectRow(p)
    PROVE  PolicyInv'
<1>1. TypeOK /\ Session(p) /\ pc[p] = "inspect" /\ job # NoJob /\ Goto(p, "getJob")
      /\ UNCHANGED <<kind, job, lastId, lock, pending, call, result, did>>
      /\ seen' = [seen EXCEPT ![p] = job]
  BY DEF PolicyInv, InspectRow
<1>2. pc'[p] = "getJob" /\ seen'[p] = job /\ seen' \in [Procs -> JobType]
      /\ \A q \in Procs \ {p} : UNCHANGED seen[q]
  BY <1>1 DEF Goto, TypeOK
<1>3. held' \in [Procs -> SUBSET Conns]
  BY <1>1, Acquires DEF InspectRow
<1>4. Session(p)'
  BY <1>1, <1>2
  DEF Session, Phase, Holds, Quiet, Found, Strict, Truthful, Agreed, SameWish, InPlace
<1> QED BY <1>1, <1>2, <1>3, <1>4, MoveStep DEF Labels

(* The decision, from a row that was seen as it was when inspected.        *)
LEMMA ActStep ==
    ASSUME PolicyInv, NEW p \in Procs, Act(p),
           UNCHANGED <<kind, job, lastId, pending, call, did>>,
           seen' \in [Procs -> JobType], \A q \in Procs \ {p} : UNCHANGED seen[q],
           pc[p] \in {"inspect", "getStats"},
           seen'[p] = NoJob => job = NoJob,
           SameWish /\ seen'[p] # NoJob /\ seen'[p].spec = call[p].spec => InPlace(p)
    PROVE  PolicyInv'
<1>1. TypeOK /\ Session(p)
  BY DEF PolicyInv
<1>2. ASSUME Decide(p) = "create", Goto(p, "add"), UNCHANGED <<lock, result>>,
             held' = [held EXCEPT ![p] = {}]
      PROVE  PolicyInv'
  <2>1. seen'[p] = NoJob
    BY <1>2 DEF Decide
  <2>2. pc'[p] = "add" /\ held' \in [Procs -> SUBSET Conns]
    BY <1>1, <1>2 DEF Goto, TypeOK
  <2>3. Session(p)'
    BY <1>1, <1>2, <2>1, <2>2
    DEF Session, Phase, Holds, Quiet, Found, Strict, Truthful, Agreed, SameWish, Fresh
  <2> QED BY <1>2, <2>2, <2>3, MoveStep DEF Labels
<1>3. ASSUME Decide(p) = "replace", UNCHANGED <<lock, result>>,
             Goto(p, IF kind = "columnstore" THEN "recheck" ELSE "begin"),
             held' = [held EXCEPT ![p] = {}]
      PROVE  PolicyInv'
  <2>1. call[p].op = "reconcile"
    BY <1>3 DEF Decide
  <2>2. PICK l \in {"recheck", "begin"} : Goto(p, l)
    BY <1>3
  <2>3. pc'[p] = l /\ held' \in [Procs -> SUBSET Conns]
    BY <1>1, <1>3, <2>2 DEF Goto, TypeOK
  <2>4. Session(p)'
    BY <1>1, <1>3, <2>1, <2>3
    DEF Session, Phase, Holds, Quiet, Found, Strict, Truthful, Agreed, SameWish
  <2> QED BY <1>3, <2>2, <2>3, <2>4, MoveStep DEF Labels
<1>4. ASSUME NEW r \in {"unchanged", "drift"}, Return(p, r),
             r = "unchanged" => Decide(p) = "noop"
      PROVE  PolicyInv'
  <2>1. pc'[p] = "done" /\ result'[p] = r /\ lock' # p /\ TypeOK'
    BY <1>1, <1>4, Returns, ReturnsTyped DEF TypeOK, Results
  <2>2. did'[p] = "nothing"
    BY <1>1 DEF Session, Quiet
  <2>3. r = "unchanged" => seen'[p] # NoJob /\ seen'[p].spec = call[p].spec
    BY <1>4 DEF Decide
  <2>4. Claim(r) = "nothing"
    BY <1>4, Zenon DEF Claim
  <2>5. ASSUME SameWish' PROVE Agreed(p)'
    <3>1. SameWish
      BY <2>5 DEF SameWish
    <3>2. r = "unchanged" => InPlace(p)'
      BY <2>3, <3>1 DEF InPlace
    <3> QED BY <1>4, <2>1, <3>2 DEF Agreed
  <2>6. Session(p)'
    BY <1>1, <1>4, <2>1, <2>2, <2>4, <2>5 DEF Session, Phase, Holds, Quiet, Found, Strict, Truthful
  <2> QED BY <1>1, <1>4, <2>1, <2>6, Returns, StepKeeps DEF Owned
<1> QED BY <1>2, <1>3, <1>4 DEF Act

LEMMA InspectNoRowStep ==
    ASSUME PolicyInv, NEW p \in Procs, InspectNoRow(p)
    PROVE  PolicyInv'
<1>1. TypeOK /\ seen' = [seen EXCEPT ![p] = NoJob] /\ NoJob \in JobType
  BY DEF PolicyInv, InspectNoRow, JobType
<1>2. seen' \in [Procs -> JobType] /\ seen'[p] = NoJob
      /\ \A q \in Procs \ {p} : UNCHANGED seen[q]
  BY <1>1 DEF TypeOK
<1> QED BY <1>2, ActStep DEF InspectNoRow

LEMMA GetJobStep ==
    ASSUME PolicyInv, NEW p \in Procs, GetJob(p)
    PROVE  PolicyInv'
<1>1. TypeOK /\ Session(p) /\ pc[p] = "getJob"
      /\ UNCHANGED <<kind, job, lastId, pending, call, seen, did>>
  BY DEF PolicyInv, GetJob
<1>2. CASE Return(p, "err")
  BY <1>1, <1>2, ErrorStep
<1>3. CASE Goto(p, "getStats") /\ UNCHANGED <<held, lock, result>>
  <2>1. pc'[p] = "getStats"
    BY <1>1, <1>3 DEF Goto, TypeOK
  <2>2. Session(p)'
    BY <1>1, <1>3, <2>1
    DEF Session, Phase, Holds, Quiet, Found, Strict, Truthful, Agreed, SameWish, InPlace
  <2> QED BY <1>1, <1>3, <2>1, <2>2, MoveStep DEF Labels, TypeOK
<1> QED BY <1>2, <1>3 DEF GetJob

LEMMA GetJobStatsStep ==
    ASSUME PolicyInv, NEW p \in Procs, GetJobStats(p)
    PROVE  PolicyInv'
<1>1. TypeOK /\ Session(p) /\ pc[p] = "getStats" /\ seen' = seen
  BY DEF PolicyInv, GetJobStats
<1>2. SameWish /\ seen[p].spec = call[p].spec => InPlace(p)
  BY <1>1 DEF Session, Agreed
<1>3. seen[p] # NoJob
  BY <1>1 DEF Session, Found
<1> QED BY <1>1, <1>2, <1>3, ActStep DEF GetJobStats, TypeOK

LEMMA TakeConnStep ==
    ASSUME PolicyInv, NEW p \in Procs, TakeConn(p)
    PROVE  PolicyInv'
<1>1. TypeOK /\ Session(p)
      /\ UNCHANGED <<kind, job, lastId, lock, pending, call, seen, result, did>>
      /\ held' \in [Procs -> SUBSET Conns]
  BY Acquires DEF PolicyInv, TakeConn
<1>2. PICK l \in {"adding", "removing", "txRemove"} :
         /\ Goto(p, l)
         /\ l = "adding" => pc[p] = "add"
         /\ l = "removing" => pc[p] = "remove"
         /\ l = "txRemove" => pc[p] = "begin"
  BY DEF TakeConn
<1>4. pc'[p] = l /\ pc[p] # "done"
  BY <1>1, <1>2 DEF Goto, TypeOK
<1>5. Session(p)'
  BY <1>1, <1>2, <1>4
  DEF Session, Phase, Holds, Quiet, Found, Strict, Truthful, Agreed, SameWish, Fresh
<1> QED BY <1>1, <1>2, <1>4, <1>5, MoveStep DEF Labels, TypeOK

-----------------------------------------------------------------------------
(* The statements that change the job.                                     *)

LEMMA NewJobType ==
    ASSUME TypeOK, NEW p \in Procs, call[p].spec \in Specs
    PROVE  NewJob(p) \in JobType /\ NewJob(p) # NoJob /\ NewJob(p).spec = call[p].spec
BY NothingsAssumption DEF NewJob, JobType, TypeOK

(* A statement of p that ends the call.                                    *)
LEMMA LastStep ==
    ASSUME PolicyInv, NEW p \in Procs, NEW r \in Results, Return(p, r),
           UNCHANGED <<kind, pending, call, seen>>,
           job' \in JobType, lastId' \in Nat,
           did' \in [Procs -> {"nothing", "created", "replaced", "removed"}],
           \A q \in Procs \ {p} : UNCHANGED did[q],
           Owned(p), Strict(p)',
           SameWish /\ kind = "columnstore" /\ r \in {"created", "replaced", "unchanged"} =>
               InPlace(p)'
    PROVE  PolicyInv'
<1>1. TypeOK
  BY DEF PolicyInv
<1>2. TypeOK'
  BY <1>1, Returns, ReturnsTyped DEF TypeOK, Results
<1>3. pc'[p] = "done" /\ result'[p] = r /\ lock' # p
  BY <1>1, Returns
<1>4. Session(p)'
  BY <1>3 DEF Session, Phase, Holds, Quiet, Found, Agreed, SameWish
<1> QED BY <1>1, <1>2, <1>4, Returns, StepKeeps

LEMMA AddStep ==
    ASSUME PolicyInv, NEW p \in Procs, Add(p)
    PROVE  PolicyInv'
<1>1. /\ TypeOK /\ Session(p) /\ pc[p] = "adding"
      /\ UNCHANGED <<kind, pending, call, seen>>
      /\ did[p] = "nothing" /\ call[p].spec \in Specs
      /\ call[p].op \in {"ensure", "reconcile", "add"}
  BY DEF PolicyInv, Add, Session, Quiet, Phase
<1> DEFINE ok == IF call[p].op = "add" THEN "done" ELSE "created"
<1>2. Added(p) <=> Return(p, ok)
  BY DEF Added
<1>3. ok \in {"done", "created"} /\ (ok = "created" => call[p].op # "add")
  OBVIOUS
<1> HIDE DEF ok
<1>4. Claim("created") = "created"
  BY Zenon DEF Claim
<1>5. ASSUME NEW r \in {"done", "created", "err"}, Return(p, r), CommitsNothing, UNCHANGED lastId,
             r = "created" => \/ call[p].op # "add" /\ job # NoJob /\ call[p].lenient
                              \/ kind # "columnstore"
      PROVE  PolicyInv'
  <2>1. result'[p] = r /\ did'[p] = "nothing"
    BY <1>1, <1>5, Returns DEF CommitsNothing
  <2>2. Strict(p)'
    BY <1>1, <1>5, <2>1 DEF Strict, Truthful
  <2>3. SameWish /\ kind = "columnstore" /\ r = "created" => InPlace(p)'
    BY <1>1, <1>5 DEF Session, Agreed, Fresh, InPlace, CommitsNothing
  <2> QED BY <1>1, <1>5, <2>2, <2>3, LastStep DEF TypeOK, CommitsNothing, Owned, Results
<1>6. ASSUME NEW r \in {"done", "created", "err"}, Return(p, r),
             Commits(p, NewJob(p), "created"), lastId' = lastId + 1
      PROVE  PolicyInv'
  <2>1. /\ result'[p] = r /\ did'[p] = "created" /\ job' = NewJob(p)
        /\ did' \in [Procs -> {"nothing", "created", "replaced", "removed"}]
        /\ \A q \in Procs \ {p} : UNCHANGED did[q]
    BY <1>1, <1>6, Returns DEF Commits, TypeOK
  <2>2. Strict(p)'
    BY <1>4, <1>6, <2>1 DEF Strict, Truthful
  <2>3. InPlace(p)' /\ Owned(p) /\ job' \in JobType
    BY <1>1, <2>1, NewJobType DEF InPlace, Owned
  <2>4. lastId' \in Nat
    BY <1>1, <1>6 DEF TypeOK
  <2> QED BY <1>1, <1>6, <2>1, <2>2, <2>3, <2>4, LastStep DEF Results
<1>7. \/ /\ job # NoJob /\ CommitsNothing /\ UNCHANGED lastId
         /\ \/ call[p].lenient /\ Return(p, ok)
            \/ Return(p, "err")
      \/ /\ Commits(p, NewJob(p), "created") /\ lastId' = lastId + 1
         /\ Return(p, ok) \/ Return(p, "err")
      \/ kind # "columnstore" /\ Return(p, ok) /\ CommitsNothing /\ UNCHANGED lastId
  BY <1>2 DEF Add
<1> QED BY <1>3, <1>5, <1>6, <1>7

LEMMA RemoveStep ==
    ASSUME PolicyInv, NEW p \in Procs, Remove(p)
    PROVE  PolicyInv'
<1>1. /\ TypeOK /\ Session(p) /\ pc[p] = "removing" /\ call[p].op = "remove"
      /\ UNCHANGED <<kind, lastId, pending, call, seen>>
  BY DEF PolicyInv, Remove, Session, Phase
<1>2. PICK r \in {"done", "err"} : Return(p, r)
  BY DEF Remove
<1>3. job' \in JobType /\ did' \in [Procs -> {"nothing", "created", "replaced", "removed"}]
      /\ \A q \in Procs \ {p} : UNCHANGED did[q]
  BY <1>1 DEF Remove, Commits, CommitsNothing, TypeOK, JobType
<1>4. result'[p] = r
  BY <1>1, <1>2, Returns
<1>5. Strict(p)'
  BY <1>2, <1>4 DEF Strict, Truthful
<1>6. lastId' \in Nat
  BY <1>1 DEF TypeOK
<1> QED BY <1>1, <1>2, <1>3, <1>5, <1>6, LastStep DEF Owned, Results

LEMMA TxRemoveStep ==
    ASSUME PolicyInv, NEW p \in Procs, TxRemove(p)
    PROVE  PolicyInv'
<1>1. /\ TypeOK /\ Session(p) /\ pc[p] = "txRemove" /\ pc'[p] = "txAdd"
      /\ pc' \in [Procs -> Labels] /\ \A q \in Procs \ {p} : UNCHANGED pc[q]
      /\ UNCHANGED <<kind, job, lastId, call, held, seen, result, did>>
  BY DEF PolicyInv, TxRemove, Goto, TypeOK, Labels
<1>2. \/ lock = NoProc /\ lock' = p /\ pending' = NoJob
      \/ job = NoJob /\ UNCHANGED <<lock, pending>>
  BY DEF TxRemove
<1>3. TypeOK'
  BY <1>1, <1>2 DEF TypeOK, JobType
<1>4. Session(p)'
  BY <1>1, <1>2 DEF Session, Phase, Holds, Quiet, Found, Strict, Truthful, Agreed, SameWish, Fresh
<1> QED BY <1>1, <1>2, <1>3, <1>4, StepKeeps DEF Owned

LEMMA TxAddStep ==
    ASSUME PolicyInv, NEW p \in Procs, TxAdd(p)
    PROVE  PolicyInv'
<1>1. /\ TypeOK /\ Session(p) /\ pc[p] = "txAdd" /\ call[p].spec \in Specs
      /\ UNCHANGED <<kind, job, call, seen, did>>
  BY DEF PolicyInv, TxAdd, Session, Phase
<1>2. CASE /\ lock = p \/ (job = NoJob /\ lock = NoProc)
           /\ lock' = p /\ pending' = NewJob(p) /\ lastId' = lastId + 1
           /\ Goto(p, "commit") /\ UNCHANGED <<held, result>>
  <2>1. /\ pc'[p] = "commit" /\ pc' \in [Procs -> Labels]
        /\ \A q \in Procs \ {p} : UNCHANGED pc[q]
    BY <1>1, <1>2 DEF Goto, TypeOK, Labels
  <2>2. pending' \in JobType /\ pending' # NoJob /\ pending'.spec = call[p].spec
    BY <1>1, <1>2, NewJobType
  <2>3. TypeOK'
    BY <1>1, <1>2, <2>1, <2>2 DEF TypeOK
  <2>4. Session(p)'
    BY <1>1, <1>2, <2>1, <2>2
    DEF Session, Phase, Holds, Quiet, Found, Strict, Truthful, Agreed, SameWish
  <2> QED BY <1>1, <1>2, <2>1, <2>3, <2>4, StepKeeps DEF Owned
<1>3. CASE /\ lock # p /\ job # NoJob /\ call[p].lenient
           /\ Goto(p, "commit") /\ UNCHANGED <<held, lock, result, lastId, pending>>
  <2>1. pc'[p] = "commit"
    BY <1>1, <1>3 DEF Goto, TypeOK
  <2>2. Session(p)'
    BY <1>1, <1>3, <2>1
    DEF Session, Phase, Holds, Quiet, Found, Strict, Truthful, Agreed, SameWish, Fresh, InPlace
  <2> QED BY <1>1, <1>3, <2>2, MoveStep DEF Labels, TypeOK
<1>4. CASE Return(p, "err") /\ UNCHANGED <<lastId, pending>>
  BY <1>1, <1>4, ErrorStep
<1> QED BY <1>2, <1>3, <1>4 DEF TxAdd

LEMMA TxCommitStep ==
    ASSUME PolicyInv, NEW p \in Procs, TxCommit(p)
    PROVE  PolicyInv'
<1>1. /\ TypeOK /\ Session(p) /\ pc[p] = "commit" /\ did[p] = "nothing"
      /\ call[p].op \in {"reconcile", "replace"}
      /\ UNCHANGED <<kind, lastId, pending, call, seen>>
  BY DEF PolicyInv, TxCommit, Session, Quiet, Phase
<1>2. PICK r \in {"replaced", "err"} : Return(p, r)
  BY DEF TxCommit
<1>3. result'[p] = r /\ Claim("replaced") = "replaced"
  BY <1>1, <1>2, Returns, Zenon DEF Claim
<1>4. lastId' \in Nat
  BY <1>1 DEF TypeOK
<1>5. CASE lock = p
  <2>1. job' = pending /\ did' = [did EXCEPT ![p] = "replaced"]
    BY <1>5 DEF TxCommit, Commits
  <2>2. pending # NoJob /\ pending.spec = call[p].spec
    BY <1>1, <1>5 DEF Session, Holds
  <2>3. InPlace(p)' /\ Owned(p) /\ job' \in JobType
    BY <1>1, <2>1, <2>2 DEF InPlace, Owned, TypeOK
  <2>4. /\ did'[p] = "replaced" /\ \A q \in Procs \ {p} : UNCHANGED did[q]
        /\ did' \in [Procs -> {"nothing", "created", "replaced", "removed"}]
    BY <1>1, <2>1 DEF TypeOK
  <2>5. Strict(p)'
    BY <1>2, <1>3, <2>4 DEF Strict, Truthful
  <2> QED BY <1>1, <1>2, <1>4, <2>3, <2>4, <2>5, LastStep DEF Results
<1>6. CASE lock # p
  <2>1. UNCHANGED <<job, did>>
    BY <1>6 DEF TxCommit, CommitsNothing
  <2>2. call[p].lenient /\ (SameWish => InPlace(p))
    BY <1>1, <1>6 DEF Session, Holds, Agreed
  <2>3. Strict(p)' /\ (SameWish => InPlace(p)')
    BY <1>1, <2>1, <2>2 DEF Strict, InPlace
  <2> QED BY <1>1, <1>2, <1>4, <2>1, <2>3, LastStep DEF Results, Owned, TypeOK
<1> QED BY <1>5, <1>6

-----------------------------------------------------------------------------
(* The behaviours.                                                         *)

LEMMA NextKeeps ==
    ASSUME PolicyInv, [Next]_vars
    PROVE  PolicyInv'
<1>1. CASE UNCHANGED vars
  BY <1>1 DEF vars, PolicyInv, TypeOK, Session, Phase, Holds, Quiet, Found, Strict, Truthful, Claim,
              Agreed, SameWish, Fresh, InPlace
<1>2. ASSUME NEW p \in Procs, Fail(p) PROVE PolicyInv'
  BY <1>2, ErrorStep DEF Fail
<1>3. ASSUME NEW p \in Procs, Step(p) PROVE PolicyInv'
  BY <1>3, StartStep, RequireCapabilityStep, InspectRowStep, InspectNoRowStep, GetJobStep,
     GetJobStatsStep, TakeConnStep, AddStep, RemoveStep, TxRemoveStep, TxAddStep, TxCommitStep
     DEF Step
<1> QED BY <1>1, <1>2, <1>3 DEF Next

LEMMA InitPolicy == Init => PolicyInv
<1> SUFFICES ASSUME Init PROVE PolicyInv
  OBVIOUS
<1>1. TypeOK
  <2>1. call \in [Procs -> CallType]
    BY CallsAssumption DEF Init
  <2>2. job \in JobType
    BY DEF Init, JobType
  <2> QED BY <2>1, <2>2 DEF Init, TypeOK, JobType, Labels
<1>2. ASSUME NEW p \in Procs PROVE Session(p)
  BY NothingsAssumption
  DEF Init, Session, Phase, Holds, Quiet, Found, Strict, Truthful, Agreed
<1> QED BY <1>1, <1>2 DEF PolicyInv

(* The inductive invariant: the types, and for every session the lock and  *)
(* the pending policy it may hold, what it has found and what it reported. *)
THEOREM PolicyInvariant == Spec => []PolicyInv
<1>1. PolicyInv /\ [Next]_vars => PolicyInv'
  BY NextKeeps
<1> QED BY <1>1, InitPolicy, PTL DEF Spec

(* The variables keep their types.                                         *)
THEOREM TypeCorrect == FairSpec => []TypeOK
<1>1. PolicyInv => TypeOK
  BY DEF PolicyInv
<1> QED BY <1>1, PolicyInvariant, PTL DEF FairSpec

(* A strict columnstore call that reports success did what it reports, for *)
(* any number of other calls: what was added or replaced is its own.       *)
THEOREM StrictReportsAreTrue == FairSpec => []StrictReportsHold
<1>1. PolicyInv => StrictReportsHold
  BY DEF PolicyInv, Session, Strict, StrictReportsHold
<1> QED BY <1>1, PolicyInvariant, PTL DEF FairSpec

(* Services that reconcile, ensure or replace with the same definition end *)
(* up with it, however many there are and whatever fails.                  *)
THEOREM SameWishIsAgreed == FairSpec => []SameWishAgreed
<1>1. PolicyInv => SameWishAgreed
  BY DEF PolicyInv, Session, Agreed, SameWishAgreed, InPlace
<1> QED BY <1>1, PolicyInvariant, PTL DEF FairSpec

(* Nobody but Remove leaves the relation without a policy, and nobody but  *)
(* Reconcile and Replace changes one that exists, in one step.             *)
THEOREM ChangesAreOwned == FairSpec => PolicyChangesOwned
<1> DEFINE Owner(p) == Creates(p) \/ Removes(p) \/ Exchanges(p)
           A == job' # job => \E p \in Procs : Owner(p)
<1>1. ASSUME PolicyInv, [Next]_vars, job' # job PROVE \E p \in Procs : Owner(p)
  <2>1. Next
    BY <1>1 DEF vars
  <2>2. PICK p \in Procs : Step(p) \/ Fail(p)
    BY <2>1 DEF Next
  <2>3. Add(p) \/ Remove(p) \/ TxCommit(p)
    BY <1>1, <2>2
    DEF Step, Fail, Start, RequireCapability, InspectRow, InspectNoRow, GetJob, GetJobStats,
        TakeConn, TxRemove, TxAdd
  <2>4. TypeOK /\ Session(p)
    BY <1>1 DEF PolicyInv
  <2>5. CASE Add(p)
    <3>1. pc[p] = "adding" /\ job = NoJob /\ job' = NewJob(p)
      BY <1>1, <2>5 DEF Add, Commits, CommitsNothing
    <3>2. call[p].op \in {"ensure", "reconcile", "add"} /\ call[p].spec \in Specs
      BY <2>4, <3>1 DEF Session, Phase
    <3> QED BY <2>4, <3>1, <3>2, NewJobType DEF Creates
  <2>6. CASE Remove(p)
    BY <1>1, <2>4, <2>6 DEF Remove, Commits, CommitsNothing, Session, Phase, Removes
  <2>7. CASE TxCommit(p)
    <3>1. pc[p] = "commit" /\ lock = p /\ job' = pending
      BY <1>1, <2>7 DEF TxCommit, Commits, CommitsNothing
    <3>2. /\ pending # NoJob /\ pending.spec = call[p].spec
          /\ call[p].op \in {"reconcile", "replace"}
      BY <2>4, <3>1 DEF Session, Phase, Holds
    <3> QED BY <3>1, <3>2 DEF Creates, Exchanges
  <2> QED BY <2>3, <2>5, <2>6, <2>7
<1>2. PolicyInv /\ [Next]_vars => [A]_vars
  BY <1>1
<1> HIDE DEF Owner
<1>3. Spec => [][A]_vars
  <2> HIDE DEF A
  <2> QED BY <1>2, PolicyInvariant, PTL DEF Spec
<1>4. Spec => PolicyChangesOwned
  BY <1>3 DEF PolicyChangesOwned, Owner
<1> QED BY <1>4, PTL DEF FairSpec

-----------------------------------------------------------------------------
(* The pool.                                                               *)

(* A call holds one connection, nobody else's, where it says Holding, and  *)
(* none elsewhere.                                                         *)
Pooled(p) ==
    /\ \A c, d \in held[p] : c = d
    /\ pc[p] \notin Holding => held[p] = {}

PoolInv ==
    /\ \A p \in Procs : Pooled(p)
    /\ \A p, q \in Procs : p # q => held[p] \cap held[q] = {}

(* A step of p takes a free connection if it has none, or gives back.      *)
LEMMA PoolStep ==
    ASSUME TypeOK, PoolInv, NEW p \in Procs,
           \A q \in Procs \ {p} : UNCHANGED <<pc[q], held[q]>>,
           \/ held'[p] = {}
           \/ held'[p] = held[p] /\ pc'[p] \in Holding
           \/ held[p] = {} /\ pc'[p] \in Holding /\ \E c \in Free : held'[p] = {c}
    PROVE  PoolInv'
<1>1. Pooled(p)'
  BY DEF PoolInv, Pooled
<1>2. \A q \in Procs \ {p} : Pooled(q)'
  BY DEF PoolInv, Pooled
<1>3. ASSUME NEW q \in Procs \ {p} PROVE held'[p] \cap held'[q] = {}
  <2>1. held'[q] = held[q] /\ held[p] \cap held[q] = {} /\ Free \cap held[q] = {}
    BY DEF PoolInv, Free
  <2> QED BY <2>1
<1>4. ASSUME NEW q \in Procs \ {p}, NEW r \in Procs \ {p}, q # r
      PROVE  held'[q] \cap held'[r] = {}
  BY <1>4 DEF PoolInv
<1> QED BY <1>1, <1>2, <1>3, <1>4 DEF PoolInv

LEMMA ReturnFrees ==
    ASSUME TypeOK, PoolInv, NEW p \in Procs, NEW r, Return(p, r)
    PROVE  PoolInv'
<1>1. held'[p] = {} /\ \A q \in Procs \ {p} : UNCHANGED <<pc[q], held[q]>>
  BY DEF Return, Goto, TypeOK
<1> QED BY <1>1, PoolStep

(* A step that moves p, and takes or gives back a connection or neither.   *)
LEMMA MoveFrees ==
    ASSUME TypeOK, PoolInv, NEW p \in Procs, NEW l, Goto(p, l),
           \/ held' = [held EXCEPT ![p] = {}]
           \/ UNCHANGED held /\ (l \in Holding \/ pc[p] \notin Holding)
           \/ Acquire(p) /\ pc[p] \notin Holding /\ l \in Holding
    PROVE  PoolInv'
<1>1. pc'[p] = l /\ \A q \in Procs \ {p} : UNCHANGED pc[q]
  BY DEF Goto, TypeOK
<1>2. Pooled(p) /\ (pc[p] \notin Holding => held[p] = {})
  BY DEF PoolInv, Pooled
<1>3. CASE held' = [held EXCEPT ![p] = {}]
  <2>1. held'[p] = {} /\ \A q \in Procs \ {p} : UNCHANGED held[q]
    BY <1>3 DEF TypeOK
  <2> QED BY <1>1, <2>1, PoolStep
<1>4. CASE UNCHANGED held /\ (l \in Holding \/ pc[p] \notin Holding)
  BY <1>1, <1>2, <1>4, PoolStep
<1>5. CASE Acquire(p) /\ pc[p] \notin Holding /\ l \in Holding
  <2> DEFINE taken == CHOOSE c \in Free : TRUE
  <2>1. taken \in Free
    <3>1. \E c \in Free : TRUE
      BY <1>5 DEF Acquire
    <3> QED BY <3>1, Zenon
  <2>2. held' = [held EXCEPT ![p] = @ \cup {taken}]
    BY <1>5 DEF Acquire
  <2> HIDE DEF taken
  <2>3. held'[p] = {taken} /\ \A q \in Procs \ {p} : UNCHANGED held[q]
    BY <1>2, <1>5, <2>2 DEF TypeOK
  <2> QED BY <1>1, <1>2, <1>5, <2>1, <2>3, PoolStep
<1> QED BY <1>3, <1>4, <1>5

LEMMA PoolNext ==
    ASSUME PolicyInv, PoolInv, [Next]_vars
    PROVE  PoolInv'
<1> TypeOK
  BY DEF PolicyInv
<1>1. CASE UNCHANGED vars
  BY <1>1 DEF vars, PoolInv, Pooled
<1>2. ASSUME NEW p \in Procs, Fail(p) PROVE PoolInv'
  BY <1>2, ReturnFrees DEF Fail
<1>3. ASSUME NEW p \in Procs, Step(p) PROVE PoolInv'
  <2> USE DEF Holding
  <2>1. CASE Start(p)
    <3>1. CASE Return(p, "err")
      BY <3>1, ReturnFrees
    <3>2. CASE /\ pc[p] = "ready" /\ UNCHANGED held
               /\ Goto(p, IF kind = "columnstore" THEN "capability" ELSE Entry(call[p].op))
      BY <3>2, MoveFrees
    <3> QED BY <2>1, <3>1, <3>2 DEF Start
  <2>2. CASE RequireCapability(p)
    BY <2>2, MoveFrees DEF RequireCapability
  <2>3. CASE InspectRow(p)
    BY <2>3, MoveFrees DEF InspectRow
  <2>4. ASSUME Act(p) PROVE PoolInv'
    BY <2>4, MoveFrees, ReturnFrees DEF Act
  <2>5. CASE GetJob(p)
    BY <2>5, MoveFrees, ReturnFrees DEF GetJob
  <2>6. CASE TakeConn(p)
    BY <2>6, MoveFrees DEF TakeConn
  <2>7. CASE Add(p) \/ Remove(p) \/ TxCommit(p)
    BY <2>7, ReturnFrees DEF Add, Added, Remove, TxCommit
  <2>8. CASE TxRemove(p)
    BY <2>8, MoveFrees DEF TxRemove
  <2>9. CASE TxAdd(p)
    BY <2>9, MoveFrees, ReturnFrees DEF TxAdd
  <2> QED BY <1>3, <2>1, <2>2, <2>3, <2>4, <2>5, <2>6, <2>7, <2>8, <2>9
          DEF Step, InspectNoRow, GetJobStats
<1> QED BY <1>1, <1>2, <1>3 DEF Next

(* Fewer calls than connections leave one free.                            *)
LEMMA SpareIsFree ==
    ASSUME PoolInv, SpareConnection
    PROVE  Free # {}
<1> SUFFICES ASSUME Free = {} PROVE FALSE
  OBVIOUS
<1> DEFINE holder == [c \in Conns |-> CHOOSE p \in Procs : c \in held[p]]
<1>1. \A c \in Conns : \E p \in Procs : c \in held[p]
  BY DEF Free
<1>2. \A c \in Conns : holder[c] \in Procs /\ c \in held[holder[c]]
  <2> SUFFICES ASSUME NEW c \in Conns
               PROVE  holder[c] \in Procs /\ c \in held[holder[c]]
    OBVIOUS
  <2>1. \E p \in Procs : c \in held[p]
    BY <1>1
  <2>2. holder[c] = CHOOSE p \in Procs : c \in held[p]
    OBVIOUS
  <2> QED BY <2>1, <2>2, Zenon
<1>3. holder \in [Conns -> Procs]
  BY <1>2
<1> HIDE DEF holder
<1>4. PICK c, d \in Conns : c # d /\ holder[c] = holder[d]
  BY <1>3, FS_PigeonHole DEF SpareConnection
<1> QED BY <1>2, <1>4 DEF PoolInv, Pooled

(* The pool does not run dry of connections that calls wait for and do not *)
(* give back, however many calls there are and whatever fails: Inspect's   *)
(* open rows are the only thing a call holds while it takes a connection,  *)
(* and one spare connection is enough for all.                             *)
THEOREM PoolServesAll == FairSpec => []PoolServes
<1>1. Init => PoolInv
  BY DEF Init, PoolInv, Pooled
<1>2. PolicyInv /\ PoolInv /\ [Next]_vars => PoolInv'
  BY PoolNext
<1>3. PolicyInv /\ PoolInv => PoolServes
  <2> SUFFICES ASSUME PolicyInv, PoolInv PROVE PoolServes
    OBVIOUS
  <2>1. lock # NoProc => pc[lock] \in {"txAdd", "commit"}
    BY DEF PolicyInv, TypeOK, Session, Holds
  <2> QED BY <2>1, SpareIsFree DEF PoolServes, PoolInv, Pooled
<1> QED BY <1>1, <1>2, <1>3, PolicyInvariant, PTL DEF Spec, FairSpec
=============================================================================
