---------------------------- MODULE ServerProofs ----------------------------
(***************************************************************************)
(* Proofs about the operations of the coordinator's HTTP server, for any   *)
(* requests: one that was answered "not started" never runs, and none runs *)
(* after the shutdown's clean-up.                                          *)
(***************************************************************************)
EXTENDS ServerOps, TLAPS

Outcomes == {"none", "not_started", "failed", "done", "converged"}

RequestRecord ==
  [kind : DOMAIN Ops, pc : {"new", "permit", "lock", "begin", "run", "relock", "install", "over"},
   handler : {"here", "gone"}, noWait : BOOLEAN, past : BOOLEAN,
   gate : {"queued", "started", "cancelled"}, taken : Nat, ran : BOOLEAN,
   outcome : Outcomes, answer : Outcomes \cup {"timeout", "unknown", "nobody"}]

OpsTypeOK ==
  /\ req \in [Requests -> RequestRecord] /\ Shutdown \notin Requests
  /\ permits \in [Permits -> SUBSET (Requests \cup {Shutdown})]
  /\ stage \in [at : {"serving", "draining", "quiesce", "cleanup", "exit"}, step : Nat]

(* What one request has come to: work starts at the gate, only the          *)
(* reconcile loop starts it twice, and work that was withdrawn or refused   *)
(* has not started and cannot any more.                                     *)
RequestOK(q) ==
  /\ q.ran <=> q.gate = "started"
  /\ q.pc \in {"new", "permit"} => ~q.ran
  /\ q.pc \in {"lock", "begin"} /\ q.ran => q.kind = "reconcileLoop"
  /\ q.outcome = "not_started" => ~q.ran /\ q.pc = "over"
  /\ q.answer = "not_started" =>
       ~q.ran /\ (q.pc = "over" \/ (Ops[q.kind].gated /\ q.gate = "cancelled"))

(* A worker keeps the permit it was admitted with, or the one a remote      *)
(* resize changed it for.                                                   *)
WorkerHolds(r) ==
  InWorker(r) => \/ r \in permits[Op(r).permit]
                 \/ req[r].kind = "remoteResize" /\ r \in permits["remote"]

(* The boundaries that the shutdown has reached are its own.                *)
Reached(n) ==
  \/ stage.at = "quiesce" /\ n < stage.step
  \/ stage.at \in {"cleanup", "exit"}
BoundariesHeld == \A n \in 1 .. Len(Boundaries) : Reached(n) => permits[Boundaries[n]] = {Shutdown}

OpsInv ==
  /\ OpsTypeOK
  /\ \A r \in Requests : RequestOK(req[r]) /\ WorkerHolds(r)
  /\ BoundariesHeld

(* What the table of operations says of every operation.                    *)
LEMMA OpTable ==
  ASSUME NEW k \in DOMAIN Ops
  PROVE  /\ Ops[k].permit \in Permits \ {"remote"}
         /\ k \notin ReadOnly => \E n \in 1 .. Len(Boundaries) : Ops[k].permit = Boundaries[n]
         /\ k = "remoteResize" => Ops[k].permit = "admin"
         /\ k = "reconcileLoop" => ~Ops[k].timed /\ ~Ops[k].gated
  <1> DEFINE Bounded == {"rebalance", "reconcile", "handoff", "reassign", "stats", "admin", "write"}
  <1>1. \A p \in Bounded : p \in Permits \ {"remote"} /\ \E n \in 1 .. Len(Boundaries) : p = Boundaries[n]
    BY DEF Boundaries, Permits
  <1>2. /\ \A p, n : Timed(p, n).permit = p /\ Patient(p, n).permit = p
        /\ \A p : Reading(p).permit = p
        /\ \A p, n : ~Patient(p, n).timed /\ ~Patient(p, n).gated
    BY Zenon DEF Timed, Patient, Reading
  <1>3. /\ {RebalanceOp.permit, ReconcileOp.permit, GcOp.permit, HandoffOp.permit,
            ReassignOp.permit, ResyncOp.permit, ResizeOp.permit, VocabOp.permit,
            LearnVocabOp.permit, ImportAliasesOp.permit, LearnAliasesOp.permit, FlushOp.permit,
            WriteOp.permit, BulkOp.permit, StatsOp.permit, CatShardsOp.permit,
            HealthOp.permit, ReconcileLoopOp.permit} \subseteq Bounded
        /\ ResizeOp.permit = "admin"
        /\ {CheckpointOp.permit, BackupOp.permit, GetDocOp.permit, SearchOp.permit,
            V2SearchOp.permit, V2BatchOp.permit} \subseteq Permits \ {"remote"}
        /\ ~ReconcileLoopOp.timed /\ ~ReconcileLoopOp.gated
    BY <1>2 DEF RebalanceOp, ReconcileOp, GcOp, HandoffOp, ReassignOp, ResyncOp, ResizeOp, VocabOp,
       LearnVocabOp, ImportAliasesOp, LearnAliasesOp, CheckpointOp, BackupOp, FlushOp, WriteOp,
       BulkOp, StatsOp, CatShardsOp, GetDocOp, HealthOp, SearchOp, V2SearchOp, V2BatchOp,
       ReconcileLoopOp, Permits
  <1>4. {RegisterOp.permit, DeregisterOp.permit, ClusterStateOp.permit} \subseteq Bounded
    BY Zenon DEF RegisterOp, DeregisterOp, ClusterStateOp, Timed, Reading
  <1> HIDE DEF Bounded
  <1>5. /\ k \in ReadOnly \/ Ops[k].permit \in Bounded
        /\ Ops[k].permit \in Bounded \cup (Permits \ {"remote"})
        /\ k = "remoteResize" => Ops[k].permit = "admin"
        /\ k = "reconcileLoop" => ~Ops[k].timed /\ ~Ops[k].gated
    BY <1>3, <1>4 DEF Ops, ReadOnly
  <1> QED
    BY Zenon, <1>1, <1>5

(* One request moves: the others keep their permits, and the shutdown its   *)
(* boundaries.                                                              *)
LEMMA OneRequestSteps ==
  ASSUME OpsInv, NEW r \in Requests, NEW q \in RequestRecord, req' = [req EXCEPT ![r] = q],
         q.kind = req[r].kind, RequestOK(q), stage' = stage,
         permits' \in [Permits -> SUBSET (Requests \cup {Shutdown})], WorkerHolds(r)',
         \A p \in Permits : permits[p] \subseteq permits'[p] \cup {r},
         \A p \in Permits : permits[p] = {Shutdown} => permits'[p] = {Shutdown}
  PROVE  OpsInv'
  <1>1. req \in [Requests -> RequestRecord] /\ Requests' = Requests
    BY Zenon DEF OpsInv, OpsTypeOK, Requests
  <1>2. OpsTypeOK'
    BY Zenon, <1>1 DEF OpsInv, OpsTypeOK
  <1>3. req'[r] = q /\ \A x \in Requests : x # r => req'[x] = req[x]
    BY Zenon, <1>1
  <1>4. \A x \in Requests : RequestOK(req'[x])
    BY Zenon, <1>3 DEF OpsInv
  <1>5. ASSUME NEW x \in Requests, x # r PROVE WorkerHolds(x)'
    <2>1. req[x].kind \in DOMAIN Ops
      BY Zenon, <1>1 DEF RequestRecord
    <2>2. Ops[req[x].kind].permit \in Permits /\ "remote" \in Permits
      BY Zenon, <2>1, OpTable DEF Permits
    <2>3. WorkerHolds(x) /\ req'[x] = req[x]
      BY Zenon, <1>3, <1>5 DEF OpsInv
    <2> QED
      BY Zenon, <1>5, <2>2, <2>3 DEF WorkerHolds, InWorker, AtWork, Op
  <1>6. BoundariesHeld'
    <2>1. \A n \in 1 .. Len(Boundaries) : Boundaries[n] \in Permits
      BY DEF Boundaries, Permits
    <2> QED
      BY Zenon, <2>1 DEF OpsInv, BoundariesHeld, Reached
  <1> QED
    BY Zenon, <1>1, <1>2, <1>4, <1>5, <1>6 DEF OpsInv

(* A request moves with the permits it has.                                 *)
LEMMA SamePermits ==
  ASSUME OpsInv, NEW r \in Requests, NEW q \in RequestRecord, req' = [req EXCEPT ![r] = q],
         q.kind = req[r].kind, RequestOK(q), stage' = stage, permits' = permits,
         q.pc \in {"run", "relock", "install", "lock", "begin"} => InWorker(r)
  PROVE  OpsInv'
  <1>1. permits \in [Permits -> SUBSET (Requests \cup {Shutdown})] /\ req'[r] = q
    BY Zenon DEF OpsInv, OpsTypeOK
  <1>2. WorkerHolds(r)'
    BY Zenon, <1>1 DEF OpsInv, WorkerHolds, InWorker, AtWork, Op
  <1> QED
    BY Zenon, <1>1, <1>2, OneRequestSteps

(* A worker ends, with its permits.                                         *)
LEMMA EndKeepsInv ==
  ASSUME OpsInv, NEW r \in Requests, NEW outcome \in Outcomes, WorkerEnds(r, outcome),
         outcome = "not_started" => ~req[r].ran
  PROVE  OpsInv'
  <1> DEFINE q == [req[r] EXCEPT !.pc = "over", !.outcome = outcome]
  <1>1. req[r] \in RequestRecord /\ RequestOK(req[r]) /\ r # Shutdown
    BY Zenon DEF OpsInv, OpsTypeOK
  <1>2. /\ req' = [req EXCEPT ![r] = q] /\ permits' = [p \in Permits |-> permits[p] \ {r}]
        /\ stage' = stage
    BY Zenon DEF WorkerEnds, ReturnPermits
  <1>3. /\ q \in RequestRecord /\ q.kind = req[r].kind /\ q.pc = "over" /\ q.outcome = outcome
        /\ q.gate = req[r].gate /\ q.ran = req[r].ran /\ q.answer = req[r].answer
    BY Zenon, <1>1 DEF RequestRecord
  <1> HIDE DEF q
  <1>4. RequestOK(q)
    BY Zenon, <1>1, <1>3 DEF RequestOK
  <1>5. permits' \in [Permits -> SUBSET (Requests \cup {Shutdown})]
    BY Zenon, <1>2 DEF OpsInv, OpsTypeOK
  <1>6. req'[r] = q
    BY Zenon, <1>2 DEF OpsInv, OpsTypeOK
  <1>7. WorkerHolds(r)'
    BY Zenon, <1>3, <1>6 DEF WorkerHolds, InWorker, AtWork
  <1>8. \A p \in Permits : /\ permits[p] \subseteq permits'[p] \cup {r}
                           /\ permits[p] = {Shutdown} => permits'[p] = {Shutdown}
    BY Zenon, <1>1, <1>2
  <1> QED
    BY Zenon, <1>2, <1>3, <1>4, <1>5, <1>7, <1>8, OneRequestSteps

(* Before it begins, and in any case when it is held to a deadline or a     *)
(* gate, the work of a queued request has not been done.                    *)
LEMMA QueuedHasNotRun ==
  ASSUME OpsInv, NEW r \in Requests, req[r].pc \in {"lock", "begin"},
         Op(r).timed \/ Op(r).gated \/ req[r].kind # "reconcileLoop"
  PROVE  ~req[r].ran
  <1>1. req[r] \in RequestRecord /\ RequestOK(req[r])
    BY Zenon DEF OpsInv, OpsTypeOK
  <1>2. req[r].kind \in DOMAIN Ops
    BY Zenon, <1>1 DEF RequestRecord
  <1>3. req[r].kind # "reconcileLoop"
    BY Zenon, <1>2, OpTable DEF Op
  <1> QED
    BY Zenon, <1>1, <1>3 DEF RequestOK

(* The handler's side.                                                      *)
LEMMA ArriveKeepsOps == ASSUME OpsInv, NEW r \in Requests, Arrive(r) PROVE OpsInv'
  <1>1. PICK now \in BOOLEAN : req' = [req EXCEPT ![r].pc = "permit", ![r].noWait = now]
    BY Zenon DEF Arrive
  <1> DEFINE j == req[r]
             q == [j EXCEPT !.pc = "permit", !.noWait = now]
  <1>2. j \in RequestRecord /\ RequestOK(j) /\ j.pc = "new"
    BY Zenon DEF OpsInv, OpsTypeOK, Arrive
  <1>3. req' = [req EXCEPT ![r] = q] /\ permits' = permits /\ stage' = stage
    BY Zenon, <1>1 DEF Arrive
  <1>4. /\ q \in RequestRecord /\ q.kind = j.kind /\ q.pc = "permit" /\ q.outcome = j.outcome
        /\ q.gate = j.gate /\ q.ran = j.ran /\ q.answer = j.answer
    BY Zenon, <1>2 DEF RequestRecord
  <1> HIDE DEF q
  <1>5. RequestOK(q)
    BY Zenon, <1>2, <1>4 DEF RequestOK
  <1> QED
    BY Zenon, <1>3, <1>4, <1>5, SamePermits

(* The deadline of a request passes.                                        *)
LEMMA DeadlineKeepsOps == ASSUME OpsInv, NEW r \in Requests, DeadlinePasses(r) PROVE OpsInv'
  <1> DEFINE j == req[r]
             q == [j EXCEPT !.past = TRUE]
  <1>2. j \in RequestRecord /\ RequestOK(j)
    BY Zenon DEF OpsInv, OpsTypeOK
  <1>3. req' = [req EXCEPT ![r] = q] /\ permits' = permits /\ stage' = stage
    BY Zenon DEF DeadlinePasses
  <1>4. /\ q \in RequestRecord /\ q.kind = j.kind /\ q.pc = j.pc /\ q.outcome = j.outcome
        /\ q.gate = j.gate /\ q.ran = j.ran /\ q.answer = j.answer
    BY Zenon, <1>2 DEF RequestRecord
  <1> HIDE DEF q
  <1>5. RequestOK(q)
    BY Zenon, <1>2, <1>4 DEF RequestOK
  <1> QED
    BY Zenon, <1>3, <1>4, <1>5, SamePermits DEF InWorker, AtWork

(* A request takes the permit of its operation.                             *)
LEMMA PermitKeepsOps == ASSUME OpsInv, NEW r \in Requests, AcquirePermit(r) PROVE OpsInv'
  <1> DEFINE j == req[r]
             p == Op(r).permit
             q == [j EXCEPT !.pc = "lock"]
  <1>1. j \in RequestRecord /\ RequestOK(j) /\ j.pc = "permit" /\ r # Shutdown
    BY Zenon DEF OpsInv, OpsTypeOK, AcquirePermit
  <1>2. p \in Permits
    BY Zenon, <1>1, OpTable DEF RequestRecord, Op
  <1>3. /\ req' = [req EXCEPT ![r] = q] /\ permits' = [permits EXCEPT ![p] = @ \cup {r}]
        /\ stage' = stage /\ Shutdown \notin permits[p]
    BY Zenon DEF AcquirePermit, Full
  <1>4. /\ q \in RequestRecord /\ q.kind = j.kind /\ q.pc = "lock" /\ q.outcome = j.outcome
        /\ q.gate = j.gate /\ q.ran = j.ran /\ q.answer = j.answer
    BY Zenon, <1>1 DEF RequestRecord
  <1> HIDE DEF q
  <1>5. RequestOK(q)
    BY Zenon, <1>1, <1>4 DEF RequestOK
  <1>6. permits' \in [Permits -> SUBSET (Requests \cup {Shutdown})] /\ r \in permits'[p]
    BY Zenon, <1>2, <1>3 DEF OpsInv, OpsTypeOK
  <1>7. req'[r] = q
    BY Zenon, <1>3 DEF OpsInv, OpsTypeOK
  <1>8. WorkerHolds(r)'
    BY Zenon, <1>4, <1>6, <1>7 DEF WorkerHolds, Op
  <1>9. \A x \in Permits : /\ permits[x] \subseteq permits'[x] \cup {r}
                           /\ permits[x] = {Shutdown} => permits'[x] = {Shutdown}
    BY Zenon, <1>2, <1>3 DEF OpsInv, OpsTypeOK
  <1> QED
    BY Zenon, <1>3, <1>4, <1>5, <1>6, <1>8, <1>9, OneRequestSteps

(* A request that waited for admission too long is answered and over.       *)
LEMMA AdmissionKeepsOps == ASSUME OpsInv, NEW r \in Requests, AdmissionTimesOut(r) PROVE OpsInv'
  <1> DEFINE j == req[r]
             a == IF Op(r).late = "timeout" THEN "timeout" ELSE "not_started"
             q == [j EXCEPT !.pc = "over", !.handler = "gone", !.answer = a]
  <1>1. j \in RequestRecord /\ RequestOK(j) /\ j.pc = "permit"
    BY Zenon DEF OpsInv, OpsTypeOK, AdmissionTimesOut
  <1>2. a \in {"timeout", "not_started"}
    BY Zenon
  <1>3. req' = [req EXCEPT ![r] = q] /\ permits' = permits /\ stage' = stage
    BY Zenon DEF AdmissionTimesOut
  <1> HIDE DEF a
  <1>4. /\ q \in RequestRecord /\ q.kind = j.kind /\ q.pc = "over" /\ q.outcome = j.outcome
        /\ q.gate = j.gate /\ q.ran = j.ran
    BY Zenon, <1>1, <1>2 DEF RequestRecord, Outcomes
  <1> HIDE DEF q
  <1>5. RequestOK(q)
    BY Zenon, <1>1, <1>4 DEF RequestOK
  <1> QED
    BY Zenon, <1>3, <1>4, <1>5, SamePermits

(* A handler whose deadline passed withdraws the work, or learns that it    *)
(* began.                                                                   *)
LEMMA WakesKeepsOps == ASSUME OpsInv, NEW r \in Requests, HandlerWakes(r) PROVE OpsInv'
  <1> DEFINE j == req[r]
             q(g, a) == [j EXCEPT !.gate = g, !.answer = a, !.handler = "gone"]
  <1>1. j \in RequestRecord /\ RequestOK(j) /\ InWorker(r) /\ permits' = permits /\ stage' = stage
    BY Zenon DEF OpsInv, OpsTypeOK, HandlerWakes
  <1>2. \E g, a : /\ req' = [req EXCEPT ![r] = q(g, a)]
                  /\ \/ /\ g = "cancelled" /\ a = "not_started" /\ j.gate # "started"
                        /\ Op(r).gated
                     \/ g = j.gate /\ a \in {"timeout", "unknown"}
    <2>1. CASE /\ CancelQueued(r) = "cancelled" /\ Op(r).gated
               /\ req' = [req EXCEPT ![r].gate = "cancelled", ![r].answer = "not_started",
                                     ![r].handler = "gone"]
      <3>1. req' = [req EXCEPT ![r] = q("cancelled", "not_started")] /\ j.gate # "started"
        BY Zenon, <2>1 DEF CancelQueued
      <3> QED
        BY Zenon, <2>1, <3>1
    <2>2. ASSUME NEW a \in {"timeout", "unknown"},
                 req' = [req EXCEPT ![r].answer = a, ![r].handler = "gone"]
          PROVE  req' = [req EXCEPT ![r] = q(j.gate, a)]
      <3>1. [j EXCEPT !.answer = a, !.handler = "gone"] = q(j.gate, a)
        BY Zenon, <1>1 DEF RequestRecord
      <3>2. req' = [req EXCEPT ![r] = [j EXCEPT !.answer = a, !.handler = "gone"]]
        BY Zenon, <2>2
      <3> QED
        BY Zenon, <3>1, <3>2
    <2> QED
      BY Zenon, <2>1, <2>2 DEF HandlerWakes
  <1>3. PICK g, a : /\ req' = [req EXCEPT ![r] = q(g, a)]
                    /\ \/ /\ g = "cancelled" /\ a = "not_started" /\ j.gate # "started"
                          /\ Op(r).gated
                       \/ g = j.gate /\ a \in {"timeout", "unknown"}
    BY Zenon, <1>2
  <1> DEFINE k == q(g, a)
  <1>4. req' = [req EXCEPT ![r] = k]
    BY Zenon, <1>3
  <1>5. /\ k \in RequestRecord /\ k.kind = j.kind /\ k.pc = j.pc /\ k.outcome = j.outcome
        /\ k.gate = g /\ k.answer = a /\ k.ran = j.ran
    BY Zenon, <1>1, <1>3 DEF RequestRecord, Outcomes
  <1> HIDE DEF k
  <1>6. RequestOK(k)
    BY Zenon, <1>1, <1>3, <1>5 DEF RequestOK, Op
  <1> QED
    BY Zenon, <1>1, <1>4, <1>5, <1>6, SamePermits

(* A handler answers with the outcome of the work.                          *)
LEMMA AnswersKeepsOps == ASSUME OpsInv, NEW r \in Requests, HandlerAnswers(r) PROVE OpsInv'
  <1> DEFINE j == req[r]
             a == CASE j.kind = "register" -> RegisterAnswer(r)
                    [] j.kind = "deregister" -> DeregisterAnswer(r)
                    [] Op(r).late = "timeout" -> ReadAnswer(r)
                    [] OTHER -> SupervisedAnswer(r)
             q == [j EXCEPT !.handler = "gone", !.answer = a]
  <1>1. /\ j \in RequestRecord /\ RequestOK(j) /\ j.pc = "over"
        /\ permits' = permits /\ stage' = stage
    BY Zenon DEF OpsInv, OpsTypeOK, HandlerAnswers
  <1>2. req' = [req EXCEPT ![r].handler = "gone", ![r].answer = a]
    BY Zenon DEF HandlerAnswers
  <1>3. j.outcome \in Outcomes
    BY Zenon, <1>1 DEF RequestRecord
  <1>4. a \in {j.outcome, "unknown", "timeout"} \/ (a = "not_started" /\ j.gate # "started")
    BY DEF RegisterAnswer, DeregisterAnswer, ReadAnswer, SupervisedAnswer, CancelQueued
  <1> HIDE DEF a
  <1>7. req' = [req EXCEPT ![r] = q]
    BY Zenon, <1>2
  <1>5. /\ q \in RequestRecord /\ q.kind = j.kind /\ q.pc = "over" /\ q.outcome = j.outcome
        /\ q.gate = j.gate /\ q.ran = j.ran /\ q.answer = a
    BY Zenon, <1>1, <1>3, <1>4 DEF RequestRecord, Outcomes
  <1> HIDE DEF q
  <1>6. RequestOK(q)
    BY Zenon, <1>1, <1>4, <1>5 DEF RequestOK
  <1> QED
    BY Zenon, <1>1, <1>5, <1>6, <1>7, SamePermits

(* The client leaves and the handler is dropped.                            *)
LEMMA DroppedKeepsOps == ASSUME OpsInv, NEW r \in Requests, HandlerDropped(r) PROVE OpsInv'
  <1> DEFINE j == req[r]
             p == IF j.pc = "permit" THEN "over" ELSE j.pc
             g == IF Op(r).drops /\ InWorker(r) THEN CancelQueued(r) ELSE j.gate
             q == [j EXCEPT !.handler = "gone", !.pc = p, !.gate = g, !.answer = "nobody"]
  <1>1. j \in RequestRecord /\ RequestOK(j) /\ permits' = permits /\ stage' = stage
    BY Zenon DEF OpsInv, OpsTypeOK, HandlerDropped
  <1>2. req' = [req EXCEPT ![r] = q]
    BY Zenon DEF HandlerDropped
  <1>3. g = j.gate \/ (g = "cancelled" /\ j.gate # "started")
    BY Zenon DEF CancelQueued
  <1>4. p = j.pc \/ (p = "over" /\ j.pc = "permit")
    BY Zenon
  <1> HIDE DEF g, p
  <1>5. /\ q \in RequestRecord /\ q.kind = j.kind /\ q.pc = p /\ q.outcome = j.outcome
        /\ q.gate = g /\ q.ran = j.ran /\ q.answer = "nobody"
    BY Zenon, <1>1, <1>3, <1>4 DEF RequestRecord, Outcomes
  <1> HIDE DEF q
  <1>6. RequestOK(q)
    BY Zenon, <1>1, <1>3, <1>4, <1>5 DEF RequestOK
  <1> QED
    BY Zenon, <1>1, <1>2, <1>4, <1>5, <1>6, SamePermits DEF InWorker, AtWork

(* The worker's side.                                                       *)
LEMMA LockKeepsOps == ASSUME OpsInv, NEW r \in Requests, AcquireLock(r) PROVE OpsInv'
  <1> DEFINE j == req[r]
             q == [j EXCEPT !.taken = j.taken + 1]
  <1>1. /\ j \in RequestRecord /\ RequestOK(j) /\ permits' = permits /\ stage' = stage
        /\ j.pc = "lock" /\ j.taken \in Nat
    BY Zenon DEF OpsInv, OpsTypeOK, AcquireLock, RequestRecord
  <1>2. req' = [req EXCEPT ![r] = q]
    BY Zenon DEF AcquireLock
  <1>3. /\ q \in RequestRecord /\ q.kind = j.kind /\ q.pc = "lock" /\ q.outcome = j.outcome
        /\ q.gate = j.gate /\ q.ran = j.ran /\ q.answer = j.answer
    BY <1>1 DEF RequestRecord
  <1> HIDE DEF q
  <1>4. RequestOK(q)
    BY Zenon, <1>1, <1>3 DEF RequestOK
  <1> QED
    BY Zenon, <1>1, <1>2, <1>3, <1>4, SamePermits DEF InWorker

(* A remote resize swaps the permit it holds.                               *)
LEMMA SwapKeepsOps == ASSUME OpsInv, NEW r \in Requests, SwapPermit(r) PROVE OpsInv'
  <1> DEFINE j == req[r]
             q == [j EXCEPT !.pc = "begin"]
  <1>1. /\ j \in RequestRecord /\ RequestOK(j) /\ j.pc = "lock" /\ j.kind = "remoteResize"
        /\ r # Shutdown
    BY Zenon DEF OpsInv, OpsTypeOK, SwapPermit
  <1>2. ~j.ran
    BY Zenon, <1>1, QueuedHasNotRun
  <1>3. CASE permits["remote"] # {}
    <2>1. WorkerEnds(r, "not_started")
      BY Zenon, <1>3 DEF SwapPermit
    <2> QED
      BY Zenon, <1>2, <2>1, EndKeepsInv DEF Outcomes
  <1>4. CASE permits["remote"] = {}
    <2>1. /\ permits' = [permits EXCEPT !["admin"] = @ \ {r}, !["remote"] = {r}]
          /\ req' = [req EXCEPT ![r] = q] /\ stage' = stage
      BY Zenon, <1>4 DEF SwapPermit
    <2>2. /\ q \in RequestRecord /\ q.kind = j.kind /\ q.pc = "begin" /\ q.outcome = j.outcome
          /\ q.gate = j.gate /\ q.ran = j.ran /\ q.answer = j.answer
      BY Zenon, <1>1 DEF RequestRecord
    <2> HIDE DEF q
    <2>3. RequestOK(q)
      BY Zenon, <1>1, <1>2, <2>2 DEF RequestOK
    <2>4. "admin" \in Permits /\ "remote" \in Permits
      BY Zenon DEF Permits
    <2>5. permits \in [Permits -> SUBSET (Requests \cup {Shutdown})] /\ req'[r] = q
      BY Zenon, <2>1 DEF OpsInv, OpsTypeOK
    <2>6. permits' \in [Permits -> SUBSET (Requests \cup {Shutdown})] /\ r \in permits'["remote"]
      BY Zenon, <2>1, <2>4, <2>5
    <2>7. WorkerHolds(r)'
      BY Zenon, <1>1, <2>2, <2>5, <2>6 DEF WorkerHolds
    <2>8. \A x \in Permits : /\ permits[x] \subseteq permits'[x] \cup {r}
                             /\ permits[x] = {Shutdown} => permits'[x] = {Shutdown}
      BY Zenon, <1>1, <1>4, <2>1, <2>4, <2>5
    <2> QED
      BY Zenon, <2>1, <2>2, <2>3, <2>6, <2>7, <2>8, OneRequestSteps
  <1> QED
    BY Zenon, <1>3, <1>4

(* The worker passes the gate: work starts.                                 *)
LEMMA BeginKeepsOps == ASSUME OpsInv, NEW r \in Requests, Begin(r) PROVE OpsInv'
  <1> DEFINE j == req[r]
             q == [j EXCEPT !.pc = "run", !.gate = "started", !.ran = TRUE]
  <1>1. j \in RequestRecord /\ RequestOK(j) /\ j.pc \in {"lock", "begin"}
    BY Zenon DEF OpsInv, OpsTypeOK, Begin
  <1>2. CASE ~Begins(r)
    <2>1. WorkerEnds(r, "not_started") /\ Op(r).gated
      BY Zenon, <1>2 DEF Begin, Begins
    <2>2. ~j.ran
      BY Zenon, <1>1, <2>1, QueuedHasNotRun
    <2> QED
      BY Zenon, <2>1, <2>2, EndKeepsInv DEF Outcomes
  <1>3. CASE Begins(r)
    <2>1. req' = [req EXCEPT ![r] = q] /\ permits' = permits /\ stage' = stage
      BY Zenon, <1>3 DEF Begin
    <2>2. /\ q \in RequestRecord /\ q.kind = j.kind /\ q.pc = "run" /\ q.outcome = j.outcome
          /\ q.gate = "started" /\ q.ran /\ q.answer = j.answer
      BY Zenon, <1>1 DEF RequestRecord
    <2> HIDE DEF q
    <2>3. j.answer # "not_started" /\ j.outcome # "not_started"
      BY Zenon, <1>1, <1>3 DEF RequestOK, Begins, Op
    <2>4. RequestOK(q)
      BY Zenon, <2>2, <2>3 DEF RequestOK
    <2> QED
      BY Zenon, <1>1, <2>1, <2>2, <2>4, SamePermits DEF InWorker
  <1> QED
    BY Zenon, <1>2, <1>3

(* A remote resize gives up the lock between its two halves.                *)
LEMMA RemotePrepareKeepsOps ==
  ASSUME OpsInv, NEW r \in Requests, NEW pc \in {"relock", "install"}, AtWork(r),
         req' = [req EXCEPT ![r].pc = pc], permits' = permits, stage' = stage
  PROVE  OpsInv'
  <1> DEFINE j == req[r]
             q == [j EXCEPT !.pc = pc]
  <1>1. j \in RequestRecord /\ RequestOK(j) /\ j.pc # "over"
    BY Zenon DEF OpsInv, OpsTypeOK, AtWork
  <1>2. req' = [req EXCEPT ![r] = q]
    BY Zenon
  <1>3. /\ q \in RequestRecord /\ q.kind = j.kind /\ q.pc = pc /\ q.outcome = j.outcome
        /\ q.gate = j.gate /\ q.ran = j.ran /\ q.answer = j.answer
    BY Zenon, <1>1 DEF RequestRecord
  <1> HIDE DEF q
  <1>4. RequestOK(q)
    BY Zenon, <1>1, <1>3 DEF RequestOK
  <1> QED
    BY Zenon, <1>2, <1>3, <1>4, SamePermits DEF InWorker

(* The reconcile loop starts its next sweep.                                *)
LEMMA SweepsKeepsOps == ASSUME OpsInv, NEW r \in Requests, LoopSweeps(r) PROVE OpsInv'
  <1> DEFINE j == req[r]
             q == [j EXCEPT !.pc = "lock", !.taken = 0, !.outcome = "converged"]
  <1>1. /\ j \in RequestRecord /\ RequestOK(j) /\ j.pc = "run" /\ j.kind = "reconcileLoop"
        /\ permits' = permits /\ stage' = stage
    BY Zenon DEF OpsInv, OpsTypeOK, LoopSweeps
  <1>2. req' = [req EXCEPT ![r] = q]
    BY Zenon DEF LoopSweeps
  <1>3. /\ q \in RequestRecord /\ q.kind = j.kind /\ q.pc = "lock" /\ q.outcome = "converged"
        /\ q.gate = j.gate /\ q.ran = j.ran /\ q.answer = j.answer
    BY Zenon, <1>1 DEF RequestRecord, Outcomes
  <1> HIDE DEF q
  <1>4. RequestOK(q)
    BY Zenon, <1>1, <1>3 DEF RequestOK
  <1> QED
    BY Zenon, <1>1, <1>2, <1>3, <1>4, SamePermits DEF InWorker, AtWork

(* Every step of a worker keeps OpsInv.                                     *)
LEMMA WorkerKeepsOps == ASSUME OpsInv, NEW r \in Requests, WorkerStep(r) PROVE OpsInv'
  <1>1. CASE AcquireLock(r)
    BY Zenon, <1>1, LockKeepsOps
  <1>2. CASE LockTimesOut(r)
    <2>1. ~req[r].ran /\ WorkerEnds(r, "not_started")
      BY Zenon, <1>2, QueuedHasNotRun DEF LockTimesOut
    <2> QED
      BY Zenon, <2>1, EndKeepsInv DEF Outcomes
  <1>3. CASE RebuildRefused(r)
    BY Zenon, <1>3, EndKeepsInv DEF RebuildRefused, Outcomes
  <1>4. CASE SwapPermit(r)
    BY Zenon, <1>4, SwapKeepsOps
  <1>5. CASE Begin(r)
    BY Zenon, <1>5, BeginKeepsOps
  <1>6. CASE RemoteInstalls(r)
    BY Zenon, <1>6, RemotePrepareKeepsOps DEF RemoteInstalls, AtWork
  <1>7. CASE Finish(r)
    BY Zenon, <1>7, EndKeepsInv DEF Finish, Outcomes
  <1>8. CASE RemotePrepared(r)
    BY Zenon, <1>8, RemotePrepareKeepsOps DEF RemotePrepared, AtWork
  <1> QED
    BY Zenon, <1>1, <1>2, <1>3, <1>4, <1>5, <1>6, <1>7, <1>8 DEF WorkerStep

(* Every step of a request keeps OpsInv.                                    *)
LEMMA RequestKeepsOps ==
  ASSUME OpsInv, NEW r \in Requests,
         \/ Arrive(r) \/ DeadlinePasses(r) \/ HandlerStep(r) \/ WorkerStep(r)
         \/ DeregisterInUse(r) \/ RemoteFails(r) \/ LoopSweeps(r) \/ HandlerDropped(r)
  PROVE  OpsInv'
  <1>1. CASE DeregisterInUse(r) \/ RemoteFails(r)
    BY Zenon, <1>1, EndKeepsInv DEF DeregisterInUse, RemoteFails, Outcomes
  <1>2. CASE HandlerStep(r)
    BY Zenon, <1>2, PermitKeepsOps, AdmissionKeepsOps, WakesKeepsOps, AnswersKeepsOps DEF HandlerStep
  <1> QED
    BY Zenon, <1>1, <1>2, ArriveKeepsOps, DeadlineKeepsOps, WorkerKeepsOps, SweepsKeepsOps, DroppedKeepsOps

(* The shutdown.                                                            *)
LEMMA DrainKeepsOps == ASSUME OpsInv, DrainEnds PROVE OpsInv'
  <1>1. /\ req' = [r \in Requests |->
               IF req[r].kind = "reconcileLoop" /\ HandlerHere(r)
               THEN [req[r] EXCEPT !.handler = "gone", !.answer = "nobody",
                                   !.pc = IF @ = "permit" THEN "over" ELSE @]
               ELSE req[r]]
        /\ permits' = permits /\ stage' = [at |-> "quiesce", step |-> 1]
    BY Zenon DEF DrainEnds
  <1>2. Requests' = Requests
    BY Zenon, <1>1 DEF Requests
  <1>3. ASSUME NEW r \in Requests
        PROVE  LET j == req[r] q == req'[r] IN
               /\ j \in RequestRecord /\ RequestOK(j) /\ q \in RequestRecord /\ q.kind = j.kind
               /\ q.gate = j.gate /\ q.ran = j.ran /\ q.outcome = j.outcome
               /\ q.pc = j.pc \/ (q.pc = "over" /\ j.pc = "permit")
               /\ q.answer \in {j.answer, "nobody"}
    <2> DEFINE j == req[r]
               p == IF j.pc = "permit" THEN "over" ELSE j.pc
               k == [j EXCEPT !.handler = "gone", !.answer = "nobody", !.pc = p]
    <2>1. j \in RequestRecord /\ RequestOK(j)
      BY Zenon DEF OpsInv, OpsTypeOK
    <2>2. req'[r] = j \/ req'[r] = k
      BY Zenon, <1>1
    <2>3. p = j.pc \/ (p = "over" /\ j.pc = "permit")
      BY Zenon
    <2> HIDE DEF p
    <2>4. /\ k \in RequestRecord /\ k.kind = j.kind /\ k.gate = j.gate /\ k.ran = j.ran
          /\ k.outcome = j.outcome /\ k.pc = p /\ k.answer = "nobody"
      BY Zenon, <2>1, <2>3 DEF RequestRecord, Outcomes
    <2> HIDE DEF k
    <2> QED
      BY Zenon, <2>1, <2>2, <2>3, <2>4
  <1>4. \A r \in Requests : RequestOK(req'[r])
    BY <1>3 DEF RequestOK
  <1>5. \A r \in Requests : WorkerHolds(r)'
    BY Zenon, <1>1, <1>3 DEF OpsInv, WorkerHolds, InWorker, AtWork, Op
  <1>6. OpsTypeOK'
    BY Zenon, <1>1, <1>2, <1>3 DEF OpsInv, OpsTypeOK
  <1>7. BoundariesHeld'
    <2>1. stage'.at = "quiesce" /\ stage'.step = 1
      BY Zenon, <1>1
    <2>2. \A n \in 1 .. Len(Boundaries) : ~(n < 1)
      BY DEF Boundaries
    <2> QED
      BY Zenon, <2>1, <2>2 DEF BoundariesHeld, Reached
  <1> QED
    BY Zenon, <1>2, <1>4, <1>5, <1>6, <1>7 DEF OpsInv

(* The shutdown takes the permits of the boundaries one after the other.    *)
LEMMA QuiesceKeepsOps == ASSUME OpsInv, Quiesce PROVE OpsInv'
  <1> DEFINE b == Boundaries[stage.step]
  <1>1. /\ stage \in [at : {"serving", "draining", "quiesce", "cleanup", "exit"}, step : Nat]
        /\ stage.at = "quiesce" /\ stage.step <= Len(Boundaries) /\ permits[b] = {}
        /\ permits' = [permits EXCEPT ![b] = {Shutdown}] /\ req' = req
        /\ stage' = [stage EXCEPT !.step = @ + 1]
        /\ permits \in [Permits -> SUBSET (Requests \cup {Shutdown})]
    BY Zenon DEF Quiesce, OpsInv, OpsTypeOK
  <1>2. /\ stage'.at = "quiesce" /\ stage'.step = stage.step + 1 /\ stage.step \in Nat
        /\ stage' \in [at : {"serving", "draining", "quiesce", "cleanup", "exit"}, step : Nat]
    BY <1>1
  <1>3. Requests' = Requests
    BY Zenon, <1>1 DEF Requests
  <1>4. \A n \in 1 .. Len(Boundaries) : Boundaries[n] \in Permits
    BY DEF Boundaries, Permits
  <1>5. BoundariesHeld'
    BY <1>1, <1>2, <1>4 DEF OpsInv, BoundariesHeld, Reached
  <1>6. permits' \in [Permits -> SUBSET (Requests \cup {Shutdown})]
    BY Zenon, <1>1
  <1>7. OpsTypeOK'
    BY Zenon, <1>1, <1>2, <1>3, <1>6 DEF OpsInv, OpsTypeOK
  <1>8. \A p \in Permits : permits[p] \subseteq permits'[p]
    BY Zenon, <1>1
  <1>9. ASSUME NEW r \in Requests PROVE RequestOK(req'[r]) /\ WorkerHolds(r)'
    <2>1. req[r].kind \in DOMAIN Ops
      BY Zenon DEF OpsInv, OpsTypeOK, RequestRecord
    <2>2. Ops[req[r].kind].permit \in Permits /\ "remote" \in Permits
      BY Zenon, <2>1, OpTable DEF Permits
    <2> QED
      BY Zenon, <1>1, <1>8, <2>2 DEF OpsInv, WorkerHolds, InWorker, AtWork, Op
  <1> QED
    BY Zenon, <1>3, <1>5, <1>7, <1>9 DEF OpsInv

(* The shutdown moves on: to the clean-up only with every boundary held.    *)
LEMMA StageKeepsOps ==
  ASSUME OpsInv, req' = req, permits' = permits, stage' = [stage EXCEPT !.at = stage'.at],
         \/ stage.at = "serving" /\ stage'.at = "draining"
         \/ stage.at = "quiesce" /\ stage'.at = "cleanup" /\ stage.step > Len(Boundaries)
         \/ stage.at = "cleanup" /\ stage'.at = "exit"
         \/ stage'.at = stage.at
  PROVE  OpsInv'
  <1>1. stage \in [at : {"serving", "draining", "quiesce", "cleanup", "exit"}, step : Nat]
    BY Zenon DEF OpsInv, OpsTypeOK
  <1>2. stage' \in [at : {"serving", "draining", "quiesce", "cleanup", "exit"}, step : Nat]
        /\ stage'.step = stage.step /\ stage.step \in Nat
    BY Zenon, <1>1
  <1>3. Requests' = Requests
    BY Zenon DEF Requests
  <1>4. OpsTypeOK'
    BY Zenon, <1>2, <1>3 DEF OpsInv, OpsTypeOK
  <1>5. Len(Boundaries) \in Nat
    BY Zenon DEF Boundaries
  <1>6. BoundariesHeld'
    BY <1>2, <1>5 DEF OpsInv, BoundariesHeld, Reached
  <1> QED
    BY Zenon, <1>3, <1>4, <1>6 DEF OpsInv, WorkerHolds, InWorker, AtWork, Op

-----------------------------------------------------------------------------
(* OpsInv holds at the start.                                               *)
LEMMA OpsInitially == ASSUME OpsInit PROVE OpsInv
  <1>1. PICK plan \in Plans :
          req = [r \in DOMAIN plan |->
                   [kind |-> plan[r], pc |-> "new", handler |-> "here", noWait |-> FALSE,
                    past |-> FALSE, gate |-> "queued", taken |-> 0, ran |-> FALSE,
                    outcome |-> "none", answer |-> "none"]]
    BY Zenon DEF OpsInit
  <1>2. Requests = DOMAIN plan
    BY Zenon, <1>1 DEF Requests
  <1>3. \A r \in Requests : plan[r] \in DOMAIN Ops /\ r # Shutdown
    BY Zenon, <1>2, PlansAssumption
  <1>4. req \in [Requests -> RequestRecord]
    BY Zenon, <1>1, <1>2, <1>3 DEF RequestRecord, Outcomes
  <1>5. OpsTypeOK
    BY Zenon, <1>3, <1>4 DEF OpsInit, OpsTypeOK
  <1>6. \A r \in Requests : RequestOK(req[r]) /\ WorkerHolds(r)
    BY Zenon, <1>1, <1>2 DEF RequestOK, WorkerHolds, InWorker, AtWork
  <1>7. BoundariesHeld
    BY Zenon DEF OpsInit, BoundariesHeld, Reached
  <1> QED
    BY Zenon, <1>5, <1>6, <1>7 DEF OpsInv

(* Every step keeps OpsInv.                                                 *)
LEMMA OpsStepKeepsInv == ASSUME OpsInv, [OpsNext]_opsVars PROVE OpsInv'
  <1>1. CASE \E r \in Requests :
               \/ Arrive(r) \/ DeadlinePasses(r) \/ HandlerStep(r) \/ WorkerStep(r)
               \/ DeregisterInUse(r) \/ RemoteFails(r) \/ LoopSweeps(r) \/ HandlerDropped(r)
    BY Zenon, <1>1, RequestKeepsOps
  <1>2. CASE DrainEnds
    BY Zenon, <1>2, DrainKeepsOps
  <1>3. CASE Quiesce
    BY Zenon, <1>3, QuiesceKeepsOps
  <1>4. stage \in [at : {"serving", "draining", "quiesce", "cleanup", "exit"}, step : Nat]
    BY Zenon DEF OpsInv, OpsTypeOK
  <1>5. CASE Signal \/ Cleanup \/ Exit
    <2>1. /\ req' = req /\ permits' = permits /\ stage' = [stage EXCEPT !.at = stage'.at]
          /\ \/ stage.at = "serving" /\ stage'.at = "draining"
             \/ stage.at = "quiesce" /\ stage'.at = "cleanup" /\ stage.step > Len(Boundaries)
             \/ stage.at = "cleanup" /\ stage'.at = "exit"
      BY Zenon, <1>4, <1>5 DEF Signal, Cleanup, Exit
    <2> QED
      BY Zenon, <2>1, StageKeepsOps
  <1>6. CASE UNCHANGED opsVars
    <2>1. req' = req /\ permits' = permits /\ stage' = stage
      BY Zenon, <1>6 DEF opsVars
    <2>2. stage' = [stage EXCEPT !.at = stage'.at]
      BY Zenon, <1>4, <2>1
    <2> QED
      BY Zenon, <2>1, <2>2, StageKeepsOps
  <1> QED
    BY Zenon, <1>1, <1>2, <1>3, <1>5, <1>6 DEF OpsNext, ShutdownStep, Stopped

(* What the invariant says of the caller and of the clean-up.               *)
LEMMA OpsInvTells == ASSUME OpsInv PROVE NothingRunsUntold
  <1>1. NotStartedNeverRuns
    BY Zenon DEF OpsInv, RequestOK, NotStartedNeverRuns
  <1>2. ASSUME stage.at \in {"cleanup", "exit"}, NEW r \in Requests, req[r].kind \notin ReadOnly,
               InWorker(r)
        PROVE  FALSE
    <2> DEFINE k == req[r].kind
    <2>1. k \in DOMAIN Ops /\ r # Shutdown
      BY Zenon DEF OpsInv, OpsTypeOK, RequestRecord
    <2>2. \A n \in 1 .. Len(Boundaries) : r \notin permits[Boundaries[n]]
      BY <1>2, <2>1 DEF OpsInv, BoundariesHeld, Reached
    <2>3. \E n \in 1 .. Len(Boundaries) : Ops[k].permit = Boundaries[n]
      BY Zenon, <1>2, <2>1, OpTable
    <2>4. \E n \in 1 .. Len(Boundaries) : "remote" = Boundaries[n]
      BY DEF Boundaries
    <2>5. r \in permits[Ops[k].permit] \/ r \in permits["remote"]
      BY Zenon, <1>2 DEF OpsInv, WorkerHolds, Op
    <2> QED
      BY Zenon, <2>2, <2>3, <2>4, <2>5
  <1> QED
    BY Zenon, <1>1, <1>2 DEF NothingRunsUntold, CleanupIsLast

(* A caller told that its operation did not start can rely on it, and the   *)
(* shutdown's last flush and checkpoint have nothing running beside or      *)
(* after them (the begin and cancel_queued functions of the gate,           *)
(* quiesce_detached_work): for any requests and any number of slots.        *)
THEOREM NothingRuns == OpsSpec => []NothingRunsUntold
  <1>1. OpsInit => OpsInv
    BY Zenon, OpsInitially
  <1>2. OpsInv /\ [OpsNext]_opsVars => OpsInv'
    BY Zenon, OpsStepKeepsInv
  <1>3. OpsInv => NothingRunsUntold
    BY Zenon, OpsInvTells
  <1> QED
    BY <1>1, <1>2, <1>3, PTL DEF OpsSpec
=============================================================================
