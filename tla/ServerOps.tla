----------------------------- MODULE ServerOps -----------------------------
(***************************************************************************)
(* Operations of the cluster coordinator's HTTP server: how a request is   *)
(* admitted, how its work is handed to a worker thread that outlives the   *)
(* request, which locks that worker takes and in which order, how a        *)
(* deadline or a vanished client withdraws work that has not started, and  *)
(* how shutdown waits for the workers before its last flush and            *)
(* checkpoint.                                                             *)
(*                                                                         *)
(* One record per endpoint says what its handler asks for; the actions are *)
(* the steps all the handlers share.  What the operation itself does to    *)
(* the cluster is the subject of other modules: here it is a step that     *)
(* begins, runs for a while and ends.                                      *)
(***************************************************************************)
EXTENDS Integers, FiniteSets, Sequences

CONSTANTS Plans,        \* which requests come (each to one endpoint, or a loop's pass)
          WriteSlots,   \* MAX_QUEUED_CLUSTER_WRITES
          SearchSlots   \* max_concurrent_searches

VARIABLES req,       \* each request: its handler, its gate, its worker
          permits,   \* who holds the permits of each semaphore
          locks,     \* who holds each read-write lock
          stage      \* how far the process has come in its life

opsVars == <<req, permits, locks, stage>>

NoLocks == <<>>
Shared(l) == <<[lock |-> l, mode |-> "read"]>>
Alone(l) == <<[lock |-> l, mode |-> "write"]>>

(* What a handler asks for: a permit, then locks in this order; whether it  *)
(* waits with a deadline (timed) or as long as it takes, and whether a zero *)
(* deadline means "take what is free" (zero); whether dropping the handler  *)
(* withdraws queued work (drops); and what it answers when the deadline     *)
(* finds the work started (late).                                           *)
Timed(permit, needs) ==
  [permit |-> permit, needs |-> needs, timed |-> TRUE, zero |-> TRUE, gated |-> TRUE,
   drops |-> TRUE, late |-> "waits", blocks |-> FALSE]
Patient(permit, needs) ==
  [permit |-> permit, needs |-> needs, timed |-> FALSE, zero |-> FALSE, gated |-> FALSE,
   drops |-> FALSE, late |-> "waits", blocks |-> TRUE]

(* A read answers "timed out" at its deadline; the worker it detached       *)
(* finishes and gives the permit back.                                      *)
Reading(permit) ==
  [Timed(permit, NoLocks) EXCEPT !.zero = FALSE, !.gated = FALSE, !.drops = FALSE,
                                 !.late = "timeout"]

RebalanceOp == Timed("rebalance", Shared("topology"))
ReconcileOp == Timed("reconcile", Shared("topology"))
GcOp == Timed("reconcile", Shared("topology"))
HandoffOp == Timed("handoff", Shared("topology"))
ReassignOp == Timed("reassign", Shared("topology"))
ResyncOp == Timed("admin", Alone("admission"))
ResizeOp == Timed("admin", Alone("topology") \o Alone("admission"))

(* Membership changes have no drop guard, wait for the lock even when the   *)
(* caller would not, and answer "outcome unknown" at the deadline.          *)
RegisterOp ==
  [Timed("admin", Alone("topology")) EXCEPT
     !.drops = FALSE, !.late = "unknown", !.blocks = TRUE]
DeregisterOp ==
  [Timed("admin", Alone("topology")) EXCEPT
     !.drops = FALSE, !.late = "unknown", !.blocks = TRUE]

VocabOp == Patient("admin", Alone("topology") \o Alone("admission"))
LearnVocabOp == Patient("admin", Alone("topology") \o Alone("admission"))
ImportAliasesOp == Patient("admin", Alone("topology") \o Alone("admission"))
LearnAliasesOp == Patient("admin", Alone("topology") \o Alone("admission"))
CheckpointOp == Patient("durability", Alone("admission"))
BackupOp == Patient("durability", Alone("admission"))
FlushOp == Patient("write", Alone("flush") \o Alone("admission"))
WriteOp == Patient("write", Shared("admission"))
BulkOp == Patient("write", Shared("admission"))
StatsOp == Patient("stats", NoLocks)
CatShardsOp == Patient("stats", NoLocks)
GetDocOp == Patient("read", NoLocks)
ClusterStateOp == [Reading("stats") EXCEPT !.zero = TRUE]
HealthOp == Reading("stats")
SearchOp == Reading("search")
V2SearchOp == Reading("search")
V2BatchOp == Reading("search")
ReconcileLoopOp == Patient("reconcile", Shared("topology"))

Ops ==
  [rebalance |-> RebalanceOp, reconcile |-> ReconcileOp, gc |-> GcOp,
   handoff |-> HandoffOp, reassign |-> ReassignOp, resync |-> ResyncOp,
   resize |-> ResizeOp, remoteResize |-> ResizeOp, register |-> RegisterOp,
   deregister |-> DeregisterOp, vocab |-> VocabOp, learnVocab |-> LearnVocabOp,
   importAliases |-> ImportAliasesOp, learnAliases |-> LearnAliasesOp,
   checkpoint |-> CheckpointOp, backup |-> BackupOp, flush |-> FlushOp,
   write |-> WriteOp, bulk |-> BulkOp, stats |-> StatsOp, catShards |-> CatShardsOp,
   getDoc |-> GetDocOp, clusterState |-> ClusterStateOp, health |-> HealthOp,
   search |-> SearchOp, v2Search |-> V2SearchOp, v2Batch |-> V2BatchOp,
   reconcileLoop |-> ReconcileLoopOp]

Rebuilds == {"vocab", "learnVocab", "importAliases", "learnAliases"}
ReadOnly == {"stats", "checkpoint", "backup", "catShards", "getDoc", "clusterState", "health",
             "search", "v2Search", "v2Batch"}

Permits == {"rebalance", "reconcile", "handoff", "reassign", "stats", "admin", "remote",
            "write", "durability", "search", "read"}
ReadSlots == 64
Capacity(p) ==
  CASE p = "write" -> WriteSlots
    [] p = "search" -> SearchSlots
    [] p = "read" -> ReadSlots
    [] OTHER -> 1
LockNames == {"topology", "admission", "flush"}

(* quiesce_detached_work takes the whole of each semaphore, in this order.  *)
Boundaries == <<"rebalance", "reconcile", "handoff", "reassign", "stats", "admin",
                "remote", "write">>

Shutdown == "shutdown"
Requests == DOMAIN req
AllRequests == UNION {DOMAIN plan : plan \in Plans}

ASSUME PlansAssumption ==
  \A plan \in Plans : \A r \in DOMAIN plan : plan[r] \in DOMAIN Ops /\ r # Shutdown

Op(r) == Ops[req[r].kind]
HandlerHere(r) == req[r].handler = "here"
AtWork(r) == req[r].pc \in {"run", "relock", "install"}
InWorker(r) == AtWork(r) \/ req[r].pc \in {"lock", "begin"}
Next1(r) == Op(r).needs[req[r].taken + 1]

Full(p) == Shutdown \in permits[p] \/ Cardinality(permits[p]) >= Capacity(p)

(* A queued writer holds back the readers that come after it.               *)
Parked(l) ==
  \/ \E r \in Requests :
       \/ /\ req[r].pc = "lock"
          /\ req[r].taken < Len(Op(r).needs)
          /\ Next1(r).lock = l /\ Next1(r).mode = "write"
          /\ ~req[r].noWait \/ Op(r).blocks
       \/ l = "admission" /\ req[r].pc = "relock"
  \/ l = "admission" /\ stage.at = "quiesce" /\ stage.step > Len(Boundaries)

CanTake(l, mode) ==
  /\ locks[l].writer = {}
  /\ mode = "write" => locks[l].readers = {}
  /\ mode = "read" => ~Parked(l)

Take(l, mode, who) ==
  [locks EXCEPT ![l] = IF mode = "write" THEN [@ EXCEPT !.writer = {who}]
                       ELSE [@ EXCEPT !.readers = @ \cup {who}]]

DropAll(r) ==
  [l \in LockNames |-> [writer |-> locks[l].writer \ {r}, readers |-> locks[l].readers \ {r}]]

ReturnPermits(r) == [p \in Permits |-> permits[p] \ {r}]

\* Mutant: the worker does not look at the gate.
BeginsAnyway(r) == TRUE

(* The gate of a supervised operation: the worker's begin and the           *)
(* handler's cancel_queued decide under one mutex who was first.            *)
Begins(r) ==
  \/ ~Op(r).gated
  \/ req[r].gate # "cancelled" /\ (req[r].noWait \/ ~req[r].past)

CancelQueued(r) == IF req[r].gate = "started" THEN "started" ELSE "cancelled"

OpsInit ==
  /\ \E plan \in Plans :
       req = [r \in DOMAIN plan |->
                [kind |-> plan[r], pc |-> "new", handler |-> "here", noWait |-> FALSE,
                 past |-> FALSE, gate |-> "queued", taken |-> 0, ran |-> FALSE,
                 outcome |-> "none", answer |-> "none"]]
  /\ permits = [p \in Permits |-> {}]
  /\ locks = [l \in LockNames |-> [writer |-> {}, readers |-> {}]]
  /\ stage = [at |-> "serving", step |-> 0]

(* A request arrives; a timed one names its manager timeout, zero meaning   *)
(* "do not wait".                                                           *)
Arrive(r) ==
  /\ req[r].pc = "new" /\ stage.at = "serving"
  /\ \E now \in BOOLEAN :
       /\ now => Op(r).zero
       /\ req' = [req EXCEPT ![r].pc = "permit", ![r].noWait = now]
  /\ UNCHANGED <<permits, locks, stage>>

(* The clock passes the request's deadline.                                 *)
DeadlinePasses(r) ==
  /\ Op(r).timed /\ ~req[r].noWait /\ ~req[r].past
  /\ req[r].pc # "new" /\ (req[r].pc # "over" \/ HandlerHere(r))
  /\ req' = [req EXCEPT ![r].past = TRUE]
  /\ UNCHANGED <<permits, locks, stage>>

(* The permit is the handler's until it moves into the worker, which        *)
(* happens in the same poll.                                                *)
AcquirePermit(r) ==
  LET p == Op(r).permit IN
  /\ req[r].pc = "permit" /\ HandlerHere(r) /\ ~req[r].past
  /\ ~Full(p)
  /\ permits' = [permits EXCEPT ![p] = @ \cup {r}]
  /\ req' = [req EXCEPT ![r].pc = "lock"]
  /\ UNCHANGED <<locks, stage>>

(* No permit in time: nothing was dispatched.                               *)
AdmissionTimesOut(r) ==
  /\ req[r].pc = "permit" /\ HandlerHere(r)
  /\ req[r].past \/ (req[r].noWait /\ Full(Op(r).permit))
  /\ req' = [req EXCEPT ![r].pc = "over", ![r].handler = "gone",
                        ![r].answer = IF Op(r).late = "timeout" THEN "timeout"
                                      ELSE "not_started"]
  /\ UNCHANGED <<permits, locks, stage>>

AcquireLock(r) ==
  /\ req[r].pc = "lock" /\ req[r].taken < Len(Op(r).needs)
  /\ req[r].past => ~Op(r).timed
  /\ CanTake(Next1(r).lock, Next1(r).mode)
  /\ locks' = Take(Next1(r).lock, Next1(r).mode, r)
  /\ req' = [req EXCEPT ![r].taken = @ + 1]
  /\ UNCHANGED <<permits, stage>>

WorkerEnds(r, outcome) ==
  /\ req' = [req EXCEPT ![r].pc = "over", ![r].outcome = outcome]
  /\ locks' = DropAll(r)
  /\ permits' = ReturnPermits(r)
  /\ UNCHANGED stage

(* The lock is not free in time, or at once when the caller will not wait.  *)
LockTimesOut(r) ==
  /\ req[r].pc = "lock" /\ Op(r).timed /\ req[r].taken < Len(Op(r).needs)
  /\ \/ req[r].past
     \/ req[r].noWait /\ ~Op(r).blocks /\ ~CanTake(Next1(r).lock, Next1(r).mode)
  /\ WorkerEnds(r, "not_started")

(* admit_rebuild gives up while a remote resize fences writes.              *)
RebuildRefused(r) ==
  /\ req[r].kind \in Rebuilds /\ req[r].pc = "lock" /\ req[r].taken = 0
  /\ \E q \in Requests : req[q].kind = "remoteResize" /\ req[q].pc \in {"relock", "install"}
  /\ WorkerEnds(r, "failed")

(* All locks are held.  A remote resize first swaps its administrative      *)
(* permit for one of its own, without waiting for it.                       *)
SwapPermit(r) ==
  /\ req[r].kind = "remoteResize" /\ req[r].pc = "lock"
  /\ req[r].taken = Len(Op(r).needs)
  /\ IF permits["remote"] = {}
     THEN /\ permits' = [permits EXCEPT !["admin"] = @ \ {r}, !["remote"] = {r}]
          /\ req' = [req EXCEPT ![r].pc = "begin"]
          /\ UNCHANGED <<locks, stage>>
     ELSE WorkerEnds(r, "not_started")

Begin(r) ==
  /\ \/ req[r].pc = "lock" /\ req[r].taken = Len(Op(r).needs) /\ req[r].kind # "remoteResize"
     \/ req[r].pc = "begin"
  /\ IF Begins(r)
     THEN /\ req' = [req EXCEPT ![r].pc = "run", ![r].gate = "started", ![r].ran = TRUE]
          /\ UNCHANGED <<permits, locks, stage>>
     ELSE WorkerEnds(r, "not_started")

(* A node still in use is refused before the gate is passed.                *)
DeregisterInUse(r) ==
  /\ req[r].kind = "deregister" /\ req[r].pc = "lock" /\ req[r].taken = Len(Op(r).needs)
  /\ WorkerEnds(r, "failed")

(* Once its write fence is up a remote resize lets writers in again (they   *)
(* are turned away by the fence) and comes back for the exclusive lock to   *)
(* install the new layout.                                                  *)
RemotePrepared(r) ==
  /\ req[r].kind = "remoteResize" /\ req[r].pc = "run"
  /\ locks' = [locks EXCEPT !["admission"].writer = @ \ {r}]
  /\ req' = [req EXCEPT ![r].pc = "relock"]
  /\ UNCHANGED <<permits, stage>>

RemoteInstalls(r) ==
  /\ req[r].pc = "relock" /\ CanTake("admission", "write")
  /\ locks' = Take("admission", "write", r)
  /\ req' = [req EXCEPT ![r].pc = "install"]
  /\ UNCHANGED <<permits, stage>>

(* The operation returns; the worker drops its locks and its permit.        *)
Finish(r) ==
  /\ req[r].pc \in {"run", "install"}
  /\ req[r].pc = "run" => req[r].kind # "remoteResize"
  /\ \E outcome \in {"done", "failed"} : WorkerEnds(r, outcome)

RemoteFails(r) ==
  /\ req[r].kind = "remoteResize" /\ req[r].pc \in {"run", "relock"}
  /\ WorkerEnds(r, "failed")

(* After a converged pass the reconcile loop sweeps orphans: it keeps its   *)
(* permit and takes the topology lock again.                                *)
LoopSweeps(r) ==
  /\ req[r].kind = "reconcileLoop" /\ req[r].pc = "run" /\ HandlerHere(r)
  /\ req[r].outcome = "none"
  /\ locks' = DropAll(r)
  /\ req' = [req EXCEPT ![r].pc = "lock", ![r].taken = 0, ![r].outcome = "converged"]
  /\ UNCHANGED <<permits, stage>>

(* The deadline wakes the handler while the worker is still queued or at    *)
(* work.                                                                    *)
HandlerWakes(r) ==
  /\ InWorker(r) /\ HandlerHere(r) /\ Op(r).timed /\ req[r].past
  /\ \/ /\ CancelQueued(r) = "cancelled" /\ Op(r).gated
        /\ req' = [req EXCEPT ![r].gate = "cancelled", ![r].answer = "not_started",
                              ![r].handler = "gone"]
     \/ /\ Op(r).late = "timeout"
        /\ req' = [req EXCEPT ![r].answer = "timeout", ![r].handler = "gone"]
     \/ /\ CancelQueued(r) = "started" /\ Op(r).late = "unknown"
        /\ req' = [req EXCEPT ![r].answer = "unknown", ![r].handler = "gone"]
  /\ UNCHANGED <<permits, locks, stage>>

(* What the handler makes of the worker's result: a supervised operation    *)
(* passes it on, a membership change and a read are also held to their      *)
(* deadline.                                                                *)
SupervisedAnswer(r) == req[r].outcome
RegisterAnswer(r) ==
  IF req[r].outcome # "not_started" /\ req[r].past THEN "unknown" ELSE req[r].outcome
DeregisterAnswer(r) ==
  IF req[r].outcome # "not_started" /\ req[r].past
  THEN IF CancelQueued(r) = "cancelled" THEN "not_started" ELSE "unknown"
  ELSE req[r].outcome
ReadAnswer(r) == IF req[r].past THEN "timeout" ELSE req[r].outcome

HandlerAnswers(r) ==
  /\ req[r].pc = "over" /\ HandlerHere(r)
  /\ req' = [req EXCEPT
       ![r].handler = "gone",
       ![r].answer = CASE req[r].kind = "register" -> RegisterAnswer(r)
                       [] req[r].kind = "deregister" -> DeregisterAnswer(r)
                       [] Op(r).late = "timeout" -> ReadAnswer(r)
                       [] OTHER -> SupervisedAnswer(r)]
  /\ UNCHANGED <<permits, locks, stage>>

(* The client leaves (or a background loop is aborted): the handler is      *)
(* dropped.  Before the permit that ends the request; after it the worker   *)
(* runs on, unless the drop guard withdraws it first.                       *)
HandlerDropped(r) ==
  /\ HandlerHere(r) /\ req[r].pc # "new"
  /\ req' = [req EXCEPT
       ![r].handler = "gone",
       ![r].pc = IF @ = "permit" THEN "over" ELSE @,
       ![r].gate = IF Op(r).drops /\ InWorker(r) THEN CancelQueued(r) ELSE @,
       ![r].answer = "nobody"]
  /\ UNCHANGED <<permits, locks, stage>>

(* SIGTERM: no new request is taken.  The drain ends when every handler has *)
(* answered, or at the drain timeout with some still running.  The          *)
(* background loop is aborted with it.                                      *)
Signal ==
  /\ stage.at = "serving" /\ stage' = [stage EXCEPT !.at = "draining"]
  /\ UNCHANGED <<req, permits, locks>>

DrainEnds ==
  /\ stage.at = "draining"
  /\ stage' = [at |-> "quiesce", step |-> 1]
  /\ req' = [r \in Requests |->
               IF req[r].kind = "reconcileLoop" /\ HandlerHere(r)
               THEN [req[r] EXCEPT !.handler = "gone", !.answer = "nobody",
                                   !.pc = IF @ = "permit" THEN "over" ELSE @]
               ELSE req[r]]
  /\ UNCHANGED <<permits, locks>>

Quiesce ==
  /\ stage.at = "quiesce" /\ stage.step <= Len(Boundaries)
  /\ permits[Boundaries[stage.step]] = {}
  /\ permits' = [permits EXCEPT ![Boundaries[stage.step]] = {Shutdown}]
  /\ stage' = [stage EXCEPT !.step = @ + 1]
  /\ UNCHANGED <<req, locks>>

(* The last flush and checkpoint run alone under write_admission.           *)
Cleanup ==
  /\ stage.at = "quiesce" /\ stage.step > Len(Boundaries)
  /\ CanTake("admission", "write")
  /\ locks' = Take("admission", "write", Shutdown)
  /\ stage' = [stage EXCEPT !.at = "cleanup"]
  /\ UNCHANGED <<req, permits>>

Exit ==
  /\ stage.at = "cleanup"
  /\ locks' = [locks EXCEPT !["admission"].writer = {}]
  /\ stage' = [stage EXCEPT !.at = "exit"]
  /\ UNCHANGED <<req, permits>>

Stopped == stage.at = "exit" /\ UNCHANGED opsVars

WorkerStep(r) ==
  \/ AcquireLock(r) \/ LockTimesOut(r) \/ RebuildRefused(r) \/ SwapPermit(r)
  \/ Begin(r) \/ RemoteInstalls(r) \/ Finish(r) \/ RemotePrepared(r)

HandlerStep(r) ==
  AcquirePermit(r) \/ AdmissionTimesOut(r) \/ HandlerWakes(r) \/ HandlerAnswers(r)

ShutdownStep == DrainEnds \/ Quiesce \/ Cleanup \/ Exit

OpsNext ==
  \/ \E r \in Requests :
       \/ Arrive(r) \/ DeadlinePasses(r) \/ HandlerStep(r) \/ WorkerStep(r)
       \/ DeregisterInUse(r) \/ RemoteFails(r) \/ LoopSweeps(r) \/ HandlerDropped(r)
  \/ Signal \/ ShutdownStep \/ Stopped

OpsFairness ==
  /\ \A r \in AllRequests : WF_opsVars(r \in Requests /\ WorkerStep(r)) /\ WF_opsVars(r \in Requests /\ HandlerStep(r))
  /\ WF_opsVars(ShutdownStep)

OpsSpec == OpsInit /\ [][OpsNext]_opsVars /\ OpsFairness

-----------------------------------------------------------------------------
(* A caller told that its operation did not start (408, "no ... was         *)
(* started") can rely on it: the worker, still queued behind a lock, never  *)
(* begins afterwards (the begin and cancel_queued functions of the gate).   *)
NotStartedNeverRuns ==
  \A r \in Requests : req[r].answer = "not_started" => ~req[r].ran

(* The shutdown flush and checkpoint are the last thing that happens to the *)
(* cluster: no change is at work while they run, and none that was admitted *)
(* earlier, by a client since gone or behind a lock, runs after them        *)
(* (quiesce_detached_work).                                                 *)
CleanupIsLast ==
  stage.at \in {"cleanup", "exit"} =>
    \A r \in Requests : req[r].kind \notin ReadOnly => ~InWorker(r)

(* Whatever mixture of detached workers, remote resizes and waiting         *)
(* handlers the signal finds, the boundaries are all obtained and the       *)
(* process exits: no worker waits for something shutdown already holds.     *)
ShutdownEnds == (stage.at = "draining") ~> (stage.at = "exit")

(* Every request is over in the end, unless shutdown took its permit: no    *)
(* two endpoints take topology_guard, flush_serial and write_admission in   *)
(* orders that wait for each other.                                         *)
RequestsEnd ==
  \A r \in AllRequests :
    (r \in Requests /\ req[r].pc = "permit") ~> ((r \in Requests /\ req[r].pc = "over") \/ stage.at = "exit")

(* What a worker does, its caller and the shutdown know of: an operation    *)
(* reported as not started never runs, and none runs after the clean-up.    *)
NothingRunsUntold == NotStartedNeverRuns /\ CleanupIsLast
=============================================================================
