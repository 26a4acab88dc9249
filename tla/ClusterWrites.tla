---------------------------- MODULE ClusterWrites ----------------------------
(***************************************************************************)
(* Incremental writes of a cluster coordinator and the reads that run      *)
(* beside them.  A create, an upsert or a remove takes the lock of its id, *)
(* reserves the id in the logical-id directory, and fans shard writes out; *)
(* each shard answers, or fails having applied the write or not.  A write  *)
(* that did not reach every shard is queued for repair.  A reader probes   *)
(* the shards its title routes to, one by one, and repeats a pass that a   *)
(* moving upsert overlapped.                                               *)
(*                                                                         *)
(* The id lock is the one WriteLocks describes and the fence the one       *)
(* MoveFence describes; here each is a variable that holds its owner.      *)
(***************************************************************************)
EXTENDS Naturals, Sequences, FiniteSets, FiniteSetsExt

CONSTANTS Shards,      \* shard positions, numbers
          Ids,         \* logical ids
          Placements,  \* placements a query version can have
          Titles,      \* titles that match every version, as the shards they route to
          Writers, Readers,
          None,
          Attempts,    \* OPTIMISTIC_ATTEMPTS: passes before a reader excludes movers
          MaxWrites,   \* bound on the mutations that are started
          Budgets      \* what else a behaviour may contain: one of these

ASSUME ShardsAssumption == Shards \subseteq Nat /\ Shards # {}
ASSUME BoundsAssumption == MaxWrites \in Nat /\ Attempts \in Nat \ {0}

(* Shard writes that fail, coordinator restarts, whether a shard may apply  *)
(* a write after its caller gave up, and whether there are reads.           *)
Budget == [faults : Nat, restarts : Nat, late : BOOLEAN, reads : BOOLEAN]

ASSUME BudgetsAssumption == Budgets \subseteq Budget

VARIABLES
  rows,        \* the live rows of each id on each shard
  dir,         \* the logical-id directory: ids in use or reserved
  authoritative, converged,   \* what the directory may attest
  pending,     \* pending_repair: id -> the queued mutation and its shards
  idLock,      \* who holds the lock of each id
  mover,       \* who holds the mover lock of the move fence
  job,         \* what each writer is doing
  pass,        \* what each reader is doing
  late,        \* shard writes still under way whose caller gave up
  writes, budget,
  \* for the properties only
  live,        \* ids with an acknowledged version and no remove begun since
  expected,    \* what the last acknowledged write of an id left, or None
  disturbed    \* ids a late write reached since their last remove began

cluster == <<rows, dir, authoritative, converged, pending>>
locks == <<idLock, mover>>
ghosts == <<live, expected, disturbed>>
vars == <<cluster, locks, job, pass, late, writes, budget, ghosts>>

(***************************************************************************)
(* Placements and owners.                                                  *)
(***************************************************************************)
Selective(at) == [mode |-> "selective", at |-> at]
AlwaysVisible == [mode |-> "always", at |-> Shards]
Broad == [mode |-> "broad", at |-> Shards]

ASSUME PlacementsAssumption ==
  Placements \subseteq
    {Selective(at) : at \in (SUBSET Shards) \ {{}}} \cup {AlwaysVisible, Broad}

(* Mutant: the owner is taken from the placement without the route.         *)
OwnerOfPlacement(p, t) == Min(p.at)

(* The one position that may emit a row with placement p for title t, the   *)
(* lowest common one for a selective row.                                   *)
Owner(p, t) == CASE p.mode = "selective" -> IF p.at \cap t.routed = {} THEN None
                                            ELSE Min(p.at \cap t.routed)
                 [] p.mode = "always" -> Min(t.routed)
                 [] p.mode = "broad" -> t.broad

(* A title that matches a version routes to a shard that stores it.         *)
ASSUME TitlesAssumption ==
  \A t \in Titles : /\ t.routed \in (SUBSET Shards) \ {{}}
                    /\ t.broad \in t.routed
                    /\ \A p \in Placements : Owner(p, t) # None

Row == [v : 1..MaxWrites, p : Placements]

(* What shard s gives a reader for title t: the rows it is the owner of.    *)
Emits(s, t) == {[id |-> i, s |-> s, v |-> rows[s][i][k].v] :
                  <<i, k>> \in {x \in Ids \X (1..MaxWrites) :
                     x[2] \in DOMAIN rows[s][x[1]] /\ Owner(rows[s][x[1]][x[2]].p, t) = s}}

(***************************************************************************)
(* One shard write.                                                        *)
(***************************************************************************)
(* Engine::held_placement is Same: there is a copy, and each has p.         *)
HeldSame(held, p) == held # <<>> /\ \A k \in DOMAIN held : held[k].p = p

(* The live rows of the id on the shard after write q.                      *)
AfterWrite(held, q) ==
  CASE q.do = "insert" -> Append(held, [v |-> q.v, p |-> q.p])
    [] q.do = "replace" -> <<[v |-> q.v, p |-> q.p]>>
    [] q.do = "replace_same" -> IF HeldSame(held, q.p) THEN <<[v |-> q.v, p |-> q.p]>> ELSE held
    [] q.do = "delete" -> <<>>

(* What is on every shard once a mutation is complete.                      *)
Complete(op, v, p) ==
  [s \in Shards |-> IF op # "remove" /\ s \in p.at THEN <<[v |-> v, p |-> p]>> ELSE <<>>]

(***************************************************************************)
(* Writers.  A step is under way while todo is not empty.                  *)
(***************************************************************************)
Idle == [pc |-> "idle", op |-> "none", id |-> None, v |-> 0, p |-> None, todo |-> {},
         failed |-> {}, declined |-> {}, clears |-> {}, replaced |-> FALSE,
         absent |-> FALSE, strays |-> FALSE, ids |-> {}, create |-> None]

Steps == {"insert", "install", "rewrite", "sweep", "delete", "store", "clear"}

(* repair_form: a queued add is sent again as a replace.                    *)
RepairForm(op) == IF op = "add" THEN "upsert" ELSE op

(* The write a step sends.                                                  *)
Sent(j) ==
  [do |-> CASE j.pc = "insert" -> "insert"
            [] j.pc = "install" /\ ~j.absent -> "replace_same"
            [] j.pc \in {"install", "rewrite"} -> "replace"
            [] j.pc = "store" /\ RepairForm(j.op) = "upsert" -> "replace"
            [] j.pc = "store" /\ RepairForm(j.op) = "add" -> "insert"
            [] OTHER -> "delete",
   id |-> j.id, v |-> j.v, p |-> j.p]

(* A step is under way on all its shards at once; a repair goes shard by    *)
(* shard.                                                                   *)
Due(j) == IF j.pc \in {"store", "clear"} /\ j.todo # {} THEN {Min(j.todo)} ELSE j.todo

Begin(w, j) == job' = [job EXCEPT ![w] = j]
Return(w) == /\ job' = [job EXCEPT ![w] = Idle]
             /\ idLock' = [i \in Ids |-> IF idLock[i] = w THEN None ELSE idLock[i]]

(* A resync goes on with its next id; any other job returns.                *)
Continue(w, j) ==
  /\ job' = [job EXCEPT ![w] = IF j.create # None \/ j.ids = {} THEN Idle
                               ELSE [Idle EXCEPT !.pc = "resync", !.ids = j.ids]]
  /\ idLock' = [idLock EXCEPT ![j.id] = None]

(* A shard applied the write and answered.                                  *)
Answers(w, s) ==
  LET j == job[w]  q == Sent(j)  held == rows[s][j.id]
      declines == q.do = "replace_same" /\ ~HeldSame(held, j.p) IN
  /\ j.pc \in Steps /\ s \in Due(j)
  /\ rows' = [rows EXCEPT ![s][j.id] = AfterWrite(held, q)]
  /\ Begin(w, [j EXCEPT !.todo = @ \ {s},
                        !.declined = IF declines THEN @ \cup {s} ELSE @,
                        !.replaced = @ \/ (q.do = "replace" /\ held # <<>>)])
  /\ UNCHANGED <<dir, authoritative, converged, pending, locks, pass, late, writes, budget, ghosts>>

(* The caller is told the shard write failed.  The shard has applied it,    *)
(* never will, or is still going to.                                        *)
Fails(w, s) ==
  LET j == job[w]  q == Sent(j) IN
  /\ j.pc \in Steps /\ s \in Due(j) /\ budget.faults > 0
  /\ \/ rows' = [rows EXCEPT ![s][j.id] = AfterWrite(@, q)] /\ UNCHANGED late
     \/ UNCHANGED <<rows, late>>
     \/ budget.late /\ late' = late \cup {[s |-> s, q |-> q]} /\ UNCHANGED rows
  /\ budget' = [budget EXCEPT !.faults = @ - 1]
  /\ Begin(w, [j EXCEPT !.todo = @ \ {s}, !.failed = @ \cup {s}])
  /\ UNCHANGED <<dir, authoritative, converged, pending, locks, pass, writes, ghosts>>

(* A write whose caller gave up reaches the engine of its shard.            *)
ArrivesLate(x) ==
  /\ rows' = [rows EXCEPT ![x.s][x.q.id] = AfterWrite(@, x.q)]
  /\ late' = late \ {x}
  /\ disturbed' = disturbed \cup {x.q.id}
  /\ UNCHANGED <<dir, authoritative, converged, pending, locks, job, pass, writes, budget,
                 live, expected>>

(***************************************************************************)
(* The move fence and the end of a write.                                  *)
(***************************************************************************)
Torn == [r \in Readers |-> [pass[r] EXCEPT !.torn = @ \/ pass[r].pc = "read"]]

BeginMove(w) == mover = None /\ mover' = w /\ pass' = Torn
EndMove(w) == mover' = IF mover = w THEN None ELSE mover

Queued(m, i, e) == [k \in DOMAIN m \cup {i} |-> IF k = i THEN e ELSE m[k]]
Unqueued(m, i) == [k \in DOMAIN m \ {i} |-> m[k]]

(* note_partial: the mutation is queued for the shards `at`.                *)
Partial(w, at) ==
  LET j == job[w] IN
  /\ pending' = Queued(pending, j.id, [op |-> j.op, v |-> j.v, p |-> j.p, at |-> at])
  /\ Return(w) /\ EndMove(w)
  /\ UNCHANGED <<rows, dir, authoritative, converged, pass, late, writes, budget, ghosts>>

(* Every shard took the write: it supersedes what was queued for the id.    *)
Acknowledge(w) ==
  LET j == job[w] IN
  /\ pending' = Unqueued(pending, j.id)
  /\ dir' = IF j.op = "remove" THEN dir \ {j.id} ELSE dir
  /\ live' = IF j.op = "remove" THEN live ELSE live \cup {j.id}
  /\ expected' = [expected EXCEPT ![j.id] = Complete(j.op, j.v, j.p)]
  /\ Return(w) /\ EndMove(w)
  /\ UNCHANGED <<rows, authoritative, converged, pass, late, writes, budget, disturbed>>

(***************************************************************************)
(* Create.                                                                 *)
(***************************************************************************)
StartCreate(w, i, p) ==
  /\ job[w] = Idle /\ writes < MaxWrites
  /\ Begin(w, [Idle EXCEPT !.pc = "early", !.op = "add", !.id = i, !.p = p])
  /\ UNCHANGED <<cluster, locks, pass, late, writes, budget, ghosts>>

(* No conflict yet, or no directory that could show one: go on to compile.  *)
EarlyCheck(w) ==
  LET j == job[w] IN
  /\ j.pc = "early"
  /\ ~authoritative \/ (idLock[j.id] = None /\ j.id \notin dir)
  /\ Begin(w, [j EXCEPT !.pc = "compiled"])
  /\ UNCHANGED <<cluster, locks, pass, late, writes, budget, ghosts>>

(* Take the queued repair of id i and send it to the shards it has to       *)
(* reach: first those that store the new version, then the others.          *)
Redrive(w, i, create, ids) ==
  LET e == pending[i]
      stores == IF RepairForm(e.op) = "upsert" THEN e.at \cap e.p.at ELSE e.at IN
  /\ pending' = Unqueued(pending, i)
  /\ idLock' = [idLock EXCEPT ![i] = w]
  /\ Begin(w, [Idle EXCEPT !.pc = "store", !.op = e.op, !.id = i, !.v = e.v, !.p = e.p,
                           !.todo = stores, !.clears = e.at \ stores,
                           !.create = create, !.ids = ids])
  /\ expected' = [expected EXCEPT ![i] = None]
  /\ UNCHANGED <<rows, dir, authoritative, converged, mover, pass, late, writes, budget,
                 live, disturbed>>

(* create_conflict: the id is in use.  A repair queued for it is sent       *)
(* first; otherwise the create is refused.                                  *)
Conflict(w) ==
  LET j == job[w] IN
  /\ j.pc \in {"early", "compiled"} /\ authoritative
  /\ idLock[j.id] = None /\ j.id \in dir
  /\ IF j.id \in DOMAIN pending
     THEN Redrive(w, j.id, [phase |-> j.pc, p |-> j.p], {})
     ELSE Return(w) /\ UNCHANGED <<cluster, mover, pass, late, writes, budget, ghosts>>

(* Malformed, over a limit, class D, or no directory to check against.      *)
RefuseCreate(w) ==
  /\ job[w].pc = "compiled"
  /\ Return(w)
  /\ UNCHANGED <<cluster, mover, pass, late, writes, budget, ghosts>>

(* The check under the lock that the reservation is made under.             *)
MayReserve(w) ==
  LET j == job[w] IN
  /\ \/ j.pc = "compiled" /\ idLock[j.id] = None
     \/ j.pc = "reserve" /\ idLock[j.id] = w
  /\ authoritative /\ j.id \notin dir

(* The id is reserved, the add logged, and sent to its shards.              *)
Reserve(w) ==
  LET j == job[w] IN
  /\ MayReserve(w) /\ writes < MaxWrites
  /\ dir' = dir \cup {j.id}
  /\ writes' = writes + 1
  /\ idLock' = [idLock EXCEPT ![j.id] = w]
  /\ Begin(w, [j EXCEPT !.pc = "insert", !.v = writes + 1, !.todo = j.p.at])
  /\ expected' = [expected EXCEPT ![j.id] = None]
  /\ UNCHANGED <<rows, authoritative, converged, pending, mover, pass, late, budget,
                 live, disturbed>>

(* The coordinator log refuses the record: a fresh reservation is undone.   *)
LogRefuses(w) ==
  LET j == job[w] IN
  /\ MayReserve(w)
  /\ dir' = (dir \cup {j.id}) \ {j.id}
  /\ Return(w)
  /\ UNCHANGED <<rows, authoritative, converged, pending, mover, pass, late, writes, budget, ghosts>>

InsertDone(w) ==
  /\ job[w].pc = "insert" /\ job[w].todo = {}
  /\ IF job[w].failed = {} THEN Acknowledge(w) ELSE Partial(w, job[w].failed)

(***************************************************************************)
(* Upsert and remove.                                                      *)
(***************************************************************************)
Outside(j) == Shards \ j.p.at

(* Mutant: a queued repair is no reason to look for stray copies.           *)
StraysIfUnconverged(i) == ~(authoritative /\ converged)

(* A shard outside the new placement may hold a stale copy.                 *)
StraysPossible(i) == i \in DOMAIN pending \/ ~(authoritative /\ converged)

(* No shard holds a copy: the id is new to a directory that lists them all. *)
KnownAbsent(i) == i \notin dir /\ i \notin DOMAIN pending /\ authoritative

(* The upsert is logged and sent: to a shard that may hold a copy, on the   *)
(* condition that the copy has the same placement.  (An append that fails   *)
(* undoes a fresh reservation, and nothing has happened.)                   *)
StartUpsert(w, i, p) ==
  /\ job[w] = Idle /\ writes < MaxWrites /\ idLock[i] = None
  /\ dir' = dir \cup {i}
  /\ writes' = writes + 1
  /\ idLock' = [idLock EXCEPT ![i] = w]
  /\ Begin(w, [Idle EXCEPT !.pc = "install", !.op = "upsert", !.id = i, !.v = writes + 1,
                           !.p = p, !.todo = p.at, !.absent = KnownAbsent(i),
                           !.strays = StraysPossible(i)])
  /\ expected' = [expected EXCEPT ![i] = None]
  /\ UNCHANGED <<rows, authoritative, converged, pending, mover, pass, late, budget,
                 live, disturbed>>

Sweep(w) == Begin(w, [job[w] EXCEPT !.pc = "sweep", !.todo = Outside(job[w])])

(* Every placement shard has answered.  Shards that declined hold nothing,  *)
(* or another placement: the query moves, and the rest runs in the fence.   *)
InstallDone(w) ==
  LET j == job[w] IN
  /\ j.pc = "install" /\ j.todo = {}
  /\ \/ /\ j.declined # {}
        /\ BeginMove(w)
        /\ Begin(w, [j EXCEPT !.pc = "rewrite", !.todo = j.declined])
        /\ UNCHANGED <<cluster, idLock, late, writes, budget, ghosts>>
     \/ /\ j.declined = {} /\ j.failed # {}
        /\ Partial(w, j.failed \cup (IF j.absent /\ ~j.replaced THEN {} ELSE Outside(j)))
     \/ /\ j.declined = {} /\ j.failed = {}
        /\ IF j.absent /\ j.replaced
           THEN /\ BeginMove(w) /\ Sweep(w)
                /\ UNCHANGED <<cluster, idLock, late, writes, budget, ghosts>>
           ELSE IF ~j.absent /\ j.strays
           THEN Sweep(w) /\ UNCHANGED <<cluster, locks, pass, late, writes, budget, ghosts>>
           ELSE Acknowledge(w)

(* The shards that declined have been rewritten.  Copies elsewhere are      *)
(* removed once every placement shard holds the new version.                *)
RewriteDone(w) ==
  LET j == job[w] IN
  /\ j.pc = "rewrite" /\ j.todo = {}
  /\ IF j.failed = {}
     THEN Sweep(w) /\ UNCHANGED <<cluster, locks, pass, late, writes, budget, ghosts>>
     ELSE Partial(w, j.failed \cup Outside(j))

SweepDone(w) ==
  /\ job[w].pc = "sweep" /\ job[w].todo = {}
  /\ IF job[w].failed = {} THEN Acknowledge(w) ELSE Partial(w, job[w].failed)

(* A remove goes to every shard.                                            *)
StartRemove(w, i) ==
  /\ job[w] = Idle /\ writes < MaxWrites /\ idLock[i] = None
  /\ writes' = writes + 1
  /\ idLock' = [idLock EXCEPT ![i] = w]
  /\ Begin(w, [Idle EXCEPT !.pc = "delete", !.op = "remove", !.id = i, !.v = writes + 1,
                           !.todo = Shards])
  /\ live' = live \ {i}
  /\ expected' = [expected EXCEPT ![i] = None]
  /\ disturbed' = disturbed \ {i}
  /\ pass' = [r \in Readers |-> [pass[r] EXCEPT !.steady = @ \ {i}]]
  /\ UNCHANGED <<cluster, mover, late, budget>>

DeleteDone(w) ==
  /\ job[w].pc = "delete" /\ job[w].todo = {}
  /\ IF job[w].failed = {} THEN Acknowledge(w) ELSE Partial(w, job[w].failed)

(***************************************************************************)
(* Repair.                                                                 *)
(***************************************************************************)
(* The pass takes the queued ids, not the mutations.                        *)
StartResync(w) ==
  /\ job[w] = Idle /\ DOMAIN pending # {}
  /\ Begin(w, [Idle EXCEPT !.pc = "resync", !.ids = DOMAIN pending])
  /\ UNCHANGED <<cluster, locks, pass, late, writes, budget, ghosts>>

ResyncNext(w, i) ==
  LET j == job[w]  left == j.ids \ {i} IN
  /\ j.pc = "resync" /\ i \in j.ids /\ idLock[i] = None
  /\ IF i \in DOMAIN pending
     THEN Redrive(w, i, None, left)
     ELSE /\ Begin(w, IF left = {} THEN Idle ELSE [j EXCEPT !.ids = left])
          /\ UNCHANGED <<cluster, locks, pass, late, writes, budget, ghosts>>

(* Some shard still refuses: what is left is queued again.                  *)
Requeue(w, at) ==
  LET j == job[w] IN
  /\ pending' = Queued(pending, j.id, [op |-> j.op, v |-> j.v, p |-> j.p, at |-> at])
  /\ Continue(w, j)
  /\ UNCHANGED <<rows, dir, authoritative, converged, mover, pass, late, writes, budget, ghosts>>

StoreDone(w) ==
  LET j == job[w] IN
  /\ j.pc = "store" /\ j.todo = {}
  /\ IF j.failed = {}
     THEN /\ Begin(w, [j EXCEPT !.pc = "clear", !.todo = j.clears])
          /\ UNCHANGED <<cluster, locks, pass, late, writes, budget, ghosts>>
     ELSE Requeue(w, j.failed \cup j.clears)

(* A create that sent the repair goes on when that freed the id.            *)
AfterRedrive(w, j, ids) ==
  IF j.create = None \/ j.id \in ids THEN Continue(w, j)
  ELSE LET c == [Idle EXCEPT !.op = "add", !.id = j.id, !.p = j.create.p] IN
       IF j.create.phase = "early"
       THEN /\ Begin(w, [c EXCEPT !.pc = "compiled"])
            /\ idLock' = [idLock EXCEPT ![j.id] = None]
       ELSE Begin(w, [c EXCEPT !.pc = "reserve"]) /\ UNCHANGED idLock

ClearDone(w) ==
  LET j == job[w] IN
  /\ j.pc = "clear" /\ j.todo = {}
  /\ IF j.failed # {} THEN Requeue(w, j.failed)
     ELSE /\ dir' = IF j.op = "remove" THEN dir \ {j.id} ELSE dir
          /\ live' = IF j.op = "remove" THEN live \ {j.id} ELSE live \cup {j.id}
          /\ expected' = [expected EXCEPT ![j.id] = Complete(j.op, j.v, j.p)]
          /\ AfterRedrive(w, j, dir')
          /\ UNCHANGED <<rows, authoritative, converged, pending, mover, pass, late, writes, budget,
                         disturbed>>

(***************************************************************************)
(* Readers.  A pass starts while no move is under way and counts if none   *)
(* began meanwhile; after Attempts of them a reader keeps movers out.      *)
(***************************************************************************)
NoPass == [pc |-> "idle", title |-> None, todo |-> {}, found |-> {}, torn |-> FALSE,
           tries |-> 0, steady |-> {}]

Fresh(t, n) == [pc |-> "read", title |-> t, todo |-> t.routed, found |-> {}, torn |-> FALSE,
                tries |-> n, steady |-> live]

StartPass(r, t) ==
  /\ budget.reads /\ pass[r] = NoPass /\ mover \notin Writers
  /\ pass' = [pass EXCEPT ![r] = Fresh(t, 1)]
  /\ UNCHANGED <<cluster, locks, job, late, writes, budget, ghosts>>

Probe(r, s) ==
  /\ s \in pass[r].todo
  /\ pass' = [pass EXCEPT ![r].todo = @ \ {s}, ![r].found = @ \cup Emits(s, pass[r].title)]
  /\ UNCHANGED <<cluster, locks, job, late, writes, budget, ghosts>>

Acceptable(r) == pass[r].pc = "read" /\ pass[r].todo = {} /\ ~pass[r].torn

Accept(r) ==
  /\ Acceptable(r)
  /\ pass' = [pass EXCEPT ![r] = NoPass]
  /\ EndMove(r)
  /\ UNCHANGED <<cluster, idLock, job, late, writes, budget, ghosts>>

Retry(r) ==
  /\ pass[r].pc = "read" /\ pass[r].todo = {} /\ ~Acceptable(r)
  /\ pass' = [pass EXCEPT ![r] = Fresh(pass[r].title, pass[r].tries + 1)]
  /\ IF pass[r].tries = Attempts THEN mover = None /\ mover' = r
                                 ELSE mover \notin Writers /\ UNCHANGED mover
  /\ UNCHANGED <<cluster, idLock, job, late, writes, budget, ghosts>>

(***************************************************************************)
(* A restarted coordinator has lost the queue.  It lists the ids its       *)
(* shards hold, which says nothing of rows that a lost repair left behind; *)
(* when a shard cannot list them, creates are refused.                     *)
(***************************************************************************)
Held == {i \in Ids : \E s \in Shards : rows[s][i] # <<>>}

Restart ==
  /\ budget.restarts > 0
  /\ budget' = [budget EXCEPT !.restarts = @ - 1]
  /\ \/ /\ \A s \in Shards, i \in Ids : Len(rows[s][i]) <= 1
        /\ dir' = Held /\ authoritative' = TRUE /\ converged' = (Held = {})
     \/ /\ Held # {}
        /\ dir' = {} /\ authoritative' = FALSE /\ converged' = FALSE
  /\ pending' = [i \in {} |-> 0]
  /\ idLock' = [i \in Ids |-> None]
  /\ mover' = None
  /\ job' = [w \in Writers |-> Idle]
  /\ pass' = [r \in Readers |-> NoPass]
  /\ UNCHANGED <<rows, late, writes, ghosts>>

(***************************************************************************)
(* The specification.                                                      *)
(***************************************************************************)
Init ==
  /\ rows = [s \in Shards |-> [i \in Ids |-> <<>>]]
  /\ dir = {} /\ authoritative = TRUE /\ converged = TRUE
  /\ pending = [i \in {} |-> 0]
  /\ idLock = [i \in Ids |-> None] /\ mover = None
  /\ job = [w \in Writers |-> Idle]
  /\ pass = [r \in Readers |-> NoPass]
  /\ late = {} /\ writes = 0 /\ budget \in Budgets
  /\ live = {} /\ expected = [i \in Ids |-> [s \in Shards |-> <<>>]] /\ disturbed = {}

Write(w) ==
  \/ \E i \in Ids : \/ \E p \in Placements : StartCreate(w, i, p) \/ StartUpsert(w, i, p)
                    \/ StartRemove(w, i) \/ ResyncNext(w, i)
  \/ \E s \in Shards : Answers(w, s) \/ Fails(w, s)
  \/ EarlyCheck(w) \/ Conflict(w) \/ RefuseCreate(w) \/ Reserve(w) \/ LogRefuses(w)
  \/ InsertDone(w) \/ InstallDone(w) \/ RewriteDone(w) \/ SweepDone(w) \/ DeleteDone(w)
  \/ StartResync(w) \/ StoreDone(w) \/ ClearDone(w)

Read(r) ==
  \/ \E t \in Titles : StartPass(r, t)
  \/ \E s \in Shards : Probe(r, s)
  \/ Accept(r) \/ Retry(r)

Next ==
  \/ \E w \in Writers : Write(w)
  \/ \E r \in Readers : Read(r)
  \/ \E x \in late : ArrivesLate(x)
  \/ Restart

Spec == Init /\ [][Next]_vars

(***************************************************************************)
(* Properties.                                                             *)
(***************************************************************************)
(* Every variable stays within its type.                                    *)
TypeOK ==
  /\ \A s \in Shards, i \in Ids : \A k \in DOMAIN rows[s][i] : rows[s][i][k] \in Row
  /\ dir \subseteq Ids /\ live \subseteq Ids
  /\ {authoritative, converged} \subseteq BOOLEAN
  /\ DOMAIN pending \subseteq Ids
  /\ \A i \in DOMAIN pending : pending[i].at \in (SUBSET Shards) \ {{}}
  /\ idLock \in [Ids -> Writers \cup {None}]
  /\ mover \in Writers \cup Readers \cup {None}
  /\ \A w \in Writers : job[w].pc \in Steps \cup {"idle", "early", "compiled", "reserve", "resync"}
  /\ \A r \in Readers : pass[r].tries \in 0..Attempts + 1
  /\ writes \in 0..MaxWrites /\ budget \in Budget

(* No shard applies a write after its caller gave up.  The next four        *)
(* invariants are about these behaviours.                                   *)
Prompt == ~budget.late

Exact(i) == expected[i] # None => \A s \in Shards : rows[s][i] = expected[i][s]

(* An acknowledged write, or one a repair completed, is on every shard of   *)
(* its placement, once, and on no other shard, whatever failed, was queued  *)
(* or was lost in a restart before it.                                      *)
AcknowledgedIsExact == Prompt => \A i \in Ids : Exact(i)

(* Late writes or not, what an acknowledged write left on the shards is     *)
(* there or a repair of its id is queued.                                   *)
ExactOrQueued == \A i \in Ids : Exact(i) \/ i \in DOMAIN pending

(* A shard never holds two live rows of one id, which is what an insert     *)
(* that a create sends to a shard would make of an id still stored there.   *)
NoSecondRow == Prompt => \A s \in Shards, i \in Ids : Len(rows[s][i]) <= 1

(* While the directory is authoritative an id that some shard still stores  *)
(* is in it, so no create can be admitted for it.                           *)
DirectoryCoversRows == Prompt /\ authoritative => Held \subseteq dir

(* When exhaustive delivery goes ahead (no mutation under way, directory    *)
(* converged, no repair queued) the owners of a title emit every id of the  *)
(* directory once and no other.                                             *)
ExhaustiveIsExact ==
  Prompt /\ authoritative /\ converged /\ DOMAIN pending = {} /\ (\A w \in Writers : job[w] = Idle)
     => \A t \in Titles :
          LET all == UNION {Emits(s, t) : s \in t.routed} IN
          /\ {e.id : e \in all} = dir
          /\ Cardinality(all) = Cardinality(dir)

(* With late writes, a remove that every shard took leaves no row of its id *)
(* anywhere, stray copies included, unless one arrives after it began.      *)
RemoveHeals ==
  \A i \in Ids \ disturbed :
    expected[i] = [s \in Shards |-> <<>>] => i \notin Held

EmittedOf(r, i) == {e \in pass[r].found : e.id = i}

(* A read that is accepted returns an id that had a version throughout      *)
(* exactly once: an upsert is never seen as neither version or as both.     *)
ReadsExactlyOnce ==
  \A r \in Readers : Acceptable(r) =>
    \A i \in pass[r].steady : Cardinality(EmittedOf(r, i)) = 1

(* The same read finds at least one version even while an upsert is only    *)
(* partly applied, because the old copies keep serving.                     *)
NeverNeither ==
  \A r \in Readers : Acceptable(r) =>
    \A i \in pass[r].steady : EmittedOf(r, i) # {}

(* The rows are exactly those acknowledged, on the shards the directory     *)
(* names and nowhere twice, and a removal takes away what a failed write    *)
(* left behind.                                                             *)
RowsAreExact == AcknowledgedIsExact /\ NoSecondRow /\ DirectoryCoversRows /\ RemoveHeals

(* A read beside writes finds each query exactly once, and an exhaustive    *)
(* read finds exactly those that were there.                                *)
ReadsAreExact == ExhaustiveIsExact /\ ReadsExactlyOnce
=============================================================================
