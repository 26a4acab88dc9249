--------------------------- MODULE GovernedResize ---------------------------
(***************************************************************************)
(* Resizes of an in-process cluster, as the server runs them: the registry *)
(* of operations (engine/src/bin/server/resize_ops.rs), the run of an      *)
(* operation by its caller and a worker thread                             *)
(* (handlers/cluster/admin/resize/execute.rs), the automatic loop          *)
(* (cluster_mode/resize_loop.rs) and the governor that decides when a      *)
(* recommendation becomes an operation                                     *)
(* (engine/src/cluster/autoscale/resize_governor.rs).                      *)
(*                                                                         *)
(* The engine's part is kept to the three places a layout is recorded in:  *)
(* what serves, the control document and the manifest.                     *)
(***************************************************************************)
EXTENDS Integers, Sequences, FiniteSets, SequencesExt, FiniteSetsExt

CONSTANTS Callers,        \* HTTP requests that may be under way
          CallerIds,      \* operation ids a caller may choose: numbers below the generated
          ShardCounts,    \* the counts a caller may ask for
          MaxRecords,     \* MAX_RETAINED_RESIZE_OPERATIONS
          Required, MaxStep, Ceiling, MinRelief,   \* ResizeGovernorConfig
          Threshold, Loads,                        \* the split threshold, corpus sizes
          ResizeBounds    \* records [admits, vocabs, looks, faults]

ASSUME GovernorAssumption ==
  /\ {Required, MaxStep, Ceiling} \subseteq Nat \ {0} /\ MinRelief \in 0 .. 100
  /\ MaxRecords \in Nat \ {0}

VARIABLES
  serving,    \* the layout that serves: [n, gen, vocab], and who put it in
  control,    \* [n, gen, vocab] of the control document
  manifest,   \* the generation of the committed manifest
  records,    \* the retained operations, oldest first
  marks,      \* [committed, uncommitted]: committed_watermark and newest_uncommitted
  running,    \* caller -> the run of an operation, as a set
  governor,   \* ResizeGovernor
  retry,      \* the automatic operation to commit, as a set
  seen,       \* the last observations: what the governor is to have waited for
  spare       \* what is left of the bounds, and the next generated id

resizeVars == <<serving, control, manifest, records, marks, running, governor, retry, seen, spare>>

Loop == "loop"

Runners == Callers \cup {Loop}

-----------------------------------------------------------------------------
(* ResizeOperations.                                                        *)

Request(origin, n, ifGen) == [origin |-> origin, n |-> n, ifGen |-> ifGen]

Operation_(id, req) == [id |-> id, req |-> req, state |-> "queued", uncommitted |-> {}]

At(rs, id) == {k \in DOMAIN rs : rs[k].id = id}

Active(r) == r.state \in {"queued", "running"}

\* Mutant: a record that failed is never kept for its swap.
PinsNothing(r) == FALSE

\* A record to be kept because only its operation may finish the swap it made.
Pins(r) ==
  \E g \in r.uncommitted : g > marks.committed /\ g >= marks.uncommitted

\* The oldest record that is over and not pinned makes room for a new one.
Room(rs) ==
  LET over == {k \in DOMAIN rs : ~ Active(rs[k]) /\ ~ Pins(rs[k])}
  IN  IF Len(rs) < MaxRecords THEN {rs}
      ELSE IF over = {} THEN {}
      ELSE {RemoveAt(rs, Min(over))}

\* A generated id names no retained record.
GeneratedId == Min({g \in spare.id .. (spare.id + MaxRecords) : At(records, g) = {}})

\* admit_with_targets: the records after an admission, which is none when it does not
\* execute (the operation succeeded, is under way, is another one, or there is no room).
Admitted(id, req) ==
  LET at == At(records, id)
  IN  IF at # {}
      THEN {[records EXCEPT ![k].state = "queued"] :
              k \in {i \in at : records[i].req = req /\ records[i].state \in {"failed", "not_started"}}}
      ELSE {Append(rs, Operation_(id, req)) : rs \in Room(records)}

Updated(id, state) ==
  records' = [k \in DOMAIN records |->
                IF records[k].id = id THEN [records[k] EXCEPT !.state = state] ELSE records[k]]

MarkSucceeded(id, gen) ==
  /\ marks' = [marks EXCEPT !.committed = Max({@, gen})]
  /\ records' = [k \in DOMAIN records |->
                   IF records[k].id = id
                   THEN [records[k] EXCEPT !.state = "succeeded", !.uncommitted = {}] ELSE records[k]]

MarkFailedUncommitted(id, gen) ==
  /\ marks' = [marks EXCEPT !.uncommitted = Max({@, gen})]
  /\ records' = [k \in DOMAIN records |->
                   IF records[k].id = id
                   THEN [records[k] EXCEPT !.state = "failed", !.uncommitted = {gen}] ELSE records[k]]

-----------------------------------------------------------------------------
(* run_resize and resize_worker.  A run is the caller and, once it has the  *)
(* permit, the worker.                                                      *)

Run_(id, req) == [id |-> id, req |-> req, pc |-> "admission", waits |-> TRUE, cancelled |-> FALSE,
                  before |-> 0]

\* The record of a run that has ended, and what the caller is told.
Over(x) == running' = [running EXCEPT ![x] = {}]

Uncommitted(rs, id) == \E k \in At(rs, id) : rs[k].uncommitted # {}

\* ResizeGovernor::record_outcome.
RecordOutcome(produced) ==
  [governor EXCEPT !.streak = 0, !.accepted = {},
     !.cooling = @ \/ (produced # {} /\ governor.accepted # {}),
     !.unmeasured = IF governor.accepted = {} \/ produced = {} THEN @
                    ELSE {[gen |-> g, before |-> a] : g \in produced, a \in governor.accepted}]

\* What the loop makes of the end of its operation; another caller is only answered.
LoopHears(x, r, outcome) ==
  IF x # Loop \/ ~ r.waits THEN UNCHANGED <<governor, retry>>
  ELSE LET again == outcome = "ended" /\ Uncommitted(records', r.id)
       IN  /\ retry' = IF again THEN {[id |-> r.id, req |-> r.req]} ELSE {}
           /\ governor' = IF again THEN governor
                          ELSE RecordOutcome(IF outcome = "produced" THEN {serving.gen} ELSE {})

\* The caller has not got the permit in time, or goes away: QueuedRecordGuard.
NotAdmitted(x) ==
  /\ \E r \in running[x] :
       /\ r.pc = "admission"
       /\ Updated(r.id, "not_started") /\ Over(x) /\ LoopHears(x, r, "ended")
  /\ UNCHANGED <<serving, control, manifest, marks, seen, spare>>

\* One administrative change at a time.
PermitFree == \A x \in Runners : \A r \in running[x] : r.pc = "admission"

Dispatched(x) ==
  /\ PermitFree
  /\ \E r \in running[x] : r.pc = "admission" /\ running' = [running EXCEPT ![x] = {[r EXCEPT !.pc = "guards"]}]
  /\ UNCHANGED <<serving, control, manifest, records, marks, governor, retry, seen, spare>>

\* The worker thread could not be started, or it ends with a panic before the rebuild.
WorkerIsLost(x) ==
  /\ spare.faults > 0
  /\ \E r \in running[x] :
       /\ r.pc = "guards" \/ (r.pc = "admission" /\ PermitFree)
       /\ Updated(r.id, "failed") /\ Over(x) /\ LoopHears(x, r, "ended")
  /\ spare' = [spare EXCEPT !.faults = @ - 1]
  /\ UNCHANGED <<serving, control, manifest, marks, seen>>

\* cancel_queued_cluster_resize: the caller's deadline, or the caller is dropped.
CallerGivesUp(x) ==
  /\ \E r \in running[x] :
       /\ r.pc = "guards" /\ r.waits
       /\ running' = [running EXCEPT ![x] = {[r EXCEPT !.waits = FALSE, !.cancelled = TRUE]}]
       /\ UNCHANGED records
       /\ LoopHears(x, r, "ended")
  /\ UNCHANGED <<serving, control, manifest, marks, seen, spare>>

\* The worker has not got every guard in time, or finds the gate cancelled.
WorkerGivesUp(x) ==
  /\ \E r \in running[x] :
       r.pc = "guards" /\ Updated(r.id, "not_started") /\ Over(x) /\ LoopHears(x, r, "ended")
  /\ UNCHANGED <<serving, control, manifest, marks, seen, spare>>

\* A retry of the operation that put the serving layout in may finish its commit.
HealsOwnSwap(r) ==
  /\ serving.n = r.req.n
  /\ \E k \in At(records, r.id) : records[k].uncommitted = {serving.gen}

Precondition(r) == r.req.ifGen \in {{}, {serving.gen}} \/ HealsOwnSwap(r)

\* begin_cluster_resize, and the precondition.
WorkerStarts(x) ==
  /\ \E r \in running[x] :
       /\ r.pc = "guards" /\ ~ r.cancelled
       /\ IF Precondition(r)
          THEN /\ Updated(r.id, "running")
               /\ running' = [running EXCEPT ![x] = {[r EXCEPT !.pc = "rebuild", !.before = serving.gen]}]
               /\ UNCHANGED <<governor, retry>>
          ELSE Updated(r.id, "failed") /\ Over(x) /\ LoopHears(x, r, "mismatch")
  /\ UNCHANGED <<serving, control, manifest, marks, seen, spare>>

-----------------------------------------------------------------------------
(* ClusterEngine::resize.                                                   *)

Layout_(n, gen, vocab) == [n |-> n, gen |-> gen, vocab |-> vocab]

Serves == Layout_(serving.n, serving.gen, serving.vocab)

\* finish_pending_resize_control_commit can end with the control document of the layout.
Repairable ==
  /\ control.vocab = serving.vocab
  /\ control = Serves \/ (control.gen = serving.gen - 1 /\ control.n # serving.n)

Ends(x, r, gen) ==
  /\ IF gen = r.before THEN Updated(r.id, "failed") /\ UNCHANGED marks
     ELSE MarkFailedUncommitted(r.id, gen)
  /\ Over(x) /\ LoopHears(x, r, "ended")

\* The control document cannot be repaired, or the rebuild fails.
ResizeFails(x) ==
  /\ \E r \in running[x] :
       /\ r.pc = "rebuild" /\ (Repairable => spare.faults > 0)
       /\ Ends(x, r, serving.gen)
       /\ control' \in IF Repairable THEN {control, Serves} ELSE {control}
       /\ spare' = IF Repairable THEN [spare EXCEPT !.faults = @ - 1] ELSE spare
  /\ UNCHANGED <<serving, manifest, seen>>

\* The serving layout has the count already, or the new one is built and published.
ResizeSwaps(x) ==
  /\ \E r \in running[x] :
       /\ r.pc = "rebuild" /\ Repairable
       /\ control' = Serves
       /\ serving' = IF r.req.n = serving.n THEN serving
                     ELSE [n |-> r.req.n, gen |-> serving.gen + 1, vocab |-> serving.vocab,
                           by |-> {[id |-> r.id, saw |-> r.req.ifGen, from |-> serving.gen]}]
       /\ running' = [running EXCEPT ![x] = {[r EXCEPT !.pc = "commit"]}]
  /\ UNCHANGED <<manifest, records, marks, governor, retry, seen, spare>>

\* propose_layout_change and the checkpoint, with the attestation of both.
ResizeCommits(x) ==
  /\ \E r \in running[x] :
       /\ r.pc = "commit"
       /\ control' = Serves /\ manifest' = serving.gen
       /\ MarkSucceeded(r.id, serving.gen) /\ Over(x) /\ LoopHears(x, r, "produced")
  /\ UNCHANGED <<serving, seen, spare>>

CommitFails(x, proposed) ==
  /\ spare.faults > 0
  /\ \E r \in running[x] :
       /\ r.pc = "commit"
       /\ control' = IF proposed THEN Serves ELSE control
       /\ Ends(x, r, serving.gen)
  /\ spare' = [spare EXCEPT !.faults = @ - 1]
  /\ UNCHANGED <<serving, manifest, seen>>

\* No run has the topology guard.
Quiet == \A x \in Runners : \A r \in running[x] : r.pc \in {"admission", "guards"}

\* A vocabulary change, which is a layout change of its own.
SetVocabulary(proposed, committed) ==
  /\ Quiet /\ PermitFree /\ spare.vocabs > 0
  /\ (committed => proposed) /\ (~ committed => spare.faults > 0)
  /\ serving' = [n |-> serving.n, gen |-> serving.gen + 1, vocab |-> serving.vocab + 1, by |-> {}]
  /\ control' = IF proposed THEN [control EXCEPT !.gen = @ + 1, !.vocab = serving.vocab + 1] ELSE control
  /\ manifest' = IF committed THEN serving.gen + 1 ELSE manifest
  /\ spare' = [spare EXCEPT !.vocabs = @ - 1, !.faults = IF committed THEN @ ELSE @ - 1]
  /\ UNCHANGED <<records, marks, running, governor, retry, seen>>

-----------------------------------------------------------------------------
(* Requests.                                                                *)

\* The handler admits the operation, under the caller's id or a generated one.
Post(x, id, n, ifGen) ==
  LET req == Request("api", n, ifGen)
  IN  /\ running[x] = {} /\ spare.admits > 0
      /\ \E rs \in Admitted(id, req) : records' = rs
      /\ running' = [running EXCEPT ![x] = {Run_(id, req)}]
      /\ spare' = [spare EXCEPT !.admits = @ - 1, !.id = IF id \in CallerIds THEN @ ELSE id + 1]
      /\ UNCHANGED <<serving, control, manifest, marks, governor, retry, seen>>

\* The registry does not execute the request: it is answered at once.
Refused(x, id, n, ifGen) ==
  /\ running[x] = {} /\ spare.admits > 0
  /\ Admitted(id, Request("api", n, ifGen)) = {}
  /\ spare' = [spare EXCEPT !.admits = @ - 1]
  /\ UNCHANGED <<serving, control, manifest, records, marks, running, governor, retry, seen>>

-----------------------------------------------------------------------------
(* ResizeGovernor::observe and spawn_resize_loop.                           *)

\* recommended_shard_count, from how many shards are over the threshold.
Recommended(over) == IF over = 0 THEN {} ELSE {serving.n + over}

Target(recommended) == Min({recommended, serving.n + MaxStep, Ceiling})

\* The layout is another one: a swap the governor does not know voids what it knew.
Relaid(g) ==
  IF g.layout = {} THEN [g EXCEPT !.layout = {<<serving.n, serving.gen>>}]
  ELSE IF g.layout = {<<serving.n, serving.gen>>} THEN g
  ELSE LET governed == \E u \in g.unmeasured : u.gen = serving.gen
       IN  [g EXCEPT !.layout = {<<serving.n, serving.gen>>}, !.cooling = TRUE, !.streak = 0,
                     !.unmeasured = IF governed THEN @ ELSE {},
                     !.ineffective = IF governed THEN @ ELSE FALSE]

\* The relief of an operation is measured once, at the first look at its layout.
Measured(g, max) ==
  LET futile == \E u \in g.unmeasured :
                  /\ u.gen = serving.gen /\ MinRelief > 0
                  /\ max > (u.before * (100 - MinRelief)) \div 100
  IN  [g EXCEPT !.unmeasured = {}, !.ineffective = @ \/ futile]

\* The governor after an observation, and whether it accepts.
Judged(g, over) ==
  LET targets == {Target(r) : r \in Recommended(over)}
      idle == targets = {}
      capped == \A t \in targets : t <= serving.n
      held == ~ idle /\ g.ineffective
      streak == IF idle \/ held \/ capped THEN 0 ELSE g.streak + 1
  IN  [governor |-> [g EXCEPT !.streak = streak, !.ineffective = @ /\ ~ idle],
       accepts |-> streak >= Required /\ ~ g.cooling]

\* What the operation will be refused or allowed for: the layout, and that growth is asked for.
Noted(over) ==
  LET all == Append(seen, [layout |-> <<serving.n, serving.gen>>, grow |-> over > 0])
  IN  SubSeq(all, Max({1, Len(all) - Required + 1}), Len(all))

Observe(max, over) ==
  LET verdict == Judged(Measured(Relaid(governor), max), over)
      id == GeneratedId
      req == Request("auto", Target(serving.n + over), {serving.gen})
      accepted == [verdict.governor EXCEPT !.accepted = {max}]
  IN  /\ Quiet /\ running[Loop] = {} /\ retry = {} /\ spare.looks > 0
      /\ (over = 0) <=> (max <= Threshold)
      /\ seen' = Noted(over)
      /\ IF verdict.accepts /\ Admitted(id, req) # {}
         THEN /\ \E rs \in Admitted(id, req) : records' = rs
              /\ running' = [running EXCEPT ![Loop] = {Run_(id, req)}]
              /\ governor' = accepted
              /\ spare' = [spare EXCEPT !.looks = @ - 1, !.id = id + 1]
         ELSE /\ governor' = IF verdict.accepts
                             THEN [verdict.governor EXCEPT !.streak = 0] ELSE verdict.governor
              /\ spare' = [spare EXCEPT !.looks = @ - 1]
              /\ UNCHANGED <<records, running>>
      /\ UNCHANGED <<serving, control, manifest, marks, retry>>

CooldownElapses ==
  /\ governor.cooling /\ running[Loop] = {}
  /\ governor' = [governor EXCEPT !.cooling = FALSE]
  /\ UNCHANGED <<serving, control, manifest, records, marks, running, retry, seen, spare>>

\* The operation that has still to commit its swap is admitted again under its id.
Retries ==
  /\ running[Loop] = {} /\ spare.looks > 0
  /\ \E p \in retry :
       LET again == Admitted(p.id, p.req)
       IN  IF again = {}
           THEN governor' = RecordOutcome({}) /\ UNCHANGED <<records, running>>
           ELSE /\ \E rs \in again : records' = rs
                /\ running' = [running EXCEPT ![Loop] = {Run_(p.id, p.req)}]
                /\ UNCHANGED governor
  /\ retry' = {}
  /\ spare' = [spare EXCEPT !.looks = @ - 1]
  /\ UNCHANGED <<serving, control, manifest, marks, seen>>

-----------------------------------------------------------------------------
ResizeInit ==
  /\ serving = [n |-> 2, gen |-> 1, vocab |-> 0, by |-> {}]
  /\ control = Layout_(2, 1, 0) /\ manifest = 1
  /\ records = <<>> /\ marks = [committed |-> 0, uncommitted |-> 0]
  /\ running = [x \in Runners |-> {}]
  /\ governor = [layout |-> {}, cooling |-> FALSE, streak |-> 0, accepted |-> {}, unmeasured |-> {},
                 ineffective |-> FALSE]
  /\ retry = {} /\ seen = <<>>
  /\ \E b \in ResizeBounds :
       spare = [admits |-> b.admits, vocabs |-> b.vocabs, looks |-> b.looks, faults |-> b.faults,
                id |-> Max(CallerIds) + 1]

ResizeNext ==
  \/ \E x \in Runners :
       \/ NotAdmitted(x) \/ Dispatched(x) \/ WorkerIsLost(x) \/ CallerGivesUp(x) \/ WorkerGivesUp(x)
       \/ WorkerStarts(x) \/ ResizeFails(x) \/ ResizeSwaps(x) \/ ResizeCommits(x)
       \/ \E proposed \in BOOLEAN : CommitFails(x, proposed)
  \/ \E x \in Callers, id \in CallerIds \cup {GeneratedId}, n \in ShardCounts,
        ifGen \in {{}} \cup {{g} : g \in 1 .. serving.gen} :
       Post(x, id, n, ifGen) \/ Refused(x, id, n, ifGen)
  \/ \E proposed, committed \in BOOLEAN : SetVocabulary(proposed, committed)
  \/ \E max \in Loads, over \in 0 .. serving.n : Observe(max, over)
  \/ CooldownElapses \/ Retries

-----------------------------------------------------------------------------
(* A record that is queued or running belongs to one run that is still to   *)
(* end, whatever its caller does, so an operation id is never stuck; and    *)
(* while the serving layout of a resize is not committed, which pauses      *)
(* durable writes, the operation that put it in is retained with that       *)
(* generation, so that the same request can finish the commit.              *)
SwapCanBeFinished ==
  /\ \A k \in DOMAIN records :
       LET own == {x \in Runners : \E r \in running[x] : r.id = records[k].id}
       IN  Cardinality(own) = IF Active(records[k]) THEN 1 ELSE 0
  /\ control # Serves \/ manifest # serving.gen =>
       \A b \in serving.by :
         \E k \in At(records, b.id) : records[k].state = "running" \/ records[k].uncommitted = {serving.gen}

(* A resize replaces only the layout its request named, and an automatic    *)
(* one the layout that was looked at as often as required and asked to      *)
(* grow each time, by no more than a step: no resize or vocabulary change   *)
(* that came in between is built upon (resize_loop.rs, "instead of stacking *)
(* a second layout change").                                                *)
ReplacesWhatItSaw ==
  /\ \A b \in serving.by : b.saw \in {{}, {b.from}}
  /\ \A r \in running[Loop] :
       /\ Len(seen) = Required
       /\ \A k \in DOMAIN seen :
            /\ seen[k].grow /\ {seen[k].layout[2]} = r.req.ifGen
            /\ r.req.n \in (seen[k].layout[1] + 1) .. Min({seen[k].layout[1] + MaxStep, Ceiling})
=============================================================================
