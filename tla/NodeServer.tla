----------------------------- MODULE NodeServer -----------------------------
(***************************************************************************)
(* The HTTP server of one node (bin/server): handlers that share an engine *)
(* behind a mutex, the snapshot that searches read, the evidence kept      *)
(* about alias candidates, pools of permits, and the shutdown sequence.    *)
(*                                                                         *)
(* A request is a record of what it asks for (see Works) and its progress: *)
(*   idle -> stalled (its body is still coming) -> admit (waits for a      *)
(*   permit) -> serial (a flush waits for the others) -> prepare (a worker *)
(*   reads what it will decide on) -> work (waits for the engine) ->       *)
(*   relock (has released it and takes it again to publish) -> publish     *)
(*   (holds it) -> store (holds the evidence too) -> done                  *)
(***************************************************************************)
EXTENDS Requests, Integers, FiniteSets

(***************************************************************************)
(* The alias registry of a vocabulary (vocab/alias.rs) and the evidence    *)
(* live searches collect about its candidates (vocab/alias/feedback.rs).   *)
(* A group of forms is a model value; what its forms compile to is given   *)
(* by Traits.  A registry maps each group to its entry, Absent when it has *)
(* none.  Evidence maps each tracked pair to the queries that titles with  *)
(* only its first form, and with only its second one, have matched.        *)
(***************************************************************************)

CONSTANTS Groups,
          Traits   \* [mixed, inexpressible, multiword, variant] of a group's forms

Absent == [status |-> "absent", rank |-> 0, kind |-> "none", evidence |-> FALSE]

EmptyRegistry == [g \in Groups |-> Absent]

ClassifyKind(g) ==
  IF Traits[g].mixed \/ Traits[g].inexpressible THEN "mixed"
  ELSE IF Traits[g].multiword THEN "multiword"
  ELSE IF Traits[g].variant THEN "variant" ELSE "distinct"

\* What a search engine's own corpus suggests is weaker than what a file declares.
ProvenanceRank(provenance) ==
  IF provenance \in {"declared", "manual"} THEN 1 ELSE 0

DefaultStatus(kind, provenance) ==
  IF provenance # "distributional" /\ kind # "mixed"
       /\ (kind = "variant" \/ ProvenanceRank(provenance) = 1)
    THEN "active" ELSE "candidate"

\* A rejected group stays so; a stronger source replaces, an equal one may only activate.
AddClassified(reg, g, provenance) ==
  LET old == reg[g]
      rank == ProvenanceRank(provenance)
      kind == ClassifyKind(g)
      status == DefaultStatus(kind, provenance)
      new == [status |-> status, rank |-> rank, kind |-> kind, evidence |-> old.evidence]
  IN  IF old.status = "absent" THEN [reg EXCEPT ![g] = new]
      ELSE IF old.status = "rejected" THEN reg
      ELSE IF rank > old.rank THEN [reg EXCEPT ![g] = new]
      ELSE IF rank = old.rank /\ status = "active"
        THEN [reg EXCEPT ![g].status = "active",
                         ![g].kind = IF old.status = "active" THEN old.kind ELSE kind]
      ELSE reg

IsActiveForMatching(entry) == entry.status = "active" /\ entry.kind # "mixed"

ActiveGroups(reg) == {g \in Groups : IsActiveForMatching(reg[g])}

RecordFeedback(reg, g) ==
  IF reg[g].status = "absent" THEN reg ELSE [reg EXCEPT ![g].evidence = TRUE]

ActivateValidated(reg, g) ==
  IF reg[g].status = "candidate" /\ reg[g].kind # "mixed"
    THEN [reg EXCEPT ![g].status = "active"] ELSE reg

\* An active group with a form of one word that is no single feature is a candidate again.
DemoteUnexpressible(reg) ==
  [g \in Groups |->
     IF IsActiveForMatching(reg[g]) /\ Traits[g].inexpressible
       THEN [reg[g] EXCEPT !.status = "candidate"] ELSE reg[g]]

\* The groups of `other` are added to `reg`; where both have one, the stronger source wins.
MergeRegistry(reg, other) ==
  [g \in Groups |->
     IF reg[g].status = "absent" THEN other[g]
     ELSE IF reg[g].status # "rejected" /\ other[g].rank > reg[g].rank
       THEN [other[g] EXCEPT !.evidence = reg[g].evidence] ELSE reg[g]]

(***************************************************************************)
(* Evidence                                                                *)
(***************************************************************************)

NoEvidence == [a |-> {}, b |-> {}]

Tracked(reg) == {g \in Groups : reg[g].status = "candidate"}

\* The candidates are tracked, those that were keep what they have.
SyncTracked(evidence, reg) ==
  [g \in Tracked(reg) |-> IF g \in DOMAIN evidence THEN evidence[g] ELSE NoEvidence]

\* A title with one form of a pair credits what it matched to that form.
Observe(evidence, g, side, matched) ==
  IF g \notin DOMAIN evidence THEN evidence
  ELSE IF side = "a" THEN [evidence EXCEPT ![g].a = @ \cup matched]
  ELSE [evidence EXCEPT ![g].b = @ \cup matched]

ClearEvidence(evidence) == [g \in DOMAIN evidence |-> NoEvidence]

\* The pairs whose forms match the same queries, not counting the ones that name a form
\* or are gone: at least half of them shared, and one on each side.
Validated(evidence, survivors) ==
  {g \in DOMAIN evidence :
     LET a == evidence[g].a \cap survivors[g]
         b == evidence[g].b \cap survivors[g]
     IN  /\ a # {} /\ b # {}
         /\ 2 * Cardinality(a \cap b) >= Cardinality(a \cup b)}

-----------------------------------------------------------------------------
CONSTANTS Reqs,          \* the requests of one execution
          Ids, Texts,    \* documents
          Overflows,     \* <<g, text>>: a query an active group makes too wide to store
          Mentions,      \* <<g, text>>: a query that names a form of the group
          Scenarios,     \* what an execution starts from: [start, works, stops]
          WritePermits,  \* how many writes run or queue at once
          HealthPermits  \* how many probes

NobodyHolds == "free"

VARIABLES durable,       \* the node has a data directory
          stops,         \* it is told to stop at some time
          engine, snapshot, evidence, locks, req, phase

nodeVars == <<durable, stops, engine, snapshot, evidence, locks, req, phase>>

(***************************************************************************)
(* The engine, under its lock.  An operation gives the outcomes it can     *)
(* have: the engine it leaves, the reply, and whether it is published.     *)
(***************************************************************************)

Outcome(e, status, publish) == [engine |-> e, status |-> status, publish |-> publish]

LiveTexts(e) == UNION {e.rows[i] : i \in Ids}
IsLive(e, i) == e.rows[i] # {}

\* A failed append leaves the row as it was; every document write is published.
Recorded(e, new, status) ==
  {Outcome(new, status, TRUE)} \cup (IF durable THEN {Outcome(e, 503, TRUE)} ELSE {})

WithRows(e, rows) == [e EXCEPT !.rows = rows, !.mem = @ \/ rows # e.rows]

PutDoc(e, w) ==
  LET one == ApplyOne(e.rows, [op |-> IF w.flag THEN "create" ELSE "index", id |-> w.id,
                               source |-> [text |-> w.arg]])
  IN  IF one.result \in {400, 409} THEN {Outcome(e, one.result, TRUE)}
      ELSE Recorded(e, WithRows(e, one.rows), one.result)

DeleteDoc(e, w) ==
  IF IsLive(e, w.id) THEN Recorded(e, WithRows(e, [e.rows EXCEPT ![w.id] = {}]), 200)
  ELSE Recorded(e, e, 404)

\* The whole request under one lock; a fresh batch goes to a segment of its own.
BulkIngestInner(e, w) ==
  LET all == {i \in Ids : w.flag \/ i = w.id}
      items == SetToSeq({[op |-> "index", id |-> i,
                          source |-> [text |-> w.arg, version |-> 1]] : i \in all})
      rows == BulkIngest(e.rows, items).rows
  IN  IF CanUseFreshBatch(e.rows, items)
        THEN Recorded(e, [e EXCEPT !.rows = rows], 200)
        ELSE Recorded(e, WithRows(e, rows), 200)

\* A query that the active groups would widen past a column cannot be rebuilt.
CanRebuild(rows, reg) ==
  \A g \in ActiveGroups(reg), i \in Ids, t \in Texts :
    t \in rows[i] => <<g, t>> \notin Overflows

\* Every live row into one segment, and the memtable with them.
RecompileStale(e) ==
  IF ~e.stale \/ (durable /\ ~e.healthy) \/ ~CanRebuild(e.rows, e.reg) THEN {e}
  ELSE LET built == [e EXCEPT !.stale = FALSE, !.mem = FALSE]
       IN  {built} \cup (IF durable THEN {[built EXCEPT !.healthy = FALSE]} ELSE {})

\* Nothing when it is refused: persistence is in doubt, or a stored query would not
\* survive the new vocabulary.
SetVocab(e, reg) ==
  IF (durable /\ ~e.healthy) \/ ~CanRebuild(e.rows, DemoteUnexpressible(reg)) THEN {}
  ELSE {[e EXCEPT !.reg = DemoteUnexpressible(reg), !.stale = LiveTexts(e) # {}]}

\* What a handler answers after a rebuild.
Rebuilt(e) ==
  IF e.stale THEN Outcome(e, 500, FALSE)
  ELSE IF durable /\ ~e.healthy THEN Outcome(e, 503, TRUE)
  ELSE Outcome(e, 200, TRUE)

ApplyVocab(e, reg) ==
  IF durable /\ ~e.healthy THEN {Outcome(e, 503, FALSE)}
  ELSE IF SetVocab(e, reg) = {} THEN {Outcome(e, 400, FALSE)}
  ELSE {Rebuilt(r) : r \in UNION {RecompileStale(v) : v \in SetVocab(e, reg)}}

PutVocab(e, w) ==
  ApplyVocab(e, [EmptyRegistry EXCEPT
                   ![w.group] = [status |-> w.arg, rank |-> 1, kind |-> ClassifyKind(w.group),
                                 evidence |-> FALSE]])

\* The learned vocabulary goes under the one there is; learning keeps the registry.
LearnAndApply(e, w) == ApplyVocab(e, MergeRegistry(MergeRegistry(EmptyRegistry, e.reg), EmptyRegistry))

LearnAliases(e, w) == ApplyVocab(e, AddClassified(e.reg, w.group, "learned"))

\* Nothing new to say is not a change.
ImportAliases(e, w) ==
  LET reg == AddClassified(e.reg, w.group, "declared")
  IN  IF durable /\ ~e.healthy THEN {Outcome(e, 503, FALSE)}
      ELSE IF reg = e.reg THEN {Outcome(e, 200, FALSE)}
      ELSE ApplyVocab(e, reg)

\* A registry that activates nothing new is only written to the manifest.
InstallMetadataOnly(e, reg) ==
  IF ActiveGroups(reg) = ActiveGroups(e.reg)
    THEN {Outcome([e EXCEPT !.reg = reg], 200, TRUE)}
           \cup (IF durable THEN {Outcome([e EXCEPT !.healthy = FALSE], 503, FALSE)} ELSE {})
    ELSE ApplyVocab(e, reg)

\* What discovery proposed from the sources it read is recorded as candidates.
RecordDiscovered(e, proposed) ==
  LET reg == [g \in Groups |->
                IF g \in proposed THEN AddClassified(e.reg, g, "distributional")[g] ELSE e.reg[g]]
  IN  InstallMetadataOnly(e, reg)

ApplyFeedback(e, validated, activate) ==
  LET stamped == [g \in Groups |->
                    IF g \in validated THEN RecordFeedback(e.reg, g)[g] ELSE e.reg[g]]
      activated == [g \in Groups |->
                      IF g \in validated THEN ActivateValidated(stamped, g)[g] ELSE stamped[g]]
  IN  IF activate /\ durable /\ ~e.healthy THEN {Outcome(e, 503, FALSE)}
      ELSE IF activate /\ activated # stamped THEN ApplyVocab(e, activated)
      ELSE IF stamped # e.reg THEN InstallMetadataOnly(e, stamped)
      ELSE {Outcome(e, 200, FALSE)}

\* set_config, with the new settings published under the same lock.
PutSettings(e, w) == {Outcome([e EXCEPT !.capture = w.flag], 200, TRUE)}

FlushEngine(e) ==
  {[e EXCEPT !.mem = FALSE]}
    \cup (IF durable /\ e.mem THEN {[e EXCEPT !.healthy = FALSE]} ELSE {})

Flushed(e) == {Outcome(f, IF f.healthy THEN 200 ELSE 503, TRUE) : f \in FlushEngine(e)}

\* Compaction publishes whatever came of it.
RunCompact(e, w) ==
  IF ~e.healthy THEN {Outcome(e, 503, TRUE)}
  ELSE {Outcome(f, IF f.healthy THEN 200 ELSE 503, TRUE) :
          f \in IF w.flag THEN FlushEngine(e) ELSE {e}}

BackupTo(e) ==
  IF ~durable THEN {Outcome(e, 400, FALSE)}
  ELSE IF ~e.healthy THEN {Outcome(e, 503, FALSE)}
  ELSE {Outcome(e, 200, FALSE), Outcome(e, 400, FALSE)}

Outcomes(r, e) ==
  LET w == req[r].work
  IN  CASE w.op = "put" -> PutDoc(e, w)
        [] w.op = "delete" -> DeleteDoc(e, w)
        [] w.op = "bulk" -> BulkIngestInner(e, w)
        [] w.op = "settings" -> PutSettings(e, w)
        [] w.op = "vocab" -> PutVocab(e, w)
        [] w.op = "learn" -> LearnAndApply(e, w)
        [] w.op = "alias_learn" -> LearnAliases(e, w)
        [] w.op = "alias_import" -> ImportAliases(e, w)
        [] w.op = "discover_record" -> RecordDiscovered(e, req[r].seen)
        [] w.op = "feedback_apply" -> ApplyFeedback(e, req[r].seen, w.flag)
        [] w.op = "flush" -> Flushed(e)
        [] w.op \in {"compact", "force_merge"} -> RunCompact(e, w)
        [] w.op = "backup" -> BackupTo(e)

(***************************************************************************)
(* Requests                                                                *)
(***************************************************************************)

DocumentWrites == {"put", "delete", "bulk"}
\* These publish under the lock they worked under; the others release it first.
PublishInPlace == DocumentWrites \cup {"flush", "settings"}
VocabularyWrites ==
  {"vocab", "learn", "alias_learn", "alias_import", "discover_record", "feedback_apply"}
EngineOps == PublishInPlace \cup VocabularyWrites \cup {"compact", "force_merge", "backup"}
SnapshotReads ==
  {"stats", "doc_get", "metrics", "settings_read", "vocab_read", "alias_read", "vocab_learn",
   "alias_discover", "cat_stats", "cat_segments"}

Contract(op, shape) ==
  CASE op = "put" -> DocPut(shape)
    [] op = "delete" -> DocDelete(shape)
    [] op = "bulk" -> Bulk(shape)
    [] op = "settings" -> SettingsWrite(shape)
    [] op = "vocab" -> VocabWrite(shape)
    [] op = "learn" -> VocabLearnApply(shape)
    [] op = "alias_learn" -> AliasLearnApply(shape)
    [] op = "alias_import" -> AliasImport(shape)
    [] op = "discover_record" -> AliasDiscoverRecord(shape)
    [] op = "feedback_apply" -> AliasFeedbackApply(shape)
    [] op = "feedback_read" -> AliasFeedbackRead(shape)
    [] op = "feedback_reset" -> AliasFeedbackReset(shape)
    [] op = "flush" -> Flush(shape)
    [] op = "compact" -> Compact(shape)
    [] op = "force_merge" -> ForceMerge(shape)
    [] op = "backup" -> Backup(shape)
    [] op = "stats" -> Stats(shape)
    [] op = "settings_read" -> SettingsRead(shape)
    [] op = "vocab_read" -> VocabRead(shape)
    [] op = "vocab_learn" -> VocabLearn(shape)
    [] op = "alias_read" -> AliasRead(shape)
    [] op = "alias_discover" -> AliasDiscover(shape)
    [] op = "cat_stats" -> CatStats(shape)
    [] op = "cat_segments" -> CatSegments(shape)
    [] op = "metrics" -> Metrics(shape)
    [] op = "health" -> Health(shape)
    [] op = "doc_get" -> DocGet(shape)
    [] op = "search" -> Accepted

\* The endpoints whose transport gives a client a bounded time to send its body.
Timed ==
  VocabularyWrites
    \cup {"settings", "feedback_read", "feedback_reset", "metrics", "health", "settings_read",
          "vocab_read", "vocab_learn", "alias_read", "alias_discover"}

Pool(op) ==
  CASE op \in DocumentWrites \cup {"flush"} -> "write"
    [] op \in VocabularyWrites \cup (SnapshotReads \ {"doc_get", "metrics", "cat_segments"})
              \cup {"settings", "feedback_read", "feedback_reset"} -> "stats"
    [] op = "backup" -> "backup"
    [] op = "health" -> "health"
    [] OTHER -> "none"

Admitted(r) == req[r].pc \in {"serial", "prepare", "work", "relock", "publish", "store"}

\* HoldsPermit as it would be if every handler took its permit before its body.
HoldsPermitEarly(r) == Admitted(r) \/ req[r].pc = "stalled"

\* A probe takes its permit before its body is read.
HoldsPermit(r) == Admitted(r) \/ (req[r].work.op = "health" /\ req[r].pc = "stalled")

InUse(pool) == Cardinality({r \in Reqs : Pool(req[r].work.op) = pool /\ HoldsPermit(r)})

Capacity(pool) ==
  CASE pool = "write" -> WritePermits [] pool = "health" -> HealthPermits [] OTHER -> 1

HasRoom(pool) ==
  CASE pool = "none" -> TRUE
    [] pool = "write" -> InUse("write") < WritePermits /\ phase \notin {"quiesced", "exited"}
    [] OTHER -> InUse(pool) < Capacity(pool)

NewRequest(work) == [work |-> work, pc |-> "idle", shape |-> {}, status |-> 0, seen |-> {},
                     seq |-> 0]

\* A node starts with the documents and the registry of its last shutdown; evidence is
\* collected for candidates only, and is kept when capture is turned off.
NodeInit ==
  \E s \in Scenarios :
    /\ durable \in BOOLEAN
    /\ stops = s.stops
    /\ engine = [rows |-> [i \in Ids |-> s.start.texts], mem |-> FALSE, stale |-> FALSE,
                 healthy |-> TRUE, capture |-> s.start.capture, seq |-> 0,
                 reg |-> [g \in Groups |->
                            IF s.start.status = "absent" THEN Absent
                            ELSE [status |-> s.start.status, rank |-> 0,
                                  kind |-> ClassifyKind(g), evidence |-> FALSE]]]
    /\ evidence = [g \in s.start.tracked |-> [a |-> s.start.matched, b |-> s.start.matched]]
    /\ s.start.capture => s.start.tracked = Tracked(engine.reg)
    /\ snapshot = engine
    /\ locks = [engine |-> NobodyHolds, evidence |-> NobodyHolds, serial |-> NobodyHolds]
    /\ req = [r \in Reqs |-> NewRequest(s.works[r])]
    /\ phase = "serving"

Finish(r, status) == req' = [req EXCEPT ![r].pc = "done", ![r].status = status,
                                         ![r].seen = {}, ![r].shape = {}]

GoesTo(r, pc) == req' = [req EXCEPT ![r].pc = pc]

UnchangedShared == UNCHANGED <<durable, stops, engine, snapshot, evidence, locks, phase>>

\* A contract's verdict: refused, still reading, or on to its permit.
Judge(r, shape) ==
  LET verdict == Contract(req[r].work.op, shape)
  IN  CASE verdict = Accepted ->
             req' = [req EXCEPT ![r].pc = IF req[r].work.op = "search" THEN "prepare" ELSE "admit",
                                ![r].shape = {}]
        [] verdict = Reading -> req' = [req EXCEPT ![r].pc = "stalled", ![r].shape = {shape}]
        [] OTHER -> Finish(r, verdict)

\* A request without a slot among the probes is turned away at once.
Arrive(r) ==
  /\ req[r].pc = "idle" /\ phase = "serving"
  /\ \E shape \in req[r].work.shapes :
       IF req[r].work.op = "health" /\ shape.method \in {"GET", "HEAD"} /\ ~HasRoom("health")
         THEN Finish(r, 429) ELSE Judge(r, shape)
  /\ UnchangedShared

BodyArrives(r) ==
  /\ req[r].pc = "stalled"
  /\ \E shape \in req[r].shape, body \in {"empty", "valid", "oversize"} :
       Judge(r, [shape EXCEPT !.body = body])
  /\ UnchangedShared

\* Only a transport with a timeout of its own gives up on a body.
BodyTimesOut(r) ==
  /\ req[r].pc = "stalled" /\ req[r].work.op \in Timed
  /\ Finish(r, 408)
  /\ UnchangedShared

\* The handler of a client that hangs up is dropped; a started worker goes on.
Leaves(r) ==
  /\ req[r].pc \in {"stalled", "admit"}
  /\ Finish(r, 499)
  /\ UnchangedShared

NextPc(op) ==
  CASE op = "flush" -> "serial"
    [] op \in {"discover_record", "feedback_apply", "feedback_read", "feedback_reset", "search"}
       -> "prepare"
    [] OTHER -> "work"

Admit(r) ==
  /\ req[r].pc = "admit"
  /\ HasRoom(Pool(req[r].work.op))
  /\ GoesTo(r, NextPc(req[r].work.op))
  /\ UnchangedShared

\* A flush that does not wait is refused before it queues.
FlushRefused(r) ==
  /\ req[r].pc = "admit" /\ req[r].work.op = "flush" /\ ~req[r].work.flag
  /\ locks.serial # NobodyHolds
  /\ Finish(r, 409)
  /\ UnchangedShared

\* A settings update gives up at its deadline: without a permit, or without the engine.
SettingsTimeOut(r) ==
  /\ req[r].work.op = "settings"
  /\ \/ req[r].pc = "admit" /\ ~HasRoom("stats")
     \/ req[r].pc = "work" /\ locks.engine # NobodyHolds
  /\ Finish(r, 408)
  /\ UnchangedShared

TakeSerial(r) ==
  /\ req[r].pc = "serial"
  /\ IF locks.serial = NobodyHolds
       THEN /\ locks' = [locks EXCEPT !.serial = r]
            /\ GoesTo(r, "work")
       ELSE /\ ~req[r].work.flag
            /\ Finish(r, 409)
            /\ UNCHANGED locks
  /\ UNCHANGED <<durable, stops, engine, snapshot, evidence, phase>>

Survivors(s) == [g \in Groups |-> {i \in Ids : \E t \in s.rows[i] : <<g, t>> \notin Mentions}]

\* The worker reads what it decides on, under the evidence lock or the engine's.
ReadEvidence(r) ==
  /\ req[r].pc = "prepare" /\ req[r].work.op = "feedback_apply"
  /\ locks.evidence = NobodyHolds
  /\ req' = [req EXCEPT
       ![r].pc = "work",
       ![r].seen = Validated(evidence, Survivors(snapshot))]
  /\ UnchangedShared

FeedbackRead(r) ==
  /\ req[r].pc = "prepare" /\ req[r].work.op = "feedback_read"
  /\ locks.evidence = NobodyHolds
  /\ Finish(r, 200)
  /\ UnchangedShared

ResetFeedback(r) ==
  /\ req[r].pc = "prepare" /\ req[r].work.op = "feedback_reset"
  /\ locks.evidence = NobodyHolds
  /\ evidence' = ClearEvidence(evidence)
  /\ Finish(r, 200)
  /\ UNCHANGED <<durable, stops, engine, snapshot, locks, phase>>

\* Discovery proposes groups from the sources live at this moment.
ReadSources(r) ==
  /\ req[r].pc = "prepare" /\ req[r].work.op = "discover_record"
  /\ locks.engine = NobodyHolds
  /\ req' = [req EXCEPT ![r].pc = "work",
                        ![r].seen = IF LiveTexts(engine) # {} THEN {req[r].work.group} ELSE {}]
  /\ UnchangedShared

\* A search matches in the snapshot it loads, and reports afterwards.
SearchLoads(r) ==
  /\ req[r].pc = "prepare" /\ req[r].work.op = "search"
  /\ \E matched \in SUBSET {i \in Ids : IsLive(snapshot, i)} :
       IF snapshot.capture
         THEN req' = [req EXCEPT ![r].pc = "report", ![r].seen = matched]
         ELSE Finish(r, 200)
  /\ UnchangedShared

SearchObserves(r) ==
  /\ req[r].pc = "report"
  /\ locks.evidence = NobodyHolds
  /\ evidence' = Observe(evidence, req[r].work.group, req[r].work.arg, req[r].seen)
  /\ Finish(r, 200)
  /\ UNCHANGED <<durable, stops, engine, snapshot, locks, phase>>

\* Learning and discovery find a fault in their document only here; discovery lists the
\* engine's own sources.
ReadSnapshot(r) ==
  /\ req[r].pc = "work" /\ req[r].work.op \in SnapshotReads
  /\ req[r].work.op = "alias_discover" => locks.engine = NobodyHolds
  /\ \E status \in IF req[r].work.op = "doc_get" /\ ~IsLive(snapshot, req[r].work.id) THEN {404}
                    ELSE IF req[r].work.op \in {"vocab_learn", "alias_discover"} THEN {200, 400}
                    ELSE {200} : Finish(r, status)
  /\ UnchangedShared

\* A probe that waits for a status is answered when it holds, or at its deadline.
HealthAnswers(r) ==
  /\ req[r].pc = "work" /\ req[r].work.op = "health"
  /\ Finish(r, IF snapshot.healthy /\ ~snapshot.stale THEN 200 ELSE 408)
  /\ UnchangedShared

Bumped(e) == IF e = engine THEN e ELSE [e EXCEPT !.seq = engine.seq + 1]

Free(r) ==
  [locks EXCEPT !.engine = NobodyHolds,
                !.serial = IF locks.serial = r THEN NobodyHolds ELSE @]

\* The worker takes the engine, applies the request, and goes on to publish.
Work(r) ==
  /\ req[r].pc = "work" /\ req[r].work.op \in EngineOps
  /\ locks.engine = NobodyHolds
  /\ \E o \in Outcomes(r, engine) :
       /\ engine' = Bumped(o.engine)
       /\ IF o.publish
            THEN /\ req' = [req EXCEPT
                      ![r].pc = IF req[r].work.op \in PublishInPlace THEN "publish" ELSE "relock",
                      ![r].status = o.status, ![r].seq = Bumped(o.engine).seq, ![r].seen = {}]
                 /\ locks' = IF req[r].work.op \in PublishInPlace
                               THEN [locks EXCEPT !.engine = r] ELSE locks
            ELSE /\ Finish(r, o.status)
                 /\ UNCHANGED locks
  /\ UNCHANGED <<durable, stops, snapshot, evidence, phase>>

Relock(r) ==
  /\ req[r].pc = "relock" /\ locks.engine = NobodyHolds
  /\ locks' = [locks EXCEPT !.engine = r]
  /\ GoesTo(r, "publish")
  /\ UNCHANGED <<durable, stops, engine, snapshot, evidence, phase>>

\* PublishSyncs as it would be if it let the evidence go before the store.
PublishSyncsBriefly(r) ==
  /\ req[r].pc = "publish" /\ engine.capture
  /\ locks.evidence = NobodyHolds
  /\ evidence' = SyncTracked(evidence, engine.reg)
  /\ GoesTo(r, "store")
  /\ UNCHANGED <<durable, stops, engine, snapshot, locks, phase>>

\* The evidence is brought in line with the new registry before anyone can see it
\* next to the snapshot; without capture it is left as it is.
PublishSyncs(r) ==
  /\ req[r].pc = "publish" /\ engine.capture
  /\ locks.evidence = NobodyHolds
  /\ evidence' = SyncTracked(evidence, engine.reg)
  /\ locks' = [locks EXCEPT !.evidence = r]
  /\ GoesTo(r, "store")
  /\ UNCHANGED <<durable, stops, engine, snapshot, phase>>

\* PublishStores as it would be if a snapshot without capture were published later.
PublishStoresLate(r) ==
  /\ \/ req[r].pc = "publish" /\ ~engine.capture
     \/ req[r].pc = "store"
  /\ snapshot' = IF engine.capture THEN engine ELSE snapshot
  /\ locks' = [Free(r) EXCEPT !.evidence = IF locks.evidence = r THEN NobodyHolds ELSE @]
  /\ GoesTo(r, "done")
  /\ UNCHANGED <<durable, stops, engine, evidence, phase>>

PublishStores(r) ==
  /\ \/ req[r].pc = "publish" /\ ~engine.capture
     \/ req[r].pc = "store"
  /\ snapshot' = engine
  /\ locks' = [Free(r) EXCEPT !.evidence = IF locks.evidence = r THEN NobodyHolds ELSE @]
  /\ GoesTo(r, "done")
  /\ UNCHANGED <<durable, stops, engine, evidence, phase>>

(***************************************************************************)
(* Shutdown                                                                *)
(***************************************************************************)

Signal ==
  /\ phase = "serving" /\ stops
  /\ phase' = "draining"
  /\ UNCHANGED <<durable, stops, engine, snapshot, evidence, locks, req>>

\* The drain ends with the last handler or at its deadline; then all write permits are
\* taken at once, and kept.
QuiesceWrites ==
  /\ phase = "draining"
  /\ InUse("write") = 0
  /\ phase' = "quiesced"
  /\ UNCHANGED <<durable, stops, engine, snapshot, evidence, locks, req>>

FinalFlush ==
  /\ phase = "quiesced" /\ locks.engine = NobodyHolds
  /\ engine' \in {Bumped(e) : e \in FlushEngine(engine)}
  /\ phase' = "exited"
  /\ UNCHANGED <<durable, stops, snapshot, evidence, locks, req>>

Shutdown == Signal \/ QuiesceWrites \/ FinalFlush

\* What a scheduled handler or worker does by itself.
Step(r) ==
  \/ BodyTimesOut(r) \/ Admit(r) \/ FlushRefused(r) \/ SettingsTimeOut(r) \/ TakeSerial(r)
  \/ ReadEvidence(r) \/ FeedbackRead(r) \/ ResetFeedback(r) \/ ReadSources(r)
  \/ SearchLoads(r) \/ SearchObserves(r) \/ ReadSnapshot(r) \/ HealthAnswers(r)
  \/ Work(r) \/ Relock(r) \/ PublishSyncs(r) \/ PublishStores(r)

Client(r) == Arrive(r) \/ BodyArrives(r) \/ Leaves(r)

NodeNext == (\E r \in Reqs : Step(r) \/ Client(r)) \/ Shutdown

NodeFairness == \A r \in Reqs : WF_nodeVars(Step(r))

(***************************************************************************)
(* Properties                                                              *)
(***************************************************************************)

\* A change is visible once it is answered: the snapshot that searches read includes
\* every write, settings or vocabulary change replied to with success.
ReplyIsVisible ==
  \A r \in Reqs :
    req[r].pc = "done" /\ req[r].status \in {200, 201} => snapshot.seq >= req[r].seq

\* Whoever takes the evidence lock finds evidence for the registry of the snapshot that
\* is published: the tracked pairs are its candidates, as long as capture is on.
EvidenceFitsSnapshot ==
  snapshot.capture /\ locks.evidence = NobodyHolds => DOMAIN evidence = Tracked(snapshot.reg)

\* No search ever runs a new normalizer against segments compiled under the old one.
NoStaleSnapshot == ~snapshot.stale

\* Every document a reply or a worker left in the memtable is flushed before the process
\* ends, unless the flush itself failed.
NothingAfterFinalFlush == phase = "exited" => ~engine.mem \/ ~engine.healthy

\* Every request is answered or its process ends; only a client of an endpoint without
\* a body timeout can keep its own request open, and it keeps nobody else waiting.
EveryRequestEnds ==
  \A r \in Reqs :
    (req[r].pc \notin {"idle", "done"})
      ~> (req[r].pc = "done" \/ phase \in {"quiesced", "exited"}
            \/ (req[r].pc = "stalled" /\ req[r].work.op \notin Timed))

(* A published snapshot is current, the evidence tracked fits it, and the   *)
(* final flush has everything.                                              *)
SnapshotsAreFresh == NoStaleSnapshot /\ EvidenceFitsSnapshot /\ NothingAfterFinalFlush
=============================================================================
