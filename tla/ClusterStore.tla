---------------------------- MODULE ClusterStore ----------------------------
(***************************************************************************)
(* What an in-process cluster keeps on disk, and how it gets back from it: *)
(* the cluster manifest, the cluster log, the shards' segment files and    *)
(* source sidecars, the build mark and the record of accepted log losses.  *)
(* A cluster is built, opened, written to, checkpointed, resized, given a  *)
(* new vocabulary, backed up; any file operation may fail, and the process *)
(* or the machine may stop between any two.                                *)
(*                                                                         *)
(* A row is an id and a version.  A write reaches its shards in one step   *)
(* (what happens when some of them fail is in ClusterWrites), and one      *)
(* operation runs at a time: checkpoints and layout changes exclude        *)
(* mutations.  wal_sync_on_write is on.                                    *)
(***************************************************************************)
EXTENDS Integers, Sequences, FiniteSets, TLC, Functions, SequencesExt

CONSTANTS Ids,
          Placed,        \* number of shards -> id -> the positions the ring gives it
          FirstShards,   \* shard count and corpus of the build
          FirstRows,
          Bounds,        \* what a behaviour may contain: one of these
          RegrowsOverNamed,  \* may a resize grow over a shard directory in use
          UpgradesAhead,     \* may an upgrade find sidecars ahead of the manifest
          RestartsUnsynced   \* may a restart leave a rename to a later power loss

(* Versions written, layout generations, checkpoints, failing file          *)
(* operations, stops of the process and logs lost.                          *)
Bound == [writes : Nat, gens : Nat, epochs : Nat, faults : Nat, crashes : Nat, losses : Nat]

ASSUME BoundsAssumption == Bounds \subseteq Bound
ASSUME PlacedAssumption ==
  \A n \in DOMAIN Placed : \A i \in Ids : Placed[n][i] \subseteq 0..(n - 1) /\ Placed[n][i] # {}
ASSUME FirstAssumption == FirstShards \in DOMAIN Placed

VARIABLES
  disk,       \* the data directory
  pc,         \* where the running operation is
  op,         \* the running operation
  mem,        \* the coordinator's memory
  env,        \* what is left of the bounds; readers, operator, release
  outcomes    \* the row sets a restart may serve
vars == <<disk, pc, op, mem, env, outcomes>>

Positions == UNION {0..(n - 1) : n \in DOMAIN Placed}
InitialGeneration == 1

(***************************************************************************)
(* A shard: its segment files, the rows in no file yet, the tombstones of  *)
(* filed rows, the next file number, and its query sources.                *)
(***************************************************************************)
EmptyShard(next) == [base |-> <<>>, loose |-> {}, dead |-> {}, next |-> next, sources |-> {}]

IdsOf(rows) == {r[1] : r \in rows}
Without(rows, id) == {r \in rows : r[1] # id}

LiveRows(s) == (UNION Range(s.base) \ s.dead) \cup s.loose

DropRow(s, id) ==
  [s EXCEPT !.dead = @ \cup {r \in UNION Range(s.base) : r[1] = id},
            !.loose = Without(@, id), !.sources = Without(@, id)]

PutRow(s, row) ==
  [DropRow(s, row[1]) EXCEPT !.loose = @ \cup {row}, !.sources = @ \cup {row}]

ApplyWrite(shards, w) ==
  LET n == Cardinality(DOMAIN shards)
  IN  [p \in DOMAIN shards |->
         IF w.kind # "remove" /\ p \in Placed[n][w.id]
           THEN PutRow(shards[p], <<w.id, w.version>>)
           ELSE DropRow(shards[p], w.id)]

RowsAfter(rows, w) ==
  Without(rows, w.id) \cup (IF w.kind = "remove" THEN {} ELSE {<<w.id, w.version>>})

Served(shards) == UNION {LiveRows(shards[p]) : p \in DOMAIN shards}

Flushed(s) ==
  IF s.loose = {} THEN s
  ELSE [s EXCEPT !.base = (s.next :> s.loose) @@ @, !.loose = {}, !.next = @ + 1]

\* Mutant: the tombstones are dropped and the files stay as they are.
ResealedInName(s) == [s EXCEPT !.dead = {}]

\* A file with tombstones is written again without them; an empty one is dropped.
Resealed(s) ==
  LET dirty == {f \in DOMAIN s.base : s.base[f] \cap s.dead # {}}
      left == {f \in dirty : s.base[f] \ s.dead # {}}
      number(f) == s.next + Cardinality({g \in left : g < f})
  IN  [s EXCEPT
        !.base = [k \in {number(f) : f \in left} |->
                    s.base[CHOOSE f \in left : number(f) = k] \ s.dead]
                 @@ Restrict(@, DOMAIN @ \ dirty),
        !.dead = {}, !.next = @ + Cardinality(left)]

\* A shard after the first steps of a seal: memtable flushed, sources saved, resealed.
Sealed(s, stage) ==
  CASE stage = 0 -> s
    [] stage \in {1, 2} -> Flushed(s)
    [] OTHER -> Resealed(Flushed(s))

\* A file's rows carry the placement generation they were compiled for.
Files(base, gen) == [f \in DOMAIN base |-> [gen |-> gen, rows |-> base[f]]]

\* Writing a shard's files; the sidecar is replaced in place once sources are saved.
StoreShard(d, p, gen, s, stage) ==
  [d EXCEPT !.files[p] = Files(s.base, gen) @@ @,
            !.cars[p] = IF stage >= 2 THEN (gen :> s.sources) @@ @ ELSE @]

(***************************************************************************)
(* The manifest, and the cluster recovered from it.                        *)
(***************************************************************************)
Manifest(layout, epoch, pos, semantics) ==
  [epoch |-> epoch, gen |-> layout.gen, n |-> layout.n, vocab |-> layout.vocab,
   pos |-> pos, semantics |-> semantics,
   registry |-> [p \in DOMAIN layout.shards |-> DOMAIN layout.shards[p].base],
   next |-> [p \in DOMAIN layout.shards |-> layout.shards[p].next]]

WrittenWithItsLog(m) == m.epoch > 0

MissingSegment(d, m) == \E p \in 0..(m.n - 1) : ~(m.registry[p] \subseteq DOMAIN d.files[p])

\* validate_ownership: a shard refuses rows of another generation.
Misplaced(d, m) ==
  \E p \in 0..(m.n - 1) :
    \E f \in m.registry[p] \cap DOMAIN d.files[p] : d.files[p][f].gen # m.gen

AttachedShards(d, m) ==
  [p \in 0..(m.n - 1) |->
     [base |-> [f \in m.registry[p] \cap DOMAIN d.files[p] |-> d.files[p][f].rows],
      loose |-> {}, dead |-> {},
      next |-> m.next[p],
      sources |-> IF m.gen \in DOMAIN d.cars[p] THEN d.cars[p][m.gen] ELSE {}]]

\* Every live row has some source text: enough to list the ids.
SourcesCover(shards) ==
  \A p \in DOMAIN shards : IdsOf(LiveRows(shards[p])) \subseteq IdsOf(shards[p].sources)

\* Every live row has its own source text: enough to compile it again.
SourcesExact(shards) ==
  \A p \in DOMAIN shards : LiveRows(shards[p]) \subseteq shards[p].sources

Seeded(shards) ==
  IF SourcesCover(shards)
    THEN [ids |-> IdsOf(Served(shards)), authoritative |-> TRUE]
    ELSE [ids |-> {}, authoritative |-> FALSE]

ReplayTail(m, log) == SelectSeq(log, LAMBDA w : w.pos > m.pos)

ReplayApply(m, st, w) ==
  IF st.refusal # "none" THEN st
  ELSE IF w.kind = "add" /\ w.id \in st.ids.ids
    THEN [st EXCEPT !.refusal = "duplicate id"]
  ELSE IF w.kind # "remove" /\ w.gen # m.gen
    THEN [st EXCEPT !.refusal = "placement mismatch"]
  ELSE [st EXCEPT !.shards = ApplyWrite(@, w),
                  !.ids.ids = IF w.kind = "remove" THEN @ \ {w.id} ELSE @ \cup {w.id}]

SeededAgain(st) ==
  IF st.refusal = "none" /\ ~st.ids.authoritative /\ SourcesCover(st.shards)
    THEN [st EXCEPT !.ids = Seeded(st.shards)] ELSE st

\* The open after its log: attach, seed the id directory, replay, and seed again
\* if the sidecars only agree with the rows once the log is applied.
Recovered(d, m) ==
  LET attached == AttachedShards(d, m)
      start == [refusal |-> "none", shards |-> attached, ids |-> Seeded(attached)]
      replayed == FoldLeft(LAMBDA st, w : ReplayApply(m, st, w), start,
                           ReplayTail(m, CHOOSE log \in d.log : TRUE))
  IN  IF MissingSegment(d, m) THEN [start EXCEPT !.refusal = "missing segment", !.shards = <<>>]
      ELSE IF Misplaced(d, m) THEN [start EXCEPT !.refusal = "misplaced rows"]
      ELSE SeededAgain(replayed)

(***************************************************************************)
(* Steps shared by the operations.                                         *)
(***************************************************************************)
NoOp == [kind |-> "none"]
NoMem == [layout |-> <<>>]

Operation(kind, n, vocab, corpus) ==
  [kind |-> kind, at |-> 0, n |-> n, vocab |-> vocab, corpus |-> corpus,
   green |-> <<>>, token |-> {}]

Layout(gen, n, vocab, shards) == [gen |-> gen, n |-> n, vocab |-> vocab, shards |-> shards]

\* A coordinator over a manifest it has just read or written.
Coordinator(layout, m, ids, seq) ==
  [layout |-> layout, epoch |-> m.epoch, committed |-> {m}, seq |-> seq, off |-> FALSE,
   ids |-> ids, control |-> [gen |-> layout.gen, n |-> layout.n, vocab |-> layout.vocab],
   predecessor |-> {}, pending |-> {}]

\* A file operation fails: the call returns an error; a start ends the process.
CanFail == env.faults < env.bound.faults
Fails(memory) ==
  /\ CanFail
  /\ env' = [env EXCEPT !.faults = @ + 1]
  /\ op' = NoOp
  /\ IF op.kind \in {"build", "open", "migrate"}
       THEN pc' = "down" /\ mem' = NoMem
       ELSE pc' = "idle" /\ mem' = memory

Refuses(why) ==
  /\ pc' = "refused" /\ op' = NoOp /\ mem' = NoMem
  /\ env' = [env EXCEPT !.refusal = why]

\* Write a temporary file, rename it over the manifest, sync the directory.  An
\* error after the rename leaves the old manifest to a power loss.
PublishedManifest(d, m, how) ==
  CASE how = "not written" -> d
    [] how = "not synced" -> [d EXCEPT !.man = {m}, !.older = @ \cup {d.man}]
    [] how = "written" -> [d EXCEPT !.man = {m}, !.older = {}]

CurrentManifest == CHOOSE m \in disk.man : TRUE

\* The manifests a start may find.
Readable == UNION ({disk.man} \cup disk.older)

(***************************************************************************)
(* Building.                                                               *)
(***************************************************************************)
\* Syncing the data directory makes every rename in it last.
SyncedDir(d) == [d EXCEPT !.older = {}, !.oldLog = {}]

\* What a start finds: the machine has usually written everything back by then.
WrittenBack(d) == IF RestartsUnsynced THEN d ELSE [SyncedDir(d) EXCEPT !.tail = IF @ = "torn" THEN @ ELSE "none"]

\* build_dir::finish: removing the mark syncs the directory.
Unmarked(d) == IF d.mark THEN [SyncedDir(d) EXCEPT !.mark = FALSE] ELSE d

HoldsData(d) == \E p \in Positions : d.files[p] # <<>> \/ d.cars[p] # <<>>

NoFiles == [p \in Positions |-> <<>>]

\* What an unfinished build left is removed; anything else without a manifest is kept.
BeginBuild ==
  /\ pc = "down" /\ disk.man = {}
  /\ UNCHANGED outcomes
  /\ IF disk.mark /\ disk.log # {} THEN Refuses("manifest gone") /\ UNCHANGED disk
     ELSE IF ~disk.mark /\ (disk.log # {} \/ HoldsData(disk))
       THEN Refuses("no manifest") /\ UNCHANGED disk
     ELSE /\ disk' = [SyncedDir(disk) EXCEPT !.mark = TRUE, !.files = NoFiles, !.cars = NoFiles]
          /\ pc' = "build"
          /\ op' = Operation("build", FirstShards, 0, FirstRows)
          /\ UNCHANGED <<mem, env>>

\* The queries the ring places on a position.
Bucket(corpus, n, p) == {r \in corpus : p \in Placed[n][r[1]]}

\* The corpus goes to one shard after the other.
BuildShard ==
  /\ pc = "build"
  /\ LET p == op.at
         rows == Bucket(op.corpus, op.n, p)
         s == Flushed([EmptyShard(1) EXCEPT !.loose = rows, !.sources = rows])
     IN  \/ /\ disk' = IF rows = {} THEN disk ELSE StoreShard(disk, p, InitialGeneration, s, 2)
            /\ op' = [op EXCEPT !.green = Append(@, s), !.at = p + 1]
            /\ pc' = IF p + 1 = op.n THEN "first manifest" ELSE "build"
            /\ UNCHANGED <<mem, env>>
         \/ /\ disk' \in {disk, StoreShard(disk, p, InitialGeneration, s, 1)}
            /\ Fails(mem)
  /\ UNCHANGED outcomes

GreenShards == [p \in 0..(op.n - 1) |-> op.green[p + 1]]

CommitDurableBase ==
  /\ pc = "first manifest"
  /\ LET layout == Layout(InitialGeneration, op.n, op.vocab, GreenShards)
         m == Manifest(layout, 0, 0, env.release)
     IN  \E how \in {"not written", "not synced", "written"} :
           /\ disk' = PublishedManifest(disk, m, how)
           /\ IF how = "written"
                THEN /\ mem' = Coordinator(layout, m, Seeded(layout.shards), 1)
                     /\ pc' = "first log"
                     /\ UNCHANGED <<op, env>>
                ELSE Fails(mem)
  /\ UNCHANGED outcomes

CreateFirstLog ==
  /\ pc = "first log"
  /\ \/ /\ disk' = [SyncedDir(disk) EXCEPT !.log = {<<>>}]
        /\ pc' = "commit log"
        /\ UNCHANGED <<op, mem, env>>
     \/ /\ disk' \in {disk, [disk EXCEPT !.log = {<<>>}, !.oldLog = {{}}]}
        /\ Fails(mem)
  /\ UNCHANGED outcomes

\* commit_the_log_into_the_manifest, at the end of a build and of an open.
CommitLog ==
  /\ pc = "commit log"
  /\ LET m == [(CHOOSE c \in mem.committed : TRUE) EXCEPT !.epoch = 1]
     IN  \E how \in {"not written", "not synced", "written"} :
           /\ disk' = PublishedManifest(disk, m, how)
           /\ IF how = "written"
                THEN /\ mem' = [mem EXCEPT !.committed = {m}, !.epoch = 1]
                     /\ pc' = IF op.kind = "build" THEN "unmark" ELSE "idle"
                     /\ op' = IF op.kind = "build" THEN op ELSE NoOp
                     /\ UNCHANGED env
                ELSE Fails(mem)
  /\ UNCHANGED outcomes

FinishBuild ==
  /\ pc = "unmark"
  /\ \/ /\ disk' = Unmarked(disk)
        /\ pc' = "idle" /\ op' = NoOp
        /\ UNCHANGED <<mem, env>>
     \/ disk' = disk /\ Fails(mem)
  /\ UNCHANGED outcomes

(***************************************************************************)
(* Opening.                                                                *)
(***************************************************************************)
BeginOpen ==
  /\ pc = "down" /\ disk.man # {}
  /\ disk' = Unmarked(WrittenBack(disk))
  /\ pc' = "open log" /\ op' = Operation("open", 0, 0, {})
  /\ UNCHANGED <<mem, env, outcomes>>

\* A record that is not whole ends the log and is cut off.
RepairedTail(d) == [d EXCEPT !.tail = IF @ = "torn" THEN "none" ELSE @]

\* Every pending loss is applied once there is a log.
SettledLosses(d) ==
  [d EXCEPT !.applied = @ + Cardinality(d.accepted), !.accepted = {}]

\* The log is there, or the manifest is older than any log.
FindLog ==
  /\ pc = "open log"
  /\ disk.log # {} \/ ~WrittenWithItsLog(CurrentManifest)
  /\ LET found == RepairedTail([disk EXCEPT !.log = IF @ = {} THEN {<<>>} ELSE @])
     IN  disk' = IF WrittenWithItsLog(CurrentManifest) THEN SettledLosses(found) ELSE found
  /\ pc' = "attach"
  /\ UNCHANGED <<op, mem, env, outcomes>>

CommitRecord(m) == <<m.epoch, m.pos>>

Token(m) == <<CommitRecord(m), disk.applied + 1>>

LogIsLost ==
  /\ pc = "open log"
  /\ disk.log = {} /\ WrittenWithItsLog(CurrentManifest)

\* The refusal names the token of this loss.  A token stays in the start-up settings.
RefuseLoss ==
  /\ LogIsLost
  /\ Token(CurrentManifest) \notin env.shown
  /\ env' = [env EXCEPT !.shown = @ \cup {Token(CurrentManifest)}]
  /\ pc' = "down" /\ op' = NoOp
  /\ UNCHANGED <<disk, mem, outcomes>>

\* The record is on disk before anything else changes; a pending one is not repeated.
RecordedLoss(d, record) == [d EXCEPT !.accepted = @ \cup {record}]

AcceptLoss ==
  /\ LogIsLost
  /\ Token(CurrentManifest) \in env.shown
  /\ disk' = RecordedLoss(SyncedDir(disk), CommitRecord(CurrentManifest))
  /\ pc' = "create log"
  /\ op' = [op EXCEPT !.token = {Token(CurrentManifest)}]
  /\ UNCHANGED <<mem, env, outcomes>>

\* Only now are the writes since the manifest given up.
CreateLog ==
  /\ pc = "create log"
  /\ disk' = [SyncedDir(disk) EXCEPT !.log = {<<>>}]
  /\ outcomes' = {Served(AttachedShards(disk, CurrentManifest))}
  /\ pc' = "open log"
  /\ UNCHANGED <<op, mem, env>>

LastPos(m, log) == IF log = <<>> \/ Last(log).pos < m.pos THEN m.pos ELSE Last(log).pos

\* What a start serves is one of the promised outcomes, and then the only one, unless
\* the log's last record may still be lost.
Settle(rows) ==
  outcomes' = IF rows \in outcomes /\ disk.tail # "whole" THEN {rows} ELSE outcomes

Attach ==
  /\ pc = "attach"
  /\ CurrentManifest.semantics = env.release
  /\ LET m == CurrentManifest
         r == Recovered(disk, m)
         layout == Layout(m.gen, m.n, m.vocab, r.shards)
     IN  IF r.refusal # "none"
           THEN Refuses(r.refusal) /\ UNCHANGED outcomes
           ELSE /\ mem' = Coordinator(layout, m, r.ids,
                            LastPos(m, CHOOSE log \in disk.log : TRUE) + 1)
                /\ Settle(Served(r.shards))
                /\ pc' = IF WrittenWithItsLog(m) THEN "idle" ELSE "commit log"
                /\ op' = IF WrittenWithItsLog(m) THEN NoOp ELSE op
                /\ env' = [env EXCEPT !.used = @ \cup op.token]
  /\ UNCHANGED disk

\* An older compiler wrote the segments: the live queries, with the log folded in, are
\* compiled again into a new layout.
Migrate ==
  /\ pc = "attach"
  /\ CurrentManifest.semantics < env.release
  /\ LET m == CurrentManifest
         shards == AttachedShards(disk, m)
         log == CHOOSE l \in disk.log : TRUE
         corpus == FoldLeft(RowsAfter, Served(shards), ReplayTail(m, log))
     IN  IF MissingSegment(disk, m)
           THEN Refuses("missing segment") /\ UNCHANGED outcomes
         ELSE IF Misplaced(disk, m)
           THEN Refuses("misplaced rows") /\ UNCHANGED outcomes
         ELSE IF ~SourcesExact(shards)
           THEN Refuses("source unavailable") /\ UNCHANGED outcomes
         ELSE /\ mem' = Coordinator(Layout(m.gen, m.n, m.vocab, shards), m, Seeded(shards),
                                    LastPos(m, log) + 1)
              /\ op' = Operation("migrate", m.n, m.vocab, corpus)
              /\ pc' = "rebuild"
              /\ Settle(corpus)
              /\ env' = [env EXCEPT !.used = @ \cup op.token]
  /\ UNCHANGED disk

(***************************************************************************)
(* Writes.                                                                 *)
(***************************************************************************)
\* Mutant: writes are accepted under a layout the manifest does not have.
AdmitsEveryLayout(kind) == TRUE

\* A create or an upsert would be logged under the serving generation; it waits until
\* the manifest has that generation.
LayoutAdmits(kind) ==
  kind = "remove" \/ \A m \in mem.committed : m.gen = mem.layout.gen

Admitted(kind, id) ==
  /\ pc = "idle"
  /\ env.version < env.bound.writes
  /\ LayoutAdmits(kind)
  /\ kind = "add" => mem.ids.authoritative /\ id \notin mem.ids.ids

NewWrite(kind, id) ==
  [kind |-> kind, id |-> id, version |-> env.version + 1, gen |-> mem.layout.gen, pos |-> mem.seq]

Logged(d, w) == [d EXCEPT !.log = {Append(log, w) : log \in @}]

\* The record is appended and synced, then applied.
Write(kind, id) ==
  /\ Admitted(kind, id) /\ ~mem.off
  /\ LET w == NewWrite(kind, id)
     IN  /\ disk' = [Logged(disk, w) EXCEPT !.tail = "none"]
         /\ mem' = [mem EXCEPT !.seq = @ + 1,
                               !.layout.shards = ApplyWrite(@, w),
                               !.ids.ids = IF kind = "remove" THEN @ \ {id} ELSE @ \cup {id}]
         /\ outcomes' = IF disk.tail = "whole" THEN {RowsAfter(Served(mem.layout.shards), w)}
                        ELSE {RowsAfter(rows, w) : rows \in outcomes}
  /\ env' = [env EXCEPT !.version = @ + 1]
  /\ UNCHANGED <<pc, op>>

\* The append or its sync fails: the write is refused, its number is used up, and the
\* log takes no more.  The record may be whole in the file.
WriteInDoubt(kind, id) ==
  /\ Admitted(kind, id) /\ ~mem.off /\ CanFail
  /\ \E tail \in {"torn", "whole"} :
       LET w == NewWrite(kind, id)
           whole == tail = "whole"
       IN  /\ disk' = [(IF whole THEN Logged(disk, w) ELSE disk) EXCEPT !.tail = tail]
           /\ outcomes' = IF whole THEN outcomes \cup {RowsAfter(rows, w) : rows \in outcomes}
                          ELSE outcomes
  /\ mem' = [mem EXCEPT !.seq = @ + 1, !.off = TRUE]
  /\ env' = [env EXCEPT !.version = @ + 1, !.faults = @ + 1]
  /\ UNCHANGED <<pc, op>>

WriteRefused(kind, id) ==
  /\ Admitted(kind, id) /\ mem.off
  /\ mem' = [mem EXCEPT !.seq = @ + 1]
  /\ env' = [env EXCEPT !.version = @ + 1]
  /\ UNCHANGED <<disk, pc, op, outcomes>>

\* A corpus for an empty cluster is not logged; a checkpoint commits it.
BulkIngest ==
  /\ pc = "idle"
  /\ env.version < env.bound.writes
  /\ mem.layout # <<>> /\ Served(mem.layout.shards) = {}
  /\ LET put(shards, id) == ApplyWrite(shards, NewWrite("add", id))
         loaded == FoldLeft(put, mem.layout.shards, SetToSeq(Ids))
     IN  /\ mem' = [mem EXCEPT !.layout.shards = loaded, !.ids.ids = Ids]
         /\ outcomes' = outcomes \cup {Served(loaded)}
  /\ op' = Operation("bulk", mem.layout.n, mem.layout.vocab, {})
  /\ pc' = "seal"
  /\ env' = [env EXCEPT !.version = @ + 1]
  /\ UNCHANGED disk

FlushShards ==
  /\ pc = "idle"
  /\ \E p \in DOMAIN mem.layout.shards : mem.layout.shards[p].loose # {}
  /\ LET flushed == [p \in DOMAIN mem.layout.shards |-> Sealed(mem.layout.shards[p], 2)]
     IN  /\ mem' = [mem EXCEPT !.layout.shards = flushed]
         /\ disk' = [disk EXCEPT
              !.files = [p \in Positions |->
                IF p \in DOMAIN flushed THEN Files(flushed[p].base, mem.layout.gen) @@ @[p]
                ELSE @[p]],
              !.cars = [p \in Positions |->
                IF p \in DOMAIN flushed THEN (mem.layout.gen :> flushed[p].sources) @@ @[p]
                ELSE @[p]]]
  /\ UNCHANGED <<pc, op, env, outcomes>>

(***************************************************************************)
(* Checkpoints.                                                            *)
(***************************************************************************)
BeginCheckpoint(kind) ==
  /\ pc = "idle" /\ mem.epoch < env.bound.epochs
  /\ kind = "backup" => env.copies = {}
  /\ op' = Operation(kind, mem.layout.n, mem.layout.vocab, {})
  /\ pc' = "seal"
  /\ UNCHANGED <<disk, mem, env, outcomes>>

SealShard ==
  /\ pc = "seal"
  /\ LET p == op.at
     IN  \E stage \in 0..3, ok \in BOOLEAN :
           LET s == Sealed(mem.layout.shards[p], stage)
               sealed == [mem EXCEPT !.layout.shards[p] = s]
           IN  /\ ok => stage = 3
               /\ disk' = StoreShard(disk, p, mem.layout.gen, s, stage)
               /\ IF ok
                    THEN /\ mem' = sealed
                         /\ op' = [op EXCEPT !.at = p + 1]
                         /\ pc' = IF p + 1 = mem.layout.n THEN "commit" ELSE "seal"
                         /\ UNCHANGED env
                    ELSE Fails(sealed)
  /\ UNCHANGED outcomes

CommitManifest ==
  /\ pc = "commit"
  /\ LET m == Manifest(mem.layout, mem.epoch + 1, mem.seq - 1, env.release)
         noted == IF mem.predecessor = {} THEN mem ELSE [mem EXCEPT !.pending = {m}]
     IN  \E how \in {"not written", "not synced", "written"} :
           /\ disk' = PublishedManifest(disk, m, how)
           /\ IF how = "written"
                THEN /\ mem' = [noted EXCEPT !.committed = {m}, !.epoch = m.epoch]
                     /\ outcomes' = {Served(mem.layout.shards)}
                     /\ pc' = "truncate"
                     /\ UNCHANGED <<op, env>>
                ELSE Fails(noted) /\ UNCHANGED outcomes

\* The log is replaced by what lies after the manifest's position.  An error at the
\* rename, or at the sync after it, leaves an appender that refuses.
TruncateLog ==
  /\ pc = "truncate"
  /\ LET cut == [disk EXCEPT !.log = {ReplayTail(CurrentManifest, log) : log \in @}]
     IN  \/ /\ disk' = [cut EXCEPT !.oldLog = {}, !.tail = "none"]
            /\ mem' = [mem EXCEPT !.off = FALSE]
            /\ UNCHANGED env
         \/ /\ CanFail
            /\ env' = [env EXCEPT !.faults = @ + 1]
            /\ \/ disk' = disk /\ mem' = mem
               \/ disk' = disk /\ mem' = [mem EXCEPT !.off = TRUE]
               \/ /\ disk' = [cut EXCEPT !.oldLog = {disk.log}, !.tail = "none"]
                  /\ mem' = [mem EXCEPT !.off = TRUE]
  /\ pc' = "sweep"
  /\ UNCHANGED <<op, outcomes>>

SweepSegments(d, m) ==
  [d EXCEPT !.files = [p \in Positions |->
     IF p < m.n THEN Restrict(@[p], m.registry[p] \cap DOMAIN @[p]) ELSE @[p]]]

\* The first layout's sidecar has no generation in its name and is never swept.
SweepSidecars(d, m) ==
  [d EXCEPT !.cars = [p \in Positions |->
     IF p < m.n THEN Restrict(@[p], {g \in DOMAIN @[p] : g >= m.gen \/ g = InitialGeneration})
     ELSE @[p]]]

SweepDirs(d, m) ==
  [d EXCEPT !.files = [p \in Positions |-> IF p < m.n THEN @[p] ELSE <<>>],
            !.cars = [p \in Positions |-> IF p < m.n THEN @[p] ELSE <<>>]]

\* Mutant: the sweep does not wait for readers of a retired layout.
SweepsAnyway == TRUE

RetiredLayoutsReleased == env.held = {}

\* Mutant: the copy leaves the source sidecars behind.
CopyWithoutSidecars(d, m) ==
  [d EXCEPT !.files = SweepDirs(SweepSegments(d, m), m).files,
            !.cars = [p \in Positions |-> <<>>]]

\* A copy of the directory: the manifest and the files it names, and the log.
CopyOfDir(d, m) ==
  [d EXCEPT !.files = SweepDirs(SweepSegments(d, m), m).files,
            !.cars = [p \in Positions |-> Restrict(@[p], DOMAIN @[p] \cap {m.gen})]]

\* Every segment the copied manifest names is read again before the copy gets its name.
CopyVerifies(d, m) == ~MissingSegment(d, m) /\ d.log # {}

\* The operation is over; a backup copies the directory before mutations go on.
Sweep ==
  /\ pc = "sweep"
  /\ \E done \in 0..3 :
       LET m == CurrentManifest
           d1 == IF done >= 1 THEN SweepSegments(disk, m) ELSE disk
           d2 == IF done >= 2 THEN SweepSidecars(d1, m) ELSE d1
           swept == IF done = 3 THEN SweepDirs(d2, m) ELSE d2
           faults == IF RetiredLayoutsReleased /\ done < 3 THEN 1 ELSE 0
           copy == CopyOfDir(swept, m)
           kept == [serving |-> mem.layout.shards, opened |-> Recovered(copy, m)]
       IN  /\ ~RetiredLayoutsReleased => done = 0
           /\ faults = 1 => CanFail
           /\ disk' = swept
           /\ env' = [env EXCEPT !.faults = @ + faults,
                                 !.copies = IF op.kind = "backup" /\ CopyVerifies(copy, m)
                                               THEN {kept} ELSE @]
  /\ mem' = IF op.kind = "alias" THEN [mem EXCEPT !.predecessor = {}, !.pending = {}] ELSE mem
  /\ pc' = "idle" /\ op' = NoOp
  /\ UNCHANGED outcomes

(***************************************************************************)
(* Layout changes: resizes and vocabularies.                               *)
(***************************************************************************)
Rebuild(kind, n, vocab) ==
  /\ mem.layout.gen < env.bound.gens
  /\ SourcesExact(mem.layout.shards)
  /\ op' = Operation(kind, n, vocab, Served(mem.layout.shards))
  /\ pc' = "rebuild"

\* The control document as a resize may go on from it: the serving one, or the one
\* before a resize whose proposal failed, which is proposed again.
ResizeControl ==
  LET c == mem.control
      l == mem.layout
  IN  {d \in {[gen |-> l.gen, n |-> l.n, vocab |-> l.vocab]} :
         /\ c.vocab = l.vocab
         /\ c = d \/ (c.gen = l.gen - 1 /\ c.n # l.n)}

\* A shard directory that a manifest or a reader still counts on.
InUse(p) ==
  \/ \E m \in Readable : p < m.n
  \/ \E l \in env.held : p \in DOMAIN l.files

Resize(n) ==
  /\ pc = "idle"
  /\ RegrowsOverNamed \/ \A p \in mem.layout.n..(n - 1) : ~InUse(p)
  /\ \E control \in ResizeControl :
       /\ mem' = [mem EXCEPT !.control = control]
       /\ IF n = mem.layout.n
            THEN /\ mem.epoch < env.bound.epochs
                 /\ op' = Operation("resize", n, mem.layout.vocab, {})
                 /\ pc' = "seal"
            ELSE Rebuild("resize", n, mem.layout.vocab)
  /\ UNCHANGED <<disk, env, outcomes>>

SetVocab(vocab) ==
  /\ pc = "idle" /\ vocab # mem.layout.vocab
  /\ Rebuild("vocab", mem.layout.n, vocab)
  /\ UNCHANGED <<disk, mem, env, outcomes>>

\* The manifest has the serving topology and this release's semantics.
ManifestAttests(m) == m.n = mem.layout.n /\ m.semantics = env.release

\* An import starts from a manifest that is committed and is the serving layout's.
AliasPredecessor(m) ==
  /\ ManifestAttests(m)
  /\ mem.committed = {m} /\ m.epoch = mem.epoch
  /\ m.gen = mem.layout.gen /\ m.vocab = mem.layout.vocab

ImportAliases ==
  /\ pc = "idle" /\ mem.layout.vocab = 0
  /\ \E m \in disk.man :
       /\ AliasPredecessor(m)
       /\ mem' = [mem EXCEPT !.predecessor = {m}, !.pending = {}]
  /\ Rebuild("alias", mem.layout.n, 1)
  /\ UNCHANGED <<disk, env, outcomes>>

\* How far an import that did not return had come, by the manifest on disk.
ImportState(m) ==
  IF ~ManifestAttests(m) THEN "diverged"
  ELSE IF m.gen = mem.layout.gen
    THEN IF mem.predecessor # {} /\ m.epoch = mem.epoch + 1
              /\ {m} \in {mem.pending, mem.committed} THEN "published"
         ELSE IF m.epoch = mem.epoch /\ mem.committed = {m} THEN "committed"
         ELSE "diverged"
  ELSE IF m.gen = mem.layout.gen - 1 /\ m.epoch = mem.epoch
            /\ mem.predecessor = {m} /\ mem.committed = {m} THEN "predecessor"
  ELSE "diverged"

\* The control document as the retry may go on from it.
RepairedControl ==
  LET c == mem.control
      l == mem.layout
  IN  {d \in {[gen |-> l.gen, n |-> l.n, vocab |-> l.vocab]} :
         c.n = l.n /\ (c = d \/ c.gen = l.gen - 1)}

\* The same import again finishes what is left of it.
RetryImport ==
  /\ pc = "idle" /\ mem.layout.vocab = 1
  /\ \E m \in disk.man, control \in RepairedControl :
       LET repaired == [mem EXCEPT !.control = control]
           cleared == [repaired EXCEPT !.predecessor = {}, !.pending = {}]
       IN  \/ /\ ImportState(m) = "published"
              /\ \/ /\ disk' = SyncedDir(disk)
                    /\ mem' = [cleared EXCEPT !.epoch = m.epoch, !.committed = {m}]
                    /\ UNCHANGED <<pc, op, env>>
                 \/ disk' = disk /\ Fails(repaired)
           \/ /\ ImportState(m) = "committed"
              /\ mem' = cleared /\ mem' # mem
              /\ UNCHANGED <<disk, pc, op, env>>
           \/ /\ ImportState(m) = "predecessor"
              /\ mem' = repaired
              /\ op' = Operation("alias", mem.layout.n, mem.layout.vocab, {})
              /\ pc' = "seal"
              /\ UNCHANGED <<disk, env>>
  /\ UNCHANGED outcomes

\* A new position starts afresh; an existing one goes on numbering its files.
FirstGreenFile(p) ==
  IF p < mem.layout.n THEN mem.layout.shards[p].next ELSE 1

\* clean_shard_dir for a new position, the stale green sidecar for an existing one.
PreparedDir(p) ==
  IF p < mem.layout.n
    THEN [disk EXCEPT !.cars[p] = Restrict(@, DOMAIN @ \ {mem.layout.gen + 1})]
    ELSE [disk EXCEPT !.files[p] = <<>>, !.cars[p] = <<>>]

\* Rows whose file could not be written stay in memory until the next seal.
BuildGreen ==
  /\ pc = "rebuild"
  /\ LET p == op.at
         rows == Bucket(op.corpus, op.n, p)
         fresh == [EmptyShard(FirstGreenFile(p)) EXCEPT !.loose = rows, !.sources = rows]
     IN  \/ \E stage \in 0..2 :
              LET s == Sealed(fresh, stage)
              IN  /\ stage < 2 => CanFail /\ rows # {}
                  /\ disk' = IF rows = {} THEN PreparedDir(p)
                             ELSE StoreShard(PreparedDir(p), p, mem.layout.gen + 1, s, stage)
                  /\ op' = [op EXCEPT !.green = Append(@, s), !.at = p + 1]
                  /\ env' = [env EXCEPT !.faults = @ + (IF stage < 2 THEN 1 ELSE 0)]
                  /\ pc' = IF p + 1 = op.n THEN "swap" ELSE "rebuild"
                  /\ UNCHANGED mem
         \/ disk' \in {disk, PreparedDir(p)} /\ Fails(mem)
  /\ UNCHANGED outcomes

\* The new layout is published; a reader may still hold the old one.
SwapLayout ==
  /\ pc = "swap"
  /\ LET old == [gen |-> mem.layout.gen,
                 files |-> [p \in DOMAIN mem.layout.shards |-> DOMAIN mem.layout.shards[p].base]]
         green == Layout(mem.layout.gen + 1, op.n, op.vocab, GreenShards)
     IN  /\ mem' = [mem EXCEPT !.layout = green,
                               !.ids = [ids |-> IdsOf(op.corpus), authoritative |-> TRUE]]
         /\ \/ UNCHANGED env
            \/ op.kind # "migrate" /\ env' = [env EXCEPT !.held = @ \cup {old}]
  /\ pc' = "propose"
  /\ UNCHANGED <<disk, op, outcomes>>

\* SetShardCount, or BumpModelVersion with the new dictionary's fingerprint.
ControlAfter(c) ==
  IF op.kind = "resize"
    THEN [c EXCEPT !.gen = @ + 1, !.n = op.n]
    ELSE [c EXCEPT !.gen = @ + 1, !.vocab = op.vocab]

Propose ==
  /\ pc = "propose"
  /\ \/ /\ mem' = [mem EXCEPT !.control = ControlAfter(@)]
        /\ op' = [op EXCEPT !.at = 0]
        /\ pc' = "seal"
        /\ UNCHANGED env
     \/ Fails(mem)
  /\ UNCHANGED <<disk, outcomes>>

ReleaseLayouts ==
  /\ env.held # {}
  /\ env' = [env EXCEPT !.held = {}]
  /\ UNCHANGED <<disk, pc, op, mem, outcomes>>

(***************************************************************************)
(* Stops, a lost log, a new release.                                       *)
(***************************************************************************)
Stopped ==
  /\ env.crashes < env.bound.crashes /\ pc # "refused"
  /\ env' = [env EXCEPT !.crashes = @ + 1, !.held = {}]
  /\ pc' = "down" /\ op' = NoOp /\ mem' = NoMem
  /\ UNCHANGED outcomes

ProcessStops ==
  /\ pc # "down" /\ Stopped
  /\ UNCHANGED disk

PowerLoss ==
  /\ Stopped
  /\ \E man \in {disk.man} \cup disk.older, log \in {disk.log} \cup disk.oldLog :
       \E lost \in IF disk.tail = "whole" /\ log = disk.log THEN BOOLEAN ELSE {FALSE} :
         disk' = [disk EXCEPT !.man = man, !.older = {}, !.oldLog = {},
                              !.tail = IF lost THEN "torn" ELSE "none",
                              !.log = IF lost THEN {Front(l) : l \in log} ELSE log]

LoseLog ==
  /\ pc = "down" /\ disk.man # {} /\ disk.log # {}
  /\ env.losses < env.bound.losses
  /\ env' = [env EXCEPT !.losses = @ + 1]
  /\ disk' = [disk EXCEPT !.log = {}, !.oldLog = {}, !.tail = "none"]
  /\ UNCHANGED <<pc, op, mem, outcomes>>

\* A release with a newer compiler is installed.
Upgrade ==
  /\ pc = "down" /\ disk.man # {} /\ env.release = 0
  /\ CurrentManifest.gen < env.bound.gens /\ CurrentManifest.epoch < env.bound.epochs
  /\ UpgradesAhead \/ \A m \in Readable : SourcesExact(AttachedShards(disk, m))
  /\ env' = [env EXCEPT !.release = 1]
  /\ UNCHANGED <<disk, pc, op, mem, outcomes>>

(***************************************************************************)
(* The specification.                                                      *)
(***************************************************************************)
StoreInit ==
  /\ disk = [man |-> {}, older |-> {}, mark |-> FALSE, log |-> {}, oldLog |-> {}, tail |-> "none",
             files |-> NoFiles, cars |-> NoFiles, accepted |-> {}, applied |-> 0]
  /\ pc = "down" /\ op = NoOp /\ mem = NoMem
  /\ \E b \in Bounds :
       env = [bound |-> b, faults |-> 0, crashes |-> 0, losses |-> 0, version |-> 0,
              held |-> {}, shown |-> {}, used |-> {}, release |-> 0, copies |-> {},
              refusal |-> "none"]
  /\ outcomes = {FirstRows}

StartStep ==
  \/ BeginBuild \/ BuildShard \/ CommitDurableBase \/ CreateFirstLog \/ CommitLog
  \/ FinishBuild \/ BeginOpen \/ FindLog \/ RefuseLoss \/ AcceptLoss \/ CreateLog
  \/ Attach \/ Migrate

WriteStep ==
  \/ \E kind \in {"add", "upsert", "remove"}, id \in Ids :
       Write(kind, id) \/ WriteInDoubt(kind, id) \/ WriteRefused(kind, id)
  \/ BulkIngest \/ FlushShards

CommitStep ==
  \/ \E kind \in {"checkpoint", "backup"} : BeginCheckpoint(kind)
  \/ SealShard \/ CommitManifest \/ TruncateLog \/ Sweep

LayoutStep ==
  \/ \E n \in DOMAIN Placed : Resize(n)
  \/ \E vocab \in 0..1 : SetVocab(vocab)
  \/ ImportAliases \/ RetryImport
  \/ BuildGreen \/ SwapLayout \/ Propose \/ ReleaseLayouts

Environment ==
  ProcessStops \/ PowerLoss \/ LoseLog \/ Upgrade

StoreNext == StartStep \/ WriteStep \/ CommitStep \/ LayoutStep \/ Environment

(***************************************************************************)
(* Properties.                                                             *)
(***************************************************************************)
(* An open cluster serves what was promised: every acknowledged write and   *)
(* nothing else, each row on exactly the shards the ring looks on, whatever *)
(* stopped or failed before; a write that was refused because its append    *)
(* failed may be there or not, and writes whose log was given up are gone.  *)
ServesThePromised ==
  pc = "idle" =>
    /\ Served(mem.layout.shards) \in outcomes
    /\ \A p \in DOMAIN mem.layout.shards :
         LiveRows(mem.layout.shards[p]) =
           {r \in Served(mem.layout.shards) : p \in Placed[mem.layout.n][r[1]]}

(* A start never refuses a directory for what a failure or a stop did to    *)
(* it: no segment is missing, no logged write has another generation, no id *)
(* is added twice.  And it knows its ids, so that creates go on, unless the *)
(* log was lost.                                                            *)
StartsAgain ==
  /\ pc # "refused"
  /\ pc = "idle" /\ env.losses = 0 =>
       mem.ids = [ids |-> IdsOf(Served(mem.layout.shards)), authoritative |-> TRUE]

(* Every file a start or a reader may ask for is there, as it was: the      *)
(* segments of any manifest that may be found, and those of a retired       *)
(* layout that a reader still holds.                                        *)
NamedFilesStay ==
  /\ \A m \in Readable : ~MissingSegment(disk, m) /\ ~Misplaced(disk, m)
  /\ \A l \in env.held : \A p \in DOMAIN l.files : \A f \in l.files[p] :
       f \in DOMAIN disk.files[p] /\ disk.files[p][f].gen = l.gen

(* A backup opens, with the rows the cluster served when it was taken, and  *)
(* with the source texts a later resize or vocabulary change needs if the   *)
(* cluster had them.                                                        *)
BackupIsWhole ==
  \A c \in env.copies :
    /\ c.opened.refusal = "none"
    /\ Served(c.opened.shards) = Served(c.serving)
    /\ SourcesExact(c.serving) => SourcesExact(c.opened.shards)

=============================================================================
